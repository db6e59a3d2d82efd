----------------------- MODULE TrainFlowStreams_proofs -----------------------
(***************************************************************************)
(* The command streams of the training loop.  From the order in which the  *)
(* controller sends steps and weight syncs, and the replicas take them, it *)
(* follows that the members of a collective meet at the same command, that *)
(* a sample's label names the weights it was generated with, and that      *)
(* generation is never far behind training.                                *)
(***************************************************************************)
EXTENDS TrainFlow_proofs

-----------------------------------------------------------------------------
(* The commands of one kind in a stream *)

Places(queue, type) == {i \in 1..Len(queue) : queue[i].type = type}
Pending(queue, type) == {queue[i] : i \in Places(queue, type)}
Steps(queue, type) == {cmd.step : cmd \in Pending(queue, type)}

\* They are in the order of their steps.
Increasing(queue, type) ==
  \A i, j \in Places(queue, type) : i < j => queue[i].step < queue[j].step

\* What is left of a stream when its first command is taken, and a stream with one more.
IsRest(rest, queue) ==
  /\ rest \in Seq(Commands) /\ Head(queue) = queue[1] /\ Head(queue) \in Commands
  /\ Len(queue) \in Nat \ {0} /\ Len(rest) = Len(queue) - 1
  /\ \A i \in 1..Len(rest) : rest[i] = queue[i + 1]
IsLonger(longer, queue, cmd) ==
  /\ longer \in Seq(Commands)
  /\ Len(queue) \in Nat /\ Len(longer) = Len(queue) + 1
  /\ \A i \in 1..Len(queue) : longer[i] = queue[i]
  /\ longer[Len(queue) + 1] = cmd

LEMMA TailIsRest ==
  ASSUME NEW queue \in Seq(Commands), queue # <<>>
  PROVE  IsRest(Tail(queue), queue)
<1>1. /\ Len(queue) \in Nat \ {0} /\ Len(Tail(queue)) = Len(queue) - 1
      /\ Tail(queue) \in Seq(Commands)
      /\ \A i \in 1..Len(Tail(queue)) : Tail(queue)[i] = queue[i + 1]
  BY EmptySeq, HeadTailProperties
<1>2. Head(queue) = queue[1] /\ Head(queue) \in Commands
  BY EmptySeq, HeadTailProperties, ElementOfSeq
<1>. QED BY <1>1, <1>2 DEF IsRest

LEMMA AppendIsLonger ==
  ASSUME NEW queue \in Seq(Commands), NEW cmd \in Commands
  PROVE  IsLonger(Append(queue, cmd), queue, cmd)
BY AppendProperties DEF IsLonger

\* The pending commands are commands; there are none in an empty stream.
LEMMA PendingType ==
  ASSUME NEW queue \in Seq(Commands), NEW type
  PROVE  /\ \A d \in Pending(queue, type) :
              d \in Commands /\ d.step \in Nat /\ d.items \in Nat /\ d.type = type
         /\ \A i \in Places(queue, type) :
              i \in Nat /\ queue[i] \in Pending(queue, type) /\ queue[i].step \in Nat
<1>1. \A i \in Places(queue, type) : i \in Nat /\ queue[i] \in Commands /\ queue[i].type = type
  BY ElementOfSeq DEF Places
<1>. QED BY <1>1 DEF Pending, Commands

LEMMA NonePending ==
  ASSUME NEW queue, NEW type
  PROVE  /\ Pending(queue, type) = {} <=> Places(queue, type) = {}
         /\ Fetches(queue) = Places(queue, "DataFetch")
         /\ Places(<<>>, type) = {}
<1>1. Pending(queue, type) = {} <=> Places(queue, type) = {}
  BY DEF Pending
<1>2. Fetches(queue) = Places(queue, "DataFetch")
  BY DEF Places, Fetches
<1>3. Places(<<>>, type) = {}
  BY DEF Places
<1>. QED BY <1>1, <1>2, <1>3

\* What is pending when the first command has been taken.
LEMMA RestPlaces ==
  ASSUME NEW queue, NEW rest, IsRest(rest, queue), NEW type
  PROVE  /\ \A i \in Places(rest, type) :
              i \in Nat \ {0} /\ i + 1 \in Places(queue, type) /\ rest[i] = queue[i + 1]
         /\ \A i \in Places(queue, type) : i # 1 =>
              i \in Nat /\ i - 1 \in Places(rest, type) /\ rest[i - 1] = queue[i]
         /\ 1 \in Places(queue, type) <=> Head(queue).type = type
<1>1. PICK n \in Nat : n = Len(rest) /\ Len(queue) = n + 1
  BY DEF IsRest
<1>2. ASSUME NEW i \in Places(queue, type), i # 1
      PROVE  i \in Nat /\ i - 1 \in Places(rest, type) /\ rest[i - 1] = queue[i]
  <2>1. i \in 1..(n + 1) /\ queue[i].type = type
    BY <1>1 DEF Places
  <2>2. i - 1 \in 1..n /\ (i - 1) + 1 = i /\ i \in Nat
    BY <1>2, <2>1
  <2>3. rest[i - 1] = queue[i]
    BY <1>1, <2>2 DEF IsRest
  <2>. QED BY <1>1, <2>1, <2>2, <2>3 DEF Places
<1>3. ASSUME NEW i \in Places(rest, type)
      PROVE  i \in Nat \ {0} /\ i + 1 \in Places(queue, type) /\ rest[i] = queue[i + 1]
  BY <1>1 DEF Places, IsRest
<1>4. 1 \in Places(queue, type) <=> Head(queue).type = type
  BY <1>1 DEF Places, IsRest
<1>. QED BY <1>2, <1>3, <1>4

LEMMA RestPending ==
  ASSUME NEW queue, NEW rest, IsRest(rest, queue), NEW type
  PROVE  /\ Pending(rest, type) \subseteq Pending(queue, type)
         /\ \A d \in Pending(queue, type) : d \in Pending(rest, type) \/ d = Head(queue)
         /\ Head(queue).type # type => Pending(rest, type) = Pending(queue, type)
         /\ Head(queue).type = type => Head(queue) \in Pending(queue, type)
<1>0. /\ \A i \in Places(rest, type) : i + 1 \in Places(queue, type) /\ rest[i] = queue[i + 1]
      /\ \A i \in Places(queue, type) : i # 1 =>
           i - 1 \in Places(rest, type) /\ rest[i - 1] = queue[i]
      /\ 1 \in Places(queue, type) <=> Head(queue).type = type
  BY RestPlaces
<1>1. ASSUME NEW d \in Pending(rest, type) PROVE d \in Pending(queue, type)
  BY <1>0 DEF Pending
<1>2. ASSUME NEW d \in Pending(queue, type)
      PROVE  d \in Pending(rest, type) \/ (d = Head(queue) /\ Head(queue).type = type)
  <2>1. PICK i \in Places(queue, type) : d = queue[i]
    BY DEF Pending
  <2>2. CASE i = 1
    BY <1>0, <2>1, <2>2 DEF IsRest
  <2>3. CASE i # 1
    <3>1. i - 1 \in Places(rest, type) /\ rest[i - 1] = d
      BY <1>0, <2>1, <2>3
    <3>. QED BY <3>1 DEF Pending
  <2>. QED BY <2>2, <2>3
<1>3. Head(queue).type = type => Head(queue) \in Pending(queue, type)
  BY <1>0 DEF Pending, IsRest
<1>. QED BY <1>1, <1>2, <1>3

LEMMA LongerPlaces ==
  ASSUME NEW queue, NEW cmd, NEW longer, IsLonger(longer, queue, cmd), NEW type
  PROVE  /\ \A i \in Places(queue, type) :
              /\ i \in Nat /\ i <= Len(queue)
              /\ i \in Places(longer, type) /\ longer[i] = queue[i]
         /\ \A i \in Places(longer, type) :
              /\ i \in Nat
              /\ \/ i \in Places(queue, type) /\ i <= Len(queue) /\ longer[i] = queue[i]
                 \/ i = Len(queue) + 1 /\ cmd.type = type /\ longer[i] = cmd
         /\ cmd.type = type =>
              Len(queue) + 1 \in Places(longer, type) /\ longer[Len(queue) + 1] = cmd
BY DEF IsLonger, Places

LEMMA LongerPending ==
  ASSUME NEW queue, NEW cmd, NEW longer, IsLonger(longer, queue, cmd), NEW type
  PROVE  Pending(longer, type) =
           Pending(queue, type) \cup (IF cmd.type = type THEN {cmd} ELSE {})
<1>0. /\ \A i \in Places(queue, type) : i \in Places(longer, type) /\ longer[i] = queue[i]
      /\ \A i \in Places(longer, type) :
           \/ i \in Places(queue, type) /\ longer[i] = queue[i]
           \/ cmd.type = type /\ longer[i] = cmd
      /\ cmd.type = type => \E i \in Places(longer, type) : longer[i] = cmd
  BY LongerPlaces
<1>1. ASSUME NEW d \in Pending(longer, type)
      PROVE  d \in Pending(queue, type) \/ (d = cmd /\ cmd.type = type)
  BY <1>0 DEF Pending
<1>2. ASSUME NEW d \in Pending(queue, type) PROVE d \in Pending(longer, type)
  BY <1>0 DEF Pending
<1>3. cmd.type = type => cmd \in Pending(longer, type)
  BY <1>0 DEF Pending
<1>. QED BY <1>1, <1>2, <1>3

\* An order of the steps is kept when the first command is taken and when a command
\* with a later step is added; the first command has the least step.
LEMMA RestIncreasing ==
  ASSUME NEW queue, NEW rest, IsRest(rest, queue), NEW type, Increasing(queue, type)
  PROVE  /\ Increasing(rest, type)
         /\ Head(queue).type = type =>
              \A d \in Pending(rest, type) : Head(queue).step < d.step
<1>0. /\ \A i \in Places(rest, type) :
           i \in Nat \ {0} /\ i + 1 \in Places(queue, type) /\ rest[i] = queue[i + 1]
      /\ 1 \in Places(queue, type) <=> Head(queue).type = type
  BY RestPlaces
<1>1. ASSUME NEW i \in Places(rest, type), NEW j \in Places(rest, type), i < j
      PROVE  rest[i].step < rest[j].step
  <2>1. /\ i + 1 \in Places(queue, type) /\ j + 1 \in Places(queue, type)
        /\ rest[i] = queue[i + 1] /\ rest[j] = queue[j + 1]
    BY <1>0
  <2>2. i + 1 < j + 1
    BY <1>0, <1>1
  <2>. QED BY <2>1, <2>2 DEF Increasing
<1>2. ASSUME Head(queue).type = type, NEW d \in Pending(rest, type)
      PROVE  Head(queue).step < d.step
  <2>1. PICK i \in Places(rest, type) : d = rest[i]
    BY DEF Pending
  <2>2. i \in Nat \ {0} /\ i + 1 \in Places(queue, type) /\ d = queue[i + 1]
    BY <1>0, <2>1
  <2>3. 1 \in Places(queue, type) /\ Head(queue) = queue[1]
    BY <1>0, <1>2 DEF IsRest
  <2>4. 1 < i + 1
    BY <2>2
  <2>. QED BY <2>2, <2>3, <2>4 DEF Increasing
<1>. QED BY <1>1, <1>2 DEF Increasing

LEMMA LongerIncreasing ==
  ASSUME NEW queue, NEW cmd, NEW longer, IsLonger(longer, queue, cmd), NEW type,
         Increasing(queue, type),
         cmd.type = type => \A d \in Pending(queue, type) : d.step < cmd.step
  PROVE  Increasing(longer, type)
<1>1. Len(queue) \in Nat
  BY DEF IsLonger
<1>2. \A i \in Places(longer, type) :
        /\ i \in Nat
        /\ \/ i \in Places(queue, type) /\ i <= Len(queue) /\ longer[i] = queue[i]
           \/ i = Len(queue) + 1 /\ cmd.type = type /\ longer[i] = cmd
  BY LongerPlaces
<1>3. SUFFICES ASSUME NEW i \in Places(longer, type), NEW j \in Places(longer, type), i < j
               PROVE  longer[i].step < longer[j].step
  BY DEF Increasing
<1>4. i \in Places(queue, type) /\ longer[i] = queue[i]
  BY <1>1, <1>2, <1>3
<1>5. CASE j \in Places(queue, type) /\ longer[j] = queue[j]
  BY <1>3, <1>4, <1>5 DEF Increasing
<1>6. CASE cmd.type = type /\ longer[j] = cmd
  BY <1>4, <1>6 DEF Pending
<1>. QED BY <1>2, <1>5, <1>6

LEMMA RestSteps ==
  ASSUME NEW queue \in Seq(Commands), NEW rest, IsRest(rest, queue), NEW type,
         Increasing(queue, type)
  PROVE  Steps(rest, type) =
           IF Head(queue).type = type THEN Steps(queue, type) \ {Head(queue).step}
                                      ELSE Steps(queue, type)
<1>1. CASE Head(queue).type # type
  BY <1>1, RestPending DEF Steps
<1>2. CASE Head(queue).type = type
  <2>1. \A d \in Pending(rest, type) : d.step # Head(queue).step
    <3>1. Head(queue).step \in Nat
      BY DEF Commands, IsRest
    <3>2. \A d \in Pending(rest, type) : d.step \in Nat
      BY PendingType DEF IsRest
    <3>. QED BY <1>2, <3>1, <3>2, RestIncreasing
  <2>2. /\ Pending(rest, type) \subseteq Pending(queue, type)
        /\ \A d \in Pending(queue, type) : d \in Pending(rest, type) \/ d = Head(queue)
    BY RestPending
  <2>. QED BY <1>2, <2>1, <2>2 DEF Steps
<1>. QED BY <1>1, <1>2

LEMMA LongerSteps ==
  ASSUME NEW queue, NEW cmd, NEW longer, IsLonger(longer, queue, cmd), NEW type
  PROVE  Steps(longer, type) =
           Steps(queue, type) \cup (IF cmd.type = type THEN {cmd.step} ELSE {})
<1>1. Pending(longer, type) = Pending(queue, type) \cup (IF cmd.type = type THEN {cmd} ELSE {})
  BY LongerPending
<1>. QED BY <1>1 DEF Steps

LEMMA HeadLeast ==
  ASSUME NEW queue \in Seq(Commands), NEW type, HeadIs(queue, type), Increasing(queue, type)
  PROVE  /\ Head(queue).step \in Steps(queue, type)
         /\ Head(queue).step \in Nat
         /\ \A x \in Steps(queue, type) : x \in Nat /\ Head(queue).step <= x
<1>1. queue # <<>> /\ Head(queue).type = type
  BY DEF HeadIs
<1>2. PICK rest : IsRest(rest, queue)
  BY <1>1, TailIsRest
<1>3. Head(queue).step \in Nat
  BY <1>2 DEF IsRest, Commands
<1>4. \A d \in Pending(queue, type) : d.step \in Nat
  BY PendingType
<1>5. \A d \in Pending(queue, type) : Head(queue).step <= d.step
  <2>1. \A d \in Pending(rest, type) : Head(queue).step < d.step
    BY <1>1, <1>2, RestIncreasing
  <2>2. \A d \in Pending(queue, type) : d \in Pending(rest, type) \/ d = Head(queue)
    BY <1>2, RestPending
  <2>. QED BY <1>3, <1>4, <2>1, <2>2
<1>6. Head(queue) \in Pending(queue, type)
  BY <1>1, <1>2, RestPending
<1>. QED BY <1>3, <1>4, <1>5, <1>6 DEF Steps

\* Two streams with the same steps of a kind have the same one first.
LEMMA SameHead ==
  ASSUME NEW q1 \in Seq(Commands), NEW q2 \in Seq(Commands), NEW type,
         HeadIs(q1, type), Increasing(q1, type), HeadIs(q2, type), Increasing(q2, type),
         Steps(q1, type) = Steps(q2, type)
  PROVE  Head(q1).step = Head(q2).step
<1>1. /\ Head(q1).step \in Steps(q2, type) /\ Head(q1).step \in Nat
      /\ Head(q2).step \in Steps(q1, type) /\ Head(q2).step \in Nat
  BY HeadLeast
<1>2. Head(q1).step <= Head(q2).step /\ Head(q2).step <= Head(q1).step
  BY <1>1, HeadLeast
<1>. QED BY <1>1, <1>2

-----------------------------------------------------------------------------
(* The actions on the streams, as the proofs below use them *)

\* A step is started: every policy replica has one more command.
LEMMA StartFacts ==
  ASSUME NEW items \in Nat, NEW buffer, NEW remain, NEW total \in Nat, NEW val,
         NEW cmds \in [Policies -> Seq(Commands)], currentStep \in Nat,
         StartStep(items, buffer, remain, cmds, total, val)
  PROVE  LET cmd == DataFetch(currentStep + 1, total, items)
         IN  /\ cmd \in Commands /\ cmd.type = "DataFetch" /\ cmd.step = currentStep + 1
             /\ cmd.items = items /\ cmd.total = total
             /\ currentStep' = currentStep + 1
             /\ \A p \in Policies : /\ IsLonger(policyCmds'[p], cmds[p], cmd)
                                    /\ status'[p] = "RUNNING"
<1> DEFINE cmd == DataFetch(currentStep + 1, total, items)
<1>1. cmd \in Commands /\ cmd.type = "DataFetch" /\ cmd.step = currentStep + 1
      /\ cmd.items = items /\ cmd.total = total
  BY DEF DataFetch, Commands
<1>2. \A p \in Policies : policyCmds'[p] = Append(cmds[p], cmd) /\ status'[p] = "RUNNING"
  BY DEF StartStep, Publish
<1>. HIDE DEF cmd
<1>3. \A p \in Policies : IsLonger(policyCmds'[p], cmds[p], cmd)
  BY <1>1, <1>2, AppendIsLonger
<1>. QED BY <1>1, <1>2, <1>3 DEF StartStep, cmd

LEMMA StartedCommand ==
  ASSUME NEW items \in Nat, NEW buffer, NEW remain, NEW total \in Nat, NEW val,
         NEW cmds \in [Policies -> Seq(Commands)], currentStep \in Nat,
         StartStep(items, buffer, remain, cmds, total, val)
  PROVE  \E cmd \in Commands :
           /\ cmd.type = "DataFetch" /\ cmd.step = currentStep + 1 /\ cmd.items = items
           /\ cmd.total = total /\ currentStep' = currentStep + 1
           /\ \A p \in Policies : IsLonger(policyCmds'[p], cmds[p], cmd) /\ status'[p] = "RUNNING"
BY StartFacts

\* What train_ack leaves for its trigger attempt: the status, the policy replicas'
\* streams before and after a weight sync, and the rollout replicas' streams.
Acked(p)    == [status EXCEPT ![p] = "REDUCED"]
AllReady    == [q \in Policies |-> "READY"]
AckCmd(p)   == Head(policyCmds[p])
AckCmds(p)  == [policyCmds EXCEPT ![p] = Tail(@)]
Synced(p)   == NeedsSync(AckCmd(p).step, AckCmd(p).total)
SyncCmds(p) == IF Synced(p) THEN PolicySync(AckCmds(p), AckCmd(p).step, AckCmd(p).total)
                            ELSE AckCmds(p)
SyncRolloutCmds(p) ==
  IF Synced(p) THEN RolloutSync(AckCmd(p).step, AckCmd(p).total) ELSE rolloutCmds

LEMMA AckFacts ==
  ASSUME IInv, NEW p \in Policies, TrainAck(p)
  PROVE  /\ policyCmds[p] # <<>> /\ AckCmd(p) \in Commands /\ AckCmd(p).type = "DataFetch"
         /\ AckCmd(p).step \in Nat /\ AckCmd(p).total \in Nat /\ AckCmd(p).step <= currentStep
         /\ AckCmd(p).items = 0 \/ trained[p] = AckCmd(p).step
         /\ AckCmds(p) \in [Policies -> Seq(Commands)]
         /\ IsRest(AckCmds(p)[p], policyCmds[p])
         /\ \A q \in Policies \ {p} : AckCmds(p)[q] = policyCmds[q]
         /\ UNCHANGED <<dataVars, totalSteps, ended, trained, rolloutVars>>
         /\ \/ /\ ~AllAre(Acked(p), {"REDUCED"})
               /\ status' = Acked(p) /\ policyCmds' = AckCmds(p)
               /\ UNCHANGED <<currentStep, remainSamples, rolloutBuffer, samplesOnTheFly,
                              validation, rolloutCmds>>
            \/ /\ AllAre(Acked(p), {"REDUCED"})
               /\ samplesOnTheFly' = samplesOnTheFly - GlobalBatch
               /\ rolloutCmds' = SyncRolloutCmds(p)
               /\ TryTrigger(AllReady, rolloutBuffer, remainSamples, SyncCmds(p), validation)
<1>1. /\ policyCmds \in [Policies -> Seq(Commands)] /\ policyCmds[p] \in Seq(Commands)
      /\ CommandsUpTo(policyCmds[p], currentStep) /\ currentStep \in Nat
  BY Parts DEF CoreInv
<1>2. policyCmds[p] # <<>> /\ AckCmd(p).type = "DataFetch"
  BY DEF TrainAck, HeadIs, AckCmd
<1>3. AckCmd(p) \in Commands /\ AckCmd(p).step <= currentStep /\ Tail(policyCmds[p]) \in Seq(Commands)
  BY <1>1, <1>2, HeadAndTail DEF AckCmd
<1>4. AckCmd(p).step \in Nat /\ AckCmd(p).total \in Nat
  BY <1>3 DEF Commands
<1>5. /\ AckCmds(p) \in [Policies -> Seq(Commands)]
      /\ AckCmds(p)[p] = Tail(policyCmds[p])
      /\ \A q \in Policies \ {p} : AckCmds(p)[q] = policyCmds[q]
  BY <1>1, <1>3 DEF AckCmds
<1>6. IsRest(AckCmds(p)[p], policyCmds[p])
  BY <1>1, <1>2, <1>5, TailIsRest
<1>7. AckCmd(p).items = 0 \/ trained[p] = AckCmd(p).step
  BY DEF TrainAck, AckCmd
<1>8. UNCHANGED <<dataVars, totalSteps, ended, trained, rolloutVars>>
  BY DEF TrainAck
<1>9. \/ /\ ~AllAre(Acked(p), {"REDUCED"})
         /\ status' = Acked(p) /\ policyCmds' = AckCmds(p)
         /\ UNCHANGED <<currentStep, remainSamples, rolloutBuffer, samplesOnTheFly,
                        validation, rolloutCmds>>
      \/ /\ AllAre(Acked(p), {"REDUCED"})
         /\ samplesOnTheFly' = samplesOnTheFly - GlobalBatch
         /\ rolloutCmds' = SyncRolloutCmds(p)
         /\ TryTrigger(AllReady, rolloutBuffer, remainSamples, SyncCmds(p), validation)
  BY Zenon DEF TrainAck, Acked, AllReady, AckCmd, AckCmds, Synced, SyncCmds, SyncRolloutCmds
<1>. QED BY <1>2, <1>3, <1>4, <1>5, <1>6, <1>7, <1>8, <1>9

\* A weight sync adds a P2R to the stream of the leading policy replica, a P2R and an R2R
\* to that of the leading rollout replica, and an R2R to those of the others.
LEMMA PolicySyncFacts ==
  ASSUME NEW cmds \in [Policies -> Seq(Commands)], NEW step \in Nat, NEW total \in Nat
  PROVE  /\ PolicySync(cmds, step, total) \in [Policies -> Seq(Commands)]
         /\ Sync("P2R", step, total) \in Commands
         /\ IsLonger(PolicySync(cmds, step, total)[LeadPolicy], cmds[LeadPolicy],
                     Sync("P2R", step, total))
         /\ \A p \in Policies \ {LeadPolicy} : PolicySync(cmds, step, total)[p] = cmds[p]
<1>1. Sync("P2R", step, total) \in Commands
  BY DEF Sync, Commands
<1>2. IsLonger(Append(cmds[LeadPolicy], Sync("P2R", step, total)), cmds[LeadPolicy],
               Sync("P2R", step, total))
  BY <1>1, AppendIsLonger, Constants
<1>3. Append(cmds[LeadPolicy], Sync("P2R", step, total)) \in Seq(Commands)
  BY <1>2 DEF IsLonger
<1>. QED BY <1>1, <1>2, <1>3, Constants DEF PolicySync

LEMMA RolloutSyncFacts ==
  ASSUME IInv, NEW step \in Nat, NEW total \in Nat, NEW r \in Rollouts
  PROVE  /\ Sync("P2R", step, total) \in Commands /\ Sync("R2R", step, total) \in Commands
         /\ \E before \in Seq(Commands) :
              /\ IF r = LeadRollout THEN IsLonger(before, rolloutCmds[r], Sync("P2R", step, total))
                                    ELSE before = rolloutCmds[r]
              /\ IsLonger(RolloutSync(step, total)[r], before, Sync("R2R", step, total))
<1>1. rolloutCmds[r] \in Seq(Commands)
  BY Parts DEF RolloutInv
<1> DEFINE p2r    == Sync("P2R", step, total)
           r2r    == Sync("R2R", step, total)
           before == IF r = LeadRollout THEN Append(rolloutCmds[r], p2r) ELSE rolloutCmds[r]
<1>2. p2r \in Commands /\ r2r \in Commands
  BY DEF Sync, Commands
<1>3. \A queue \in Seq(Commands), cmd \in Commands : queue \o <<cmd>> = Append(queue, cmd)
  OBVIOUS
<1>4. rolloutCmds[r] \o <<>> = rolloutCmds[r]
  BY <1>1, ConcatEmptySeq
<1>5. RolloutSync(step, total)[r]
        = (rolloutCmds[r] \o (IF r = LeadRollout THEN <<p2r>> ELSE <<>>)) \o <<r2r>>
  BY DEF RolloutSync
<1>. HIDE DEF p2r, r2r
<1>6. RolloutSync(step, total)[r] = before \o <<r2r>>
  BY <1>1, <1>2, <1>3, <1>4, <1>5
<1>7. before \in Seq(Commands)
  BY <1>1, <1>2, AppendProperties
<1>8. r = LeadRollout => IsLonger(before, rolloutCmds[r], p2r)
  BY <1>1, <1>2, AppendIsLonger
<1>9. r # LeadRollout => before = rolloutCmds[r]
  OBVIOUS
<1>. HIDE DEF before
<1>10. IsLonger(RolloutSync(step, total)[r], before, r2r)
  BY <1>2, <1>3, <1>6, <1>7, AppendIsLonger
<1>. QED BY <1>2, <1>7, <1>8, <1>9, <1>10 DEF p2r, r2r

-----------------------------------------------------------------------------
(* The rounds of the barrier *)

\* A round begins with all replicas READY or RUNNING and ends when the last answers.
OneRound(st) ==
  /\ (\E p \in Policies : st[p] = "READY") => \A p \in Policies : st[p] # "RUNNING"
  /\ \E p \in Policies : st[p] # "REDUCED"

\* A replica that has answered has at most the extra step still before it, ...
Answered(st, cmds, step) ==
  \A p \in Policies : st[p] # "RUNNING" =>
    \A d \in Pending(cmds[p], "DataFetch") : d.step = step /\ d.items = 0

\* ... and so has one that has not, behind the step it is to answer.
ExtraIsLast(queue, step) ==
  \A i, j \in Places(queue, "DataFetch") :
    i < j => queue[i].step < queue[j].step /\ queue[j].step = step /\ queue[j].items = 0

RoundInv(st, cmds, step) ==
  /\ OneRound(st)
  /\ Answered(st, cmds, step)
  /\ \A p \in Policies : ExtraIsLast(cmds[p], step)

\* Once the steps have all been sent no other can be.
FinalInv == NoEmptyStep \/ totalSteps > 0 \/ Len(rolloutBuffer) < GlobalBatch

LEMMA RestExtra ==
  ASSUME NEW queue, NEW rest, IsRest(rest, queue), NEW step, ExtraIsLast(queue, step)
  PROVE  /\ ExtraIsLast(rest, step)
         /\ Head(queue).type = "DataFetch" =>
              \A d \in Pending(rest, "DataFetch") :
                Head(queue).step < d.step /\ d.step = step /\ d.items = 0
<1>0. /\ \A i \in Places(rest, "DataFetch") :
           i \in Nat \ {0} /\ i + 1 \in Places(queue, "DataFetch") /\ rest[i] = queue[i + 1]
      /\ 1 \in Places(queue, "DataFetch") <=> Head(queue).type = "DataFetch"
  BY RestPlaces
<1>1. ASSUME NEW i \in Places(rest, "DataFetch"), NEW j \in Places(rest, "DataFetch"), i < j
      PROVE  rest[i].step < rest[j].step /\ rest[j].step = step /\ rest[j].items = 0
  <2>1. /\ i + 1 \in Places(queue, "DataFetch") /\ j + 1 \in Places(queue, "DataFetch")
        /\ rest[i] = queue[i + 1] /\ rest[j] = queue[j + 1]
    BY <1>0
  <2>2. i + 1 < j + 1
    BY <1>0, <1>1
  <2>. QED BY <2>1, <2>2 DEF ExtraIsLast
<1>2. ASSUME Head(queue).type = "DataFetch", NEW d \in Pending(rest, "DataFetch")
      PROVE  Head(queue).step < d.step /\ d.step = step /\ d.items = 0
  <2>1. PICK i \in Places(rest, "DataFetch") : d = rest[i]
    BY DEF Pending
  <2>2. i \in Nat \ {0} /\ i + 1 \in Places(queue, "DataFetch") /\ d = queue[i + 1]
    BY <1>0, <2>1
  <2>3. 1 \in Places(queue, "DataFetch") /\ Head(queue) = queue[1]
    BY <1>0, <1>2 DEF IsRest
  <2>4. 1 < i + 1
    BY <2>2
  <2>. QED BY <2>2, <2>3, <2>4 DEF ExtraIsLast
<1>. QED BY <1>1, <1>2 DEF ExtraIsLast

\* A sync behind the steps changes nothing, a step does when it is not alone.
LEMMA LongerExtra ==
  ASSUME NEW queue, NEW cmd, NEW longer, IsLonger(longer, queue, cmd), NEW step
  PROVE  /\ cmd.type # "DataFetch" /\ ExtraIsLast(queue, step) => ExtraIsLast(longer, step)
         /\ /\ \A i, j \in Places(queue, "DataFetch") : i = j
            /\ \A d \in Pending(queue, "DataFetch") : d.step < step
            /\ Pending(queue, "DataFetch") = {} \/ cmd.items = 0
            /\ cmd.step = step
            => ExtraIsLast(longer, step)
<1>1. Len(queue) \in Nat
  BY DEF IsLonger
<1>2. \A i \in Places(longer, "DataFetch") :
        /\ i \in Nat
        /\ \/ i \in Places(queue, "DataFetch") /\ i <= Len(queue) /\ longer[i] = queue[i]
           \/ i = Len(queue) + 1 /\ cmd.type = "DataFetch" /\ longer[i] = cmd
  BY LongerPlaces
<1>3. ASSUME cmd.type # "DataFetch", ExtraIsLast(queue, step) PROVE ExtraIsLast(longer, step)
  BY <1>2, <1>3 DEF ExtraIsLast
<1>4. ASSUME \A i, j \in Places(queue, "DataFetch") : i = j,
             \A d \in Pending(queue, "DataFetch") : d.step < step,
             Pending(queue, "DataFetch") = {} \/ cmd.items = 0,
             cmd.step = step,
             NEW i \in Places(longer, "DataFetch"), NEW j \in Places(longer, "DataFetch"), i < j
      PROVE  longer[i].step < longer[j].step /\ longer[j].step = step /\ longer[j].items = 0
  <2>1. i \in Places(queue, "DataFetch") /\ longer[i] = queue[i]
    BY <1>1, <1>2, <1>4
  <2>2. longer[j] = cmd
    <3>1. i # j
      BY <1>2, <1>4
    <3>. QED BY <1>2, <1>4, <2>1, <3>1
  <2>3. queue[i] \in Pending(queue, "DataFetch")
    BY <2>1 DEF Pending
  <2>. QED BY <1>4, <2>1, <2>2, <2>3
<1>. QED BY <1>3, <1>4 DEF ExtraIsLast

\* The commands of a stream are up to the controller's step.
LEMMA PendingUpTo ==
  ASSUME NEW queue, NEW step, CommandsUpTo(queue, step), NEW type
  PROVE  (\A d \in Pending(queue, type) : d.step <= step) /\ \A x \in Steps(queue, type) : x <= step
BY DEF CommandsUpTo, Pending, Places, Steps

\* A new round, with nothing or only the extra step left of the one before.
LEMMA StartRound ==
  ASSUME NEW items \in Nat, NEW buffer, NEW remain, NEW total \in Nat, NEW val,
         NEW cmds \in [Policies -> Seq(Commands)], currentStep \in Nat,
         \A p \in Policies : CommandsUpTo(cmds[p], currentStep),
         \A p \in Policies : Single(Fetches(cmds[p])),
         items = 0 \/ \A p \in Policies : Fetches(cmds[p]) = {},
         StartStep(items, buffer, remain, cmds, total, val)
  PROVE  RoundInv(status', policyCmds', currentStep')
<1>1. PICK cmd \in Commands :
        /\ cmd.type = "DataFetch" /\ cmd.step = currentStep + 1 /\ cmd.items = items
        /\ currentStep' = currentStep + 1
        /\ \A p \in Policies : IsLonger(policyCmds'[p], cmds[p], cmd) /\ status'[p] = "RUNNING"
  BY StartFacts
<1>2. OneRound(status') /\ Answered(status', policyCmds', currentStep')
  BY <1>1, Constants DEF OneRound, Answered
<1>3. ASSUME NEW p \in Policies PROVE ExtraIsLast(policyCmds'[p], currentStep + 1)
  <2>1. IsLonger(policyCmds'[p], cmds[p], cmd) /\ cmd.step = currentStep + 1
    BY <1>1
  <2>2. \A i, j \in Places(cmds[p], "DataFetch") : i = j
    BY NonePending DEF Single
  <2>3. \A d \in Pending(cmds[p], "DataFetch") : d.step < currentStep + 1
    <3>1. \A d \in Pending(cmds[p], "DataFetch") : d.step \in Nat /\ d.step <= currentStep
      BY PendingType, PendingUpTo
    <3>. QED BY <3>1
  <2>4. Pending(cmds[p], "DataFetch") = {} \/ cmd.items = 0
    BY <1>1, NonePending
  <2>. QED BY <2>1, <2>2, <2>3, <2>4, LongerExtra
<1>. QED BY <1>1, <1>2, <1>3 DEF RoundInv

\* A step is only started before the extra one, when no replica has a step to answer.
LEMMA StartIsFirst ==
  ASSUME IInv, FinalInv, NEW st, NEW cmds, NEW buffer, NEW val,
         NoEmptyStep => Barrier(st, cmds), NoEmptyStep \/ buffer = rolloutBuffer,
         MayStart(st, buffer, val)
  PROVE  NoEmptyStep /\ \A p \in Policies : st[p] # "RUNNING" /\ Fetches(cmds[p]) = {}
<1>1. NoEmptyStep
  <2>1. SUFFICES ASSUME ~NoEmptyStep PROVE FALSE
    OBVIOUS
  <2>2. totalSteps \in Nat /\ currentStep \in Nat /\ Len(rolloutBuffer) \in Nat
    BY DEF IInv, TypeOK
  <2>3. ~(currentStep < totalSteps) /\ ~(currentStep >= totalSteps /\ totalSteps > 0)
    BY <2>1 DEF NoEmptyStep, MayStart, TrainingFinished
  <2>4. ~(totalSteps > 0)
    BY <2>2, <2>3
  <2>5. Len(rolloutBuffer) < GlobalBatch /\ Len(rolloutBuffer) >= GlobalBatch
    BY <2>1, <2>4 DEF FinalInv, MayStart
  <2>. QED BY <2>2, <2>5, GlobalBatchType
<1>. QED BY <1>1 DEF Barrier, MayStart, AllAre

LEMMA TriggerRound ==
  ASSUME IInv, FinalInv, NEW st, NEW cmds \in [Policies -> Seq(Commands)], NEW buffer,
         NEW remain, NEW val,
         NoEmptyStep => Barrier(st, cmds), NoEmptyStep \/ buffer = rolloutBuffer,
         \A p \in Policies : CommandsUpTo(cmds[p], currentStep),
         RoundInv(st, cmds, currentStep), TryTrigger(st, buffer, remain, cmds, val)
  PROVE  RoundInv(status', policyCmds', currentStep')
<1>1. CASE MayStart(st, buffer, val)
  <2>1. StartStep(TrainBatch, buffer, remain, cmds, totalSteps, val)
    BY <1>1 DEF TryTrigger
  <2>2. \A p \in Policies : Fetches(cmds[p]) = {}
    BY <1>1, StartIsFirst
  <2>3. \A p \in Policies : Single(Fetches(cmds[p]))
    BY <2>2 DEF Single
  <2>4. currentStep \in Nat /\ totalSteps \in Nat /\ TrainBatch \in Nat
    BY Constants DEF IInv, TypeOK
  <2>. QED BY <2>1, <2>2, <2>3, <2>4, StartRound
<1>2. CASE ~MayStart(st, buffer, val)
  BY <1>2 DEF TryTrigger
<1>. QED BY <1>1, <1>2

LEMMA TriggerFinal ==
  ASSUME IInv, FinalInv, NEW st, NEW cmds, NEW buffer, NEW remain, NEW val,
         NoEmptyStep \/ buffer = rolloutBuffer,
         totalSteps' = totalSteps, ended' = ended, TryTrigger(st, buffer, remain, cmds, val)
  PROVE  FinalInv'
<1>1. totalSteps \in Nat /\ currentStep \in Nat /\ Len(rolloutBuffer) \in Nat
  BY DEF IInv, TypeOK
<1>2. CASE SomeoneGenerates
  BY <1>2 DEF FinalInv, NoEmptyStep, SomeoneGenerates
<1>3. CASE totalSteps > 0
  BY <1>3 DEF FinalInv
<1>4. CASE ~SomeoneGenerates /\ ~(totalSteps > 0)
  <2>1. ~NoEmptyStep
    BY <1>1, <1>4 DEF NoEmptyStep
  <2>2. buffer = rolloutBuffer /\ Len(rolloutBuffer) < GlobalBatch
    BY <1>4, <2>1 DEF FinalInv
  <2>3. ~MayStart(st, buffer, val)
    BY <1>1, <2>2, GlobalBatchType DEF MayStart
  <2>. QED BY <2>2, <2>3 DEF TryTrigger, FinalInv
<1>. QED BY <1>2, <1>3, <1>4

-----------------------------------------------------------------------------
(* The order of the weight syncs *)

\* x comes before every step that a policy replica has to answer.
Before(x, cmds) == \A p \in Policies : \A d \in Pending(cmds[p], "DataFetch") : x < d.step

\* So do the weights that the rollout replicas have and are to get, ...
Behind(versions, rcmds, cmds) ==
  \A r \in Rollouts :
    /\ Before(versions[r], cmds)
    /\ \A type \in {"P2R", "R2R"} : \A x \in Steps(rcmds[r], type) : Before(x, cmds)

\* ... unless no further round can end: a replica has nothing left to answer.
Dead(st, cmds) == \E p \in Policies : st[p] = "READY" /\ Fetches(cmds[p]) = {}

BehindInv(st, cmds, versions, rcmds) == Dead(st, cmds) \/ Behind(versions, rcmds, cmds)

\* The streams hold the same unicasts and the same broadcasts, in the order of the steps;
\* queue is that of the leading policy replica.
StreamsMatch(queue, versions, rcmds) ==
  /\ Increasing(queue, "P2R") /\ Increasing(rcmds[LeadRollout], "P2R")
  /\ Steps(queue, "P2R") = Steps(rcmds[LeadRollout], "P2R")
  /\ \A r \in Rollouts :
       /\ Increasing(rcmds[r], "R2R")
       /\ Steps(rcmds[r], "R2R") = Steps(rcmds[LeadRollout], "R2R")
       /\ \A x \in Steps(rcmds[r], "R2R") : versions[r] < x

OrderInv ==
  /\ FinalInv
  /\ RoundInv(status, policyCmds, currentStep)
  /\ BehindInv(status, policyCmds, weightVersion, rolloutCmds)
  /\ StreamsMatch(policyCmds[LeadPolicy], weightVersion, rolloutCmds)

LEMMA InitOrder == Init => OrderInv
<1>. SUFFICES ASSUME Init PROVE OrderInv
  OBVIOUS
<1>1. \A type : Places(<<>>, type) = {} /\ Pending(<<>>, type) = {} /\ Steps(<<>>, type) = {}
  BY DEF Places, Pending, Steps
<1>2. FinalInv
  BY Constants DEF Init, FinalInv, NoEmptyStep, SomeoneGenerates
<1>3. RoundInv(status, policyCmds, currentStep)
  BY <1>1, Constants DEF Init, RoundInv, OneRound, Answered, ExtraIsLast
<1>4. BehindInv(status, policyCmds, weightVersion, rolloutCmds)
  BY <1>1 DEF Init, BehindInv, Behind, Before
<1>5. StreamsMatch(policyCmds[LeadPolicy], weightVersion, rolloutCmds)
  BY <1>1, Constants DEF Init, StreamsMatch, Increasing
<1>. QED BY <1>2, <1>3, <1>4, <1>5 DEF OrderInv

\* What the controller has sent is up to its step.
LEMMA SyncsUpTo ==
  ASSUME IInv, NEW r \in Rollouts
  PROVE  /\ currentStep \in Nat
         /\ weightVersion[r] \in Nat /\ weightVersion[r] <= currentStep
         /\ rolloutCmds[r] \in Seq(Commands)
         /\ \A type : \A x \in Steps(rolloutCmds[r], type) : x \in Nat /\ x <= currentStep
<1>1. /\ RolloutInv(rewardQueue, weightVersion, rolloutCmds, currentStep)
      /\ currentStep \in Nat
  BY Parts DEF CoreInv
<1>2. rolloutCmds[r] \in Seq(Commands) /\ CommandsUpTo(rolloutCmds[r], currentStep)
  BY <1>1 DEF RolloutInv
<1>3. ASSUME NEW type, NEW x \in Steps(rolloutCmds[r], type)
      PROVE  x \in Nat /\ x <= currentStep
  <2>1. x <= currentStep
    BY <1>2, PendingUpTo
  <2>2. \A d \in Pending(rolloutCmds[r], type) : d.step \in Nat
    BY <1>2, PendingType
  <2>. QED BY <2>1, <2>2 DEF Steps
<1>. QED BY <1>1, <1>2, <1>3 DEF RolloutInv

LEMMA BehindFewer ==
  ASSUME NEW versions, NEW rcmds, NEW cmds, NEW fewer, Behind(versions, rcmds, cmds),
         \A p \in Policies : Pending(fewer[p], "DataFetch") \subseteq Pending(cmds[p], "DataFetch")
  PROVE  Behind(versions, rcmds, fewer)
BY DEF Behind, Before

\* A new step comes after all syncs.
LEMMA StartBehind ==
  ASSUME NEW items \in Nat, NEW buffer, NEW remain, NEW total \in Nat, NEW val,
         NEW cmds \in [Policies -> Seq(Commands)], NEW versions, NEW rcmds, currentStep \in Nat,
         \A r \in Rollouts :
           /\ versions[r] \in Nat /\ versions[r] <= currentStep
           /\ \A type \in {"P2R", "R2R"} : \A x \in Steps(rcmds[r], type) :
                x \in Nat /\ x <= currentStep,
         Behind(versions, rcmds, cmds) \/ \A p \in Policies : Fetches(cmds[p]) = {},
         StartStep(items, buffer, remain, cmds, total, val)
  PROVE  Behind(versions, rcmds, policyCmds')
<1>1. PICK cmd \in Commands :
        /\ cmd.step = currentStep + 1
        /\ \A p \in Policies : IsLonger(policyCmds'[p], cmds[p], cmd)
  BY StartFacts
<1>2. \A p \in Policies : \A d \in Pending(policyCmds'[p], "DataFetch") :
        d \in Pending(cmds[p], "DataFetch") \/ d = cmd
  BY <1>1, LongerPending
<1>3. ASSUME NEW x \in Nat, x <= currentStep,
             Before(x, cmds) \/ \A p \in Policies : Pending(cmds[p], "DataFetch") = {}
      PROVE  Before(x, policyCmds')
  <2>1. x < cmd.step
    BY <1>1, <1>3
  <2>. QED BY <1>2, <1>3, <2>1 DEF Before
<1>4. (\A p \in Policies : Fetches(cmds[p]) = {})
        => \A p \in Policies : Pending(cmds[p], "DataFetch") = {}
  BY NonePending
<1>. QED BY <1>3, <1>4 DEF Behind

\* A trigger attempt keeps the order.
LEMMA TriggerBehind ==
  ASSUME IInv, FinalInv, NEW st, NEW cmds \in [Policies -> Seq(Commands)], NEW buffer,
         NEW remain, NEW val, NEW versions, NEW rcmds,
         NoEmptyStep => Barrier(st, cmds), NoEmptyStep \/ buffer = rolloutBuffer,
         \A r \in Rollouts :
           /\ versions[r] \in Nat /\ versions[r] <= currentStep
           /\ \A type \in {"P2R", "R2R"} : \A x \in Steps(rcmds[r], type) :
                x \in Nat /\ x <= currentStep,
         BehindInv(st, cmds, versions, rcmds), TryTrigger(st, buffer, remain, cmds, val)
  PROVE  BehindInv(status', policyCmds', versions, rcmds)
<1>1. CASE MayStart(st, buffer, val)
  <2>1. StartStep(TrainBatch, buffer, remain, cmds, totalSteps, val)
    BY <1>1 DEF TryTrigger
  <2>2. \A p \in Policies : Fetches(cmds[p]) = {}
    BY <1>1, StartIsFirst
  <2>3. currentStep \in Nat /\ totalSteps \in Nat /\ TrainBatch \in Nat
    BY Constants DEF IInv, TypeOK
  <2>4. Behind(versions, rcmds, policyCmds')
    BY <2>1, <2>2, <2>3, StartBehind
  <2>. QED BY <2>4 DEF BehindInv
<1>2. CASE ~MayStart(st, buffer, val)
  BY <1>2 DEF TryTrigger
<1>. QED BY <1>1, <1>2

\* A started step is no sync.
LEMMA LongerStreams ==
  ASSUME NEW queue, NEW cmd, NEW longer, IsLonger(longer, queue, cmd), cmd.type = "DataFetch",
         NEW versions, NEW rcmds, StreamsMatch(queue, versions, rcmds)
  PROVE  StreamsMatch(longer, versions, rcmds)
<1>0. \A type : Steps(longer, type)
                   = Steps(queue, type) \cup (IF cmd.type = type THEN {cmd.step} ELSE {})
  BY LongerSteps
<1>1. Steps(longer, "P2R") = Steps(queue, "P2R")
  BY <1>0
<1>2. Increasing(longer, "P2R")
  BY LongerIncreasing DEF StreamsMatch
<1>. QED BY <1>1, <1>2 DEF StreamsMatch

LEMMA TriggerStreams ==
  ASSUME IInv, NEW st, NEW cmds \in [Policies -> Seq(Commands)], NEW buffer,
         NEW remain, NEW val, NEW versions, NEW rcmds,
         StreamsMatch(cmds[LeadPolicy], versions, rcmds), TryTrigger(st, buffer, remain, cmds, val)
  PROVE  StreamsMatch(policyCmds'[LeadPolicy], versions, rcmds)
<1>1. CASE MayStart(st, buffer, val)
  <2>1. StartStep(TrainBatch, buffer, remain, cmds, totalSteps, val)
    BY <1>1 DEF TryTrigger
  <2>2. currentStep \in Nat /\ totalSteps \in Nat /\ TrainBatch \in Nat
    BY Constants DEF IInv, TypeOK
  <2>3. PICK cmd \in Commands :
          cmd.type = "DataFetch" /\ \A p \in Policies : IsLonger(policyCmds'[p], cmds[p], cmd)
    BY <2>1, <2>2, StartFacts
  <2>4. IsLonger(policyCmds'[LeadPolicy], cmds[LeadPolicy], cmd)
    BY <2>3, Constants
  <2>. QED BY <2>3, <2>4, LongerStreams
<1>2. CASE ~MayStart(st, buffer, val)
  BY <1>2 DEF TryTrigger
<1>. QED BY <1>1, <1>2

\* The three together, for the actions that make a trigger attempt on the streams as they are.
LEMMA TriggerOrder ==
  ASSUME IInv, StatusInv, OrderInv, NEW buffer, NEW remain, NEW val,
         NoEmptyStep \/ buffer = rolloutBuffer,
         UNCHANGED <<totalSteps, ended, weightVersion, rolloutCmds>>,
         TryTrigger(status, buffer, remain, policyCmds, val)
  PROVE  OrderInv'
<1>1. policyCmds \in [Policies -> Seq(Commands)]
      /\ \A p \in Policies : CommandsUpTo(policyCmds[p], currentStep)
  BY Parts DEF CoreInv
<1>2. NoEmptyStep => Barrier(status, policyCmds)
  BY DEF StatusInv
<1>3. \A r \in Rollouts :
        /\ weightVersion[r] \in Nat /\ weightVersion[r] <= currentStep
        /\ \A type \in {"P2R", "R2R"} : \A x \in Steps(rolloutCmds[r], type) :
             x \in Nat /\ x <= currentStep
  BY SyncsUpTo
<1>4. FinalInv'
  BY TriggerFinal DEF OrderInv
<1>5. RoundInv(status', policyCmds', currentStep')
  BY <1>1, <1>2, TriggerRound DEF OrderInv
<1>6. BehindInv(status', policyCmds', weightVersion, rolloutCmds)
  BY <1>1, <1>2, <1>3, TriggerBehind DEF OrderInv
<1>7. StreamsMatch(policyCmds'[LeadPolicy], weightVersion, rolloutCmds)
  BY <1>1, TriggerStreams DEF OrderInv
<1>. QED BY <1>4, <1>5, <1>6, <1>7 DEF OrderInv

LEMMA OtherOrder ==
  ASSUME OrderInv, UNCHANGED <<currentStep, totalSteps, ended, status, rolloutBuffer, policyCmds,
                               weightVersion, rolloutCmds>>
  PROVE  OrderInv'
BY DEF OrderInv, FinalInv, NoEmptyStep, SomeoneGenerates

LEMMA ReportOrder ==
  ASSUME IInv, EndInv, StatusInv, OrderInv, NEW r \in Rollouts, ReportRollouts(r)
  PROVE  OrderInv'
<1>1. UNCHANGED <<totalSteps, ended, weightVersion, rolloutCmds>> /\ rewardQueue[r] # <<>>
  BY DEF ReportRollouts
<1>2. NoEmptyStep
  BY <1>1 DEF EndInv, EndIsLast, NoEmptyStep, SomeoneGenerates
<1>3. PICK version, n, remain : PutRollouts(version, n, remain)
  BY DEF ReportRollouts
<1>4. CASE UNCHANGED <<currentStep, status, rolloutBuffer, policyCmds>>
  BY <1>1, <1>4, OtherOrder
<1>5. ASSUME NEW buffer, TryTrigger(status, buffer, remain, policyCmds, validation)
      PROVE  OrderInv'
  BY <1>1, <1>2, <1>5, TriggerOrder
<1>. QED BY <1>3, <1>4, <1>5 DEF PutRollouts

LEMMA ValidationOrder ==
  ASSUME IInv, StatusInv, OrderInv, NEW r \in Rollouts, ReportValidation(r)
  PROVE  OrderInv'
<1>1. UNCHANGED <<totalSteps, ended, weightVersion, rolloutCmds>>
  BY DEF ReportValidation
<1>2. CASE UNCHANGED <<currentStep, status, rolloutBuffer, policyCmds>>
  BY <1>1, <1>2, OtherOrder
<1>3. ASSUME NEW val, TryTrigger(status, rolloutBuffer, remainSamples, policyCmds, val)
      PROVE  OrderInv'
  BY <1>1, <1>3, TriggerOrder
<1>. QED BY <1>2, <1>3 DEF ReportValidation, trainVars

\* recompute_total_steps says 0 only when not even one step can be made.
LEMMA StepsForZero ==
  ASSUME NEW step \in Nat, NEW samples \in Nat, StepsFor(step, samples) = 0
  PROVE  samples < GlobalBatch
<1>1. samples \div GlobalBatch \in Nat
  BY GlobalBatchType, DivMono
<1>2. samples \div GlobalBatch = 0
  BY <1>1, Constants DEF StepsFor, Smaller
<1>3. \A a \in Nat, g \in Nat \ {0} : a \div g = 0 => a < g
  OBVIOUS
<1>. QED BY <1>2, <1>3, GlobalBatchType

LEMMA SendEndSignalOrder ==
  ASSUME IInv, EndInv, StatusInv, OrderInv, NEW r \in Rollouts, SendEndSignal(r)
  PROVE  OrderInv'
<1> DEFINE newTotal == IF TrainingFinished THEN totalSteps
                                           ELSE StepsFor(currentStep, Len(rolloutBuffer))
<1>1. /\ stage[r] = "ending" /\ ended' = [ended EXCEPT ![r] = TRUE]
      /\ UNCHANGED <<weightVersion, rolloutCmds>>
  BY DEF SendEndSignal
<1>2. NoEmptyStep
  BY <1>1 DEF EndInv, EndingIsEmpty, NoEmptyStep, SomeoneGenerates
<1>3. /\ currentStep \in Nat /\ totalSteps \in Nat /\ Len(rolloutBuffer) \in Nat
      /\ policyCmds \in [Policies -> Seq(Commands)] /\ ended \in [Rollouts -> BOOLEAN]
      /\ \A p \in Policies : CommandsUpTo(policyCmds[p], currentStep)
  BY Parts DEF CoreInv, PlainTypes
<1>4. ASSUME UNCHANGED <<currentStep, status, policyCmds>>, FinalInv' PROVE OrderInv'
  BY <1>1, <1>4 DEF OrderInv
<1>5. CASE ~(\A s \in Rollouts \ {r} : ended[s]) /\ UNCHANGED <<trainVars, totalSteps, validation>>
  <2>1. NoEmptyStep'
    BY <1>1, <1>3, <1>5 DEF NoEmptyStep, SomeoneGenerates
  <2>. QED BY <1>4, <1>5, <2>1 DEF FinalInv, trainVars
<1>6. CASE totalSteps' = newTotal /\ UNCHANGED <<trainVars, validation>>
  <2>1. newTotal > 0 \/ Len(rolloutBuffer) < GlobalBatch
    <3>1. CASE TrainingFinished
      BY <3>1 DEF TrainingFinished
    <3>2. CASE ~TrainingFinished
      BY <1>3, <3>2, StepsForZero, StepsForType
    <3>. QED BY <3>1, <3>2
  <2>. QED BY <1>4, <1>6, <2>1 DEF FinalInv, trainVars
<1>7. CASE totalSteps' = currentStep + 1 /\ UNCHANGED <<currentStep, status, policyCmds>>
  <2>1. totalSteps' > 0
    BY <1>3, <1>7
  <2>. QED BY <1>4, <1>7, <2>1 DEF FinalInv
<1>8. CASE /\ totalSteps' = currentStep + 1
           /\ StartStep(0, <<>>, remainSamples, policyCmds, currentStep + 1, validation)
  <2>1. FinalInv'
    BY <1>3, <1>8 DEF FinalInv
  <2>2. 0 \in Nat /\ currentStep + 1 \in Nat
    BY <1>3
  <2>3. Barrier(status, policyCmds)
    BY <1>2 DEF StatusInv
  <2>4. RoundInv(status', policyCmds', currentStep')
    BY <1>3, <1>8, <2>2, <2>3, StartRound DEF Barrier
  <2>5. Behind(weightVersion, rolloutCmds, policyCmds) \/ \A p \in Policies : Fetches(policyCmds[p]) = {}
    BY <2>3 DEF OrderInv, BehindInv, Dead, RoundInv, OneRound, Barrier
  <2>6. Behind(weightVersion, rolloutCmds, policyCmds')
    BY <1>3, <1>8, <2>2, <2>5, SyncsUpTo, StartBehind
  <2>7. StreamsMatch(policyCmds'[LeadPolicy], weightVersion, rolloutCmds)
    <3>1. PICK cmd \in Commands :
            cmd.type = "DataFetch" /\ \A p \in Policies : IsLonger(policyCmds'[p], policyCmds[p], cmd)
      BY <1>3, <1>8, <2>2, StartFacts
    <3>2. IsLonger(policyCmds'[LeadPolicy], policyCmds[LeadPolicy], cmd)
      BY <3>1, Constants
    <3>. QED BY <3>1, <3>2, LongerStreams DEF OrderInv
  <2>. QED BY <1>1, <2>1, <2>4, <2>6, <2>7 DEF OrderInv, BehindInv
<1>9. \/ ~(\A s \in Rollouts \ {r} : ended[s]) /\ UNCHANGED <<trainVars, totalSteps, validation>>
      \/ totalSteps' = newTotal /\ UNCHANGED <<trainVars, validation>>
      \/ totalSteps' = currentStep + 1 /\ UNCHANGED <<currentStep, status, policyCmds>>
      \/ /\ totalSteps' = currentStep + 1
         /\ StartStep(0, <<>>, remainSamples, policyCmds, currentStep + 1, validation)
  BY DEF SendEndSignal
<1>. QED BY <1>5, <1>6, <1>7, <1>8, <1>9

\* The answer of a replica makes the steps to be answered fewer.
LEMMA AckRound ==
  ASSUME IInv, OrderInv, NEW p \in Policies, TrainAck(p)
  PROVE  /\ \A q \in Policies : Pending(AckCmds(p)[q], "DataFetch") \subseteq Pending(policyCmds[q], "DataFetch")
         /\ AckCmd(p) \in Pending(policyCmds[p], "DataFetch")
         /\ \A q \in Policies : ExtraIsLast(AckCmds(p)[q], currentStep)
         /\ Answered(Acked(p), AckCmds(p), currentStep)
         /\ \A d \in Pending(AckCmds(p)[p], "DataFetch") : AckCmd(p).step < d.step
         /\ Steps(AckCmds(p)[LeadPolicy], "P2R") = Steps(policyCmds[LeadPolicy], "P2R")
         /\ Increasing(AckCmds(p)[LeadPolicy], "P2R")
         /\ ~Dead(status, policyCmds) => Behind(weightVersion, rolloutCmds, policyCmds)
<1>1. /\ IsRest(AckCmds(p)[p], policyCmds[p]) /\ AckCmd(p).type = "DataFetch"
      /\ \A q \in Policies \ {p} : AckCmds(p)[q] = policyCmds[q]
  BY AckFacts
<1>2. \A type : Pending(AckCmds(p)[p], type) \subseteq Pending(policyCmds[p], type)
  BY <1>1, RestPending
<1>3. AckCmd(p) \in Pending(policyCmds[p], "DataFetch")
  BY <1>1, RestPending DEF AckCmd
<1>4. /\ ExtraIsLast(AckCmds(p)[p], currentStep)
      /\ \A d \in Pending(AckCmds(p)[p], "DataFetch") :
           AckCmd(p).step < d.step /\ d.step = currentStep /\ d.items = 0
  BY <1>1, RestExtra DEF OrderInv, RoundInv, AckCmd
<1>5. Answered(Acked(p), AckCmds(p), currentStep)
  <2>1. \A q \in Policies \ {p} : Acked(p)[q] = status[q]
    BY DEF IInv, TypeOK, Acked
  <2>. QED BY <1>1, <1>4, <2>1 DEF OrderInv, RoundInv, Answered
<1>6. /\ Steps(AckCmds(p)[LeadPolicy], "P2R") = Steps(policyCmds[LeadPolicy], "P2R")
      /\ Increasing(AckCmds(p)[LeadPolicy], "P2R")
  <2>1. Increasing(policyCmds[LeadPolicy], "P2R")
    BY DEF OrderInv, StreamsMatch
  <2>2. CASE p = LeadPolicy
    <3>1. policyCmds[p] \in Seq(Commands) /\ Head(policyCmds[p]).type # "P2R"
      BY <1>1 DEF IInv, TypeOK, AckCmd
    <3>2. Steps(AckCmds(p)[p], "P2R") = Steps(policyCmds[p], "P2R")
      BY <1>1, <2>1, <2>2, <3>1, RestSteps
    <3>. QED BY <1>1, <2>1, <2>2, <3>2, RestIncreasing
  <2>3. CASE p # LeadPolicy
    BY <1>1, <2>1, <2>3, Constants
  <2>. QED BY <2>2, <2>3
<1>7. ~Dead(status, policyCmds) => Behind(weightVersion, rolloutCmds, policyCmds)
  BY DEF OrderInv, BehindInv
<1>8. \A q \in Policies : Pending(AckCmds(p)[q], "DataFetch") \subseteq Pending(policyCmds[q], "DataFetch")
  BY <1>1, <1>2
<1>9. \A q \in Policies : ExtraIsLast(AckCmds(p)[q], currentStep)
  BY <1>1, <1>4 DEF OrderInv, RoundInv
<1>. QED BY <1>3, <1>4, <1>5, <1>6, <1>7, <1>8, <1>9

\* A sync of a step later than all before it is the last in each stream.
LEMMA SyncSteps ==
  ASSUME IInv, NEW step \in Nat, NEW total \in Nat, NEW r \in Rollouts,
         \A type \in {"P2R", "R2R"} : \A x \in Steps(rolloutCmds[r], type) : x < step
  PROVE  LET sent == RolloutSync(step, total)
         IN  /\ Steps(sent[r], "R2R") = Steps(rolloutCmds[r], "R2R") \cup {step}
             /\ Steps(sent[r], "P2R") = Steps(rolloutCmds[r], "P2R")
                                          \cup (IF r = LeadRollout THEN {step} ELSE {})
             /\ Increasing(rolloutCmds[r], "R2R") => Increasing(sent[r], "R2R")
             /\ Increasing(rolloutCmds[r], "P2R") => Increasing(sent[r], "P2R")
<1> DEFINE p2r  == Sync("P2R", step, total)
           r2r  == Sync("R2R", step, total)
           sent == RolloutSync(step, total)
<1>1. PICK before \in Seq(Commands) :
        /\ IF r = LeadRollout THEN IsLonger(before, rolloutCmds[r], p2r)
                              ELSE before = rolloutCmds[r]
        /\ IsLonger(sent[r], before, r2r)
  BY RolloutSyncFacts
<1>2. p2r.type = "P2R" /\ r2r.type = "R2R" /\ p2r.step = step /\ r2r.step = step
  BY DEF Sync
<1>. HIDE DEF p2r, r2r, sent
<1>3. /\ Steps(before, "P2R") = Steps(rolloutCmds[r], "P2R")
                                  \cup (IF r = LeadRollout THEN {step} ELSE {})
      /\ Steps(before, "R2R") = Steps(rolloutCmds[r], "R2R")
      /\ Increasing(rolloutCmds[r], "R2R") => Increasing(before, "R2R")
      /\ Increasing(rolloutCmds[r], "P2R") => Increasing(before, "P2R")
  <2>1. CASE r # LeadRollout
    BY <1>1, <2>1
  <2>2. CASE r = LeadRollout
    <3>1. IsLonger(before, rolloutCmds[r], p2r)
      BY <1>1, <2>2
    <3>2. \A d \in Pending(rolloutCmds[r], "P2R") : d.step < p2r.step
      BY <1>2 DEF Steps
    <3>3. /\ Steps(before, "P2R") = Steps(rolloutCmds[r], "P2R") \cup (IF p2r.type = "P2R" THEN {p2r.step} ELSE {})
          /\ Steps(before, "R2R") = Steps(rolloutCmds[r], "R2R") \cup (IF p2r.type = "R2R" THEN {p2r.step} ELSE {})
      BY <3>1, LongerSteps
    <3>4. p2r.type # "R2R"
      BY <1>2
    <3>5. Increasing(rolloutCmds[r], "R2R") => Increasing(before, "R2R")
      BY <3>1, <3>4, LongerIncreasing
    <3>6. Increasing(rolloutCmds[r], "P2R") => Increasing(before, "P2R")
      BY <3>1, <3>2, LongerIncreasing
    <3>. QED BY <1>2, <2>2, <3>3, <3>5, <3>6
  <2>. QED BY <2>1, <2>2
<1>4. \A d \in Pending(before, "R2R") : d.step < r2r.step
  BY <1>2, <1>3 DEF Steps
<1>5. /\ Steps(sent[r], "P2R") = Steps(before, "P2R") \cup (IF r2r.type = "P2R" THEN {r2r.step} ELSE {})
      /\ Steps(sent[r], "R2R") = Steps(before, "R2R") \cup (IF r2r.type = "R2R" THEN {r2r.step} ELSE {})
  BY <1>1, LongerSteps
<1>6. r2r.type # "P2R"
  BY <1>2
<1>7. Increasing(before, "R2R") => Increasing(sent[r], "R2R")
  BY <1>1, <1>4, LongerIncreasing
<1>8. Increasing(before, "P2R") => Increasing(sent[r], "P2R")
  BY <1>1, <1>6, LongerIncreasing
<1>. QED BY <1>2, <1>3, <1>5, <1>7, <1>8 DEF sent

\* The policy replicas' streams after the last answer of a round.
LEMMA SyncPolicy ==
  ASSUME IInv, OrderInv, NEW p \in Policies, TrainAck(p)
  PROVE  /\ SyncCmds(p) \in [Policies -> Seq(Commands)]
         /\ \A q \in Policies :
              /\ Pending(SyncCmds(p)[q], "DataFetch") = Pending(AckCmds(p)[q], "DataFetch")
              /\ ExtraIsLast(SyncCmds(p)[q], currentStep)
              /\ CommandsUpTo(SyncCmds(p)[q], currentStep)
         /\ Steps(SyncCmds(p)[LeadPolicy], "P2R")
              = Steps(policyCmds[LeadPolicy], "P2R") \cup (IF Synced(p) THEN {AckCmd(p).step} ELSE {})
         /\ (\A x \in Steps(policyCmds[LeadPolicy], "P2R") : x < AckCmd(p).step)
              => Increasing(SyncCmds(p)[LeadPolicy], "P2R")
<1>1. /\ AckCmds(p) \in [Policies -> Seq(Commands)]
      /\ AckCmd(p).step \in Nat /\ AckCmd(p).total \in Nat /\ AckCmd(p).step <= currentStep
  BY AckFacts
<1>2. /\ \A q \in Policies : ExtraIsLast(AckCmds(p)[q], currentStep)
      /\ Steps(AckCmds(p)[LeadPolicy], "P2R") = Steps(policyCmds[LeadPolicy], "P2R")
      /\ Increasing(AckCmds(p)[LeadPolicy], "P2R")
  BY AckRound
<1>3. currentStep \in Nat /\ \A q \in Policies : CommandsUpTo(AckCmds(p)[q], currentStep)
  <2>1. \A q \in Policies : policyCmds[q] \in Seq(Commands) /\ CommandsUpTo(policyCmds[q], currentStep)
    BY Parts DEF CoreInv
  <2>2. policyCmds[p] # <<>> /\ currentStep \in Nat
    BY AckFacts DEF IInv, TypeOK
  <2>3. CommandsUpTo(Tail(policyCmds[p]), currentStep)
    BY <2>1, <2>2, HeadAndTail
  <2>. QED BY <2>1, <2>2, <2>3 DEF AckCmds, IInv, TypeOK
<1>4. CASE ~Synced(p)
  BY <1>1, <1>2, <1>3, <1>4 DEF SyncCmds
<1>5. CASE Synced(p)
  <2> DEFINE p2r  == Sync("P2R", AckCmd(p).step, AckCmd(p).total)
             sent == PolicySync(AckCmds(p), AckCmd(p).step, AckCmd(p).total)
  <2>1. /\ sent \in [Policies -> Seq(Commands)]
        /\ IsLonger(sent[LeadPolicy], AckCmds(p)[LeadPolicy], p2r)
        /\ \A q \in Policies \ {LeadPolicy} : sent[q] = AckCmds(p)[q]
    BY <1>1, PolicySyncFacts
  <2>2. \A q \in Policies : CommandsUpTo(sent[q], currentStep)
    BY <1>1, <1>3, PolicySyncInv
  <2>3. p2r.type = "P2R" /\ p2r.step = AckCmd(p).step
    BY DEF Sync
  <2>4. SyncCmds(p) = sent
    BY <1>5 DEF SyncCmds
  <2>. HIDE DEF p2r, sent
  <2>5. /\ Pending(sent[LeadPolicy], "DataFetch")
             = Pending(AckCmds(p)[LeadPolicy], "DataFetch") \cup (IF p2r.type = "DataFetch" THEN {p2r} ELSE {})
        /\ Steps(sent[LeadPolicy], "P2R")
             = Steps(AckCmds(p)[LeadPolicy], "P2R") \cup (IF p2r.type = "P2R" THEN {p2r.step} ELSE {})
    BY <2>1, LongerPending, LongerSteps
  <2>6. p2r.type # "DataFetch"
    BY <2>3
  <2>7. ExtraIsLast(sent[LeadPolicy], currentStep)
    BY <1>2, <2>1, <2>6, LongerExtra, Constants
  <2>8. ASSUME \A x \in Steps(policyCmds[LeadPolicy], "P2R") : x < AckCmd(p).step
        PROVE  Increasing(sent[LeadPolicy], "P2R")
    <3>1. \A d \in Pending(AckCmds(p)[LeadPolicy], "P2R") : d.step < p2r.step
      <4>1. \A x \in Steps(AckCmds(p)[LeadPolicy], "P2R") : x < p2r.step
        BY <1>2, <2>3, <2>8
      <4>. QED BY <4>1 DEF Steps
    <3>. QED BY <1>2, <2>1, <3>1, LongerIncreasing
  <2>9. ASSUME NEW q \in Policies
        PROVE  /\ Pending(sent[q], "DataFetch") = Pending(AckCmds(p)[q], "DataFetch")
               /\ ExtraIsLast(sent[q], currentStep)
    <3>1. CASE q = LeadPolicy
      BY <2>5, <2>6, <2>7, <3>1
    <3>2. CASE q # LeadPolicy
      BY <1>2, <2>1, <3>2
    <3>. QED BY <3>1, <3>2
  <2>. QED BY <1>2, <1>5, <2>1, <2>2, <2>3, <2>4, <2>5, <2>8, <2>9
<1>. QED BY <1>4, <1>5

\* The last answer of a round: nothing is sent that was not sent before, and what is
\* sent is later than what is on its way and earlier than what is still to be answered.
LEMMA LastAnswer ==
  ASSUME IInv, StatusInv, OrderInv, NEW p \in Policies, TrainAck(p), AllAre(Acked(p), {"REDUCED"})
  PROVE  /\ NoEmptyStep => \A q \in Policies : Pending(AckCmds(p)[q], "DataFetch") = {}
         /\ \A q \in Policies : \A d \in Pending(AckCmds(p)[q], "DataFetch") :
              d.step = currentStep /\ d.items = 0
         /\ \A r \in Rollouts :
              /\ weightVersion[r] < AckCmd(p).step
              /\ \A type \in {"P2R", "R2R"} : \A x \in Steps(rolloutCmds[r], type) :
                   x < AckCmd(p).step
<1>1. \A q \in Policies \ {p} : status[q] = "REDUCED"
  BY DEF IInv, TypeOK, Acked, AllAre
<1>2. /\ \A q \in Policies \ {p} : AckCmds(p)[q] = policyCmds[q]
      /\ IsRest(AckCmds(p)[p], policyCmds[p])
  BY AckFacts
<1>3. /\ AckCmd(p) \in Pending(policyCmds[p], "DataFetch")
      /\ \A q \in Policies : Pending(AckCmds(p)[q], "DataFetch") \subseteq Pending(policyCmds[q], "DataFetch")
      /\ Answered(Acked(p), AckCmds(p), currentStep)
      /\ \A d \in Pending(AckCmds(p)[p], "DataFetch") : AckCmd(p).step < d.step
      /\ ~Dead(status, policyCmds) => Behind(weightVersion, rolloutCmds, policyCmds)
  BY AckRound
<1>4. Fetches(policyCmds[p]) # {}
  BY <1>3, NonePending
<1>5. ~Dead(status, policyCmds)
  BY <1>1, <1>4 DEF Dead
<1>6. \A q \in Policies : Acked(p)[q] # "RUNNING"
  BY DEF AllAre
<1>7. ASSUME NoEmptyStep, NEW q \in Policies PROVE Pending(AckCmds(p)[q], "DataFetch") = {}
  <2>1. /\ Single(Fetches(policyCmds[q]))
        /\ Fetches(policyCmds[q]) # {} => status[q] = "RUNNING"
    BY <1>7 DEF StatusInv, Barrier
  <2>2. CASE q # p
    <3>1. Fetches(policyCmds[q]) = {}
      BY <1>1, <2>1, <2>2
    <3>. QED BY <1>2, <2>2, <3>1, NonePending
  <2>3. CASE q = p
    <3>1. \A i, j \in Places(policyCmds[p], "DataFetch") : i = j
      BY <2>1, <2>3, NonePending DEF Single
    <3>2. \A d \in Pending(policyCmds[p], "DataFetch") : d = AckCmd(p)
      BY <1>3, <3>1 DEF Pending
    <3>3. AckCmd(p).step \in Nat
      BY AckFacts
    <3>. QED BY <1>3, <2>3, <3>2, <3>3
  <2>. QED BY <2>2, <2>3
<1>8. \A q \in Policies : \A d \in Pending(AckCmds(p)[q], "DataFetch") :
        d.step = currentStep /\ d.items = 0
  BY <1>3, <1>6 DEF Answered
<1>9. \A r \in Rollouts :
        /\ weightVersion[r] < AckCmd(p).step
        /\ \A type \in {"P2R", "R2R"} : \A x \in Steps(rolloutCmds[r], type) :
             x < AckCmd(p).step
  BY <1>3, <1>5 DEF Behind, Before
<1>. QED BY <1>7, <1>8, <1>9

\* The rollout replicas' streams after it.
LEMMA SyncRollout ==
  ASSUME IInv, StatusInv, OrderInv, NEW p \in Policies, TrainAck(p), AllAre(Acked(p), {"REDUCED"})
  PROVE  \A r \in Rollouts :
           LET sent == SyncRolloutCmds(p)[r]
               also == IF Synced(p) THEN {AckCmd(p).step} ELSE {}
           IN  /\ Steps(sent, "R2R") = Steps(rolloutCmds[r], "R2R") \cup also
               /\ Steps(sent, "P2R") = Steps(rolloutCmds[r], "P2R")
                                         \cup (IF r = LeadRollout THEN also ELSE {})
               /\ Increasing(rolloutCmds[r], "R2R") => Increasing(sent, "R2R")
               /\ Increasing(rolloutCmds[r], "P2R") => Increasing(sent, "P2R")
<1>1. \A r \in Rollouts : \A type \in {"P2R", "R2R"} : \A x \in Steps(rolloutCmds[r], type) :
        x < AckCmd(p).step
  BY LastAnswer
<1>2. AckCmd(p).step \in Nat /\ AckCmd(p).total \in Nat
  BY AckFacts
<1>3. CASE ~Synced(p)
  BY <1>3 DEF SyncRolloutCmds
<1>4. CASE Synced(p)
  <2>1. ASSUME NEW r \in Rollouts
        PROVE  LET sent == RolloutSync(AckCmd(p).step, AckCmd(p).total)
                   step == AckCmd(p).step
               IN  /\ Steps(sent[r], "R2R") = Steps(rolloutCmds[r], "R2R") \cup {step}
                   /\ Steps(sent[r], "P2R") = Steps(rolloutCmds[r], "P2R")
                                                \cup (IF r = LeadRollout THEN {step} ELSE {})
                   /\ Increasing(rolloutCmds[r], "R2R") => Increasing(sent[r], "R2R")
                   /\ Increasing(rolloutCmds[r], "P2R") => Increasing(sent[r], "P2R")
    BY <1>1, <1>2, SyncSteps
  <2>. QED BY <1>4, <2>1 DEF SyncRolloutCmds
<1>. QED BY <1>3, <1>4

LEMMA LastAnswerOrder ==
  ASSUME IInv, StatusInv, OrderInv, NEW p \in Policies, TrainAck(p), AllAre(Acked(p), {"REDUCED"})
  PROVE  OrderInv'
<1>1. /\ AckCmd(p).step \in Nat /\ AckCmd(p).step <= currentStep
      /\ UNCHANGED <<totalSteps, ended, weightVersion>>
      /\ rolloutCmds' = SyncRolloutCmds(p)
      /\ TryTrigger(AllReady, rolloutBuffer, remainSamples, SyncCmds(p), validation)
  BY AckFacts DEF rolloutVars
<1>2. /\ NoEmptyStep => \A q \in Policies : Pending(AckCmds(p)[q], "DataFetch") = {}
      /\ \A q \in Policies : \A d \in Pending(AckCmds(p)[q], "DataFetch") :
           d.step = currentStep /\ d.items = 0
      /\ \A r \in Rollouts :
           /\ weightVersion[r] < AckCmd(p).step
           /\ \A type \in {"P2R", "R2R"} : \A x \in Steps(rolloutCmds[r], type) :
                x < AckCmd(p).step
  BY LastAnswer
<1>3. /\ SyncCmds(p) \in [Policies -> Seq(Commands)]
      /\ \A q \in Policies :
           /\ Pending(SyncCmds(p)[q], "DataFetch") = Pending(AckCmds(p)[q], "DataFetch")
           /\ ExtraIsLast(SyncCmds(p)[q], currentStep)
           /\ CommandsUpTo(SyncCmds(p)[q], currentStep)
      /\ Steps(SyncCmds(p)[LeadPolicy], "P2R")
           = Steps(policyCmds[LeadPolicy], "P2R") \cup (IF Synced(p) THEN {AckCmd(p).step} ELSE {})
      /\ (\A x \in Steps(policyCmds[LeadPolicy], "P2R") : x < AckCmd(p).step)
           => Increasing(SyncCmds(p)[LeadPolicy], "P2R")
  BY SyncPolicy
<1>4. \A r \in Rollouts :
        LET sent == SyncRolloutCmds(p)[r]
            also == IF Synced(p) THEN {AckCmd(p).step} ELSE {}
        IN  /\ Steps(sent, "R2R") = Steps(rolloutCmds[r], "R2R") \cup also
            /\ Steps(sent, "P2R") = Steps(rolloutCmds[r], "P2R")
                                      \cup (IF r = LeadRollout THEN also ELSE {})
            /\ Increasing(rolloutCmds[r], "R2R") => Increasing(sent, "R2R")
            /\ Increasing(rolloutCmds[r], "P2R") => Increasing(sent, "P2R")
  BY SyncRollout
<1>5. \A r \in Rollouts : \A type \in {"P2R", "R2R"} :
        Steps(SyncRolloutCmds(p)[r], type) \subseteq Steps(rolloutCmds[r], type) \cup {AckCmd(p).step}
  BY <1>4
<1>6. \A r \in Rollouts :
        /\ weightVersion[r] \in Nat /\ weightVersion[r] <= currentStep
        /\ \A type \in {"P2R", "R2R"} : \A x \in Steps(SyncRolloutCmds(p)[r], type) :
             x \in Nat /\ x <= currentStep /\ x <= AckCmd(p).step
  <2>1. \A r \in Rollouts :
          /\ currentStep \in Nat /\ weightVersion[r] \in Nat /\ weightVersion[r] <= currentStep
          /\ \A type : \A x \in Steps(rolloutCmds[r], type) : x \in Nat /\ x <= currentStep
    BY SyncsUpTo
  <2>. QED BY <1>1, <1>2, <1>5, <2>1
<1>7. NoEmptyStep => Barrier(AllReady, SyncCmds(p))
  <2>0. \A q \in Policies :
          Pending(SyncCmds(p)[q], "DataFetch") = {} <=> Fetches(SyncCmds(p)[q]) = {}
    BY NonePending
  <2>1. NoEmptyStep => \A q \in Policies : Fetches(SyncCmds(p)[q]) = {}
    BY <1>2, <1>3, <2>0
  <2>. QED BY <2>1 DEF Barrier, Single
<1>8. RoundInv(AllReady, SyncCmds(p), currentStep)
  <2>1. Answered(AllReady, SyncCmds(p), currentStep)
    BY <1>2, <1>3 DEF Answered
  <2>2. OneRound(AllReady)
    BY Constants DEF OneRound, AllReady
  <2>. QED BY <1>3, <2>1, <2>2 DEF RoundInv
<1>9. BehindInv(AllReady, SyncCmds(p), weightVersion, SyncRolloutCmds(p))
  <2>1. SUFFICES ASSUME ~Dead(AllReady, SyncCmds(p))
                 PROVE  Behind(weightVersion, SyncRolloutCmds(p), SyncCmds(p))
    BY DEF BehindInv
  <2>2. Fetches(SyncCmds(p)[p]) # {}
    BY <2>1 DEF Dead, AllReady
  <2>3. PICK d \in Pending(AckCmds(p)[p], "DataFetch") : TRUE
    BY <1>3, <2>2, NonePending
  <2>4. AckCmd(p).step < d.step
    BY AckRound
  <2>5. AckCmd(p).step < currentStep
    BY <1>2, <2>3, <2>4
  <2>6. \A x \in Nat : x <= AckCmd(p).step => Before(x, SyncCmds(p))
    <3>1. currentStep \in Nat
      BY DEF IInv, TypeOK
    <3>2. \A x \in Nat : x <= AckCmd(p).step => x < currentStep
      BY <1>1, <2>5, <3>1
    <3>. QED BY <1>2, <1>3, <3>2 DEF Before
  <2>7. \A r \in Rollouts : weightVersion[r] \in Nat /\ weightVersion[r] <= AckCmd(p).step
    BY <1>1, <1>2, <1>6
  <2>. QED BY <1>6, <2>6, <2>7 DEF Behind
<1>10. StreamsMatch(SyncCmds(p)[LeadPolicy], weightVersion, SyncRolloutCmds(p))
  <2>1. StreamsMatch(policyCmds[LeadPolicy], weightVersion, rolloutCmds)
    BY DEF OrderInv
  <2>2. \A x \in Steps(policyCmds[LeadPolicy], "P2R") : x < AckCmd(p).step
    BY <1>2, <2>1, Constants DEF StreamsMatch
  <2>3. \A r \in Rollouts :
          /\ Increasing(SyncRolloutCmds(p)[r], "R2R")
          /\ Steps(SyncRolloutCmds(p)[r], "R2R") = Steps(SyncRolloutCmds(p)[LeadRollout], "R2R")
    BY <1>4, <2>1, Constants DEF StreamsMatch
  <2>4. \A r \in Rollouts : \A x \in Steps(SyncRolloutCmds(p)[r], "R2R") : weightVersion[r] < x
    BY <1>2, <1>5, <2>1 DEF StreamsMatch
  <2>5. /\ Increasing(SyncRolloutCmds(p)[LeadRollout], "P2R")
        /\ Steps(SyncCmds(p)[LeadPolicy], "P2R") = Steps(SyncRolloutCmds(p)[LeadRollout], "P2R")
    BY <1>3, <1>4, <2>1, Constants DEF StreamsMatch
  <2>. QED BY <1>3, <2>2, <2>3, <2>4, <2>5 DEF StreamsMatch
<1>11. FinalInv'
  BY <1>1, TriggerFinal DEF OrderInv
<1>12. RoundInv(status', policyCmds', currentStep')
  BY <1>1, <1>3, <1>7, <1>8, TriggerRound DEF OrderInv
<1>13. BehindInv(status', policyCmds', weightVersion, SyncRolloutCmds(p))
  BY <1>1, <1>3, <1>6, <1>7, <1>9, TriggerBehind DEF OrderInv
<1>14. StreamsMatch(policyCmds'[LeadPolicy], weightVersion, SyncRolloutCmds(p))
  BY <1>1, <1>3, <1>10, TriggerStreams
<1>. QED BY <1>1, <1>11, <1>12, <1>13, <1>14 DEF OrderInv

LEMMA TrainAckOrder ==
  ASSUME IInv, StatusInv, OrderInv, NEW p \in Policies, TrainAck(p)
  PROVE  OrderInv'
<1>1. CASE AllAre(Acked(p), {"REDUCED"})
  BY <1>1, LastAnswerOrder
<1>2. CASE ~AllAre(Acked(p), {"REDUCED"})
  <2>1. /\ status' = Acked(p) /\ policyCmds' = AckCmds(p)
        /\ UNCHANGED <<currentStep, rolloutBuffer, totalSteps, ended, rolloutCmds, weightVersion>>
    BY <1>2, AckFacts DEF rolloutVars
  <2>2. /\ \A q \in Policies : Pending(AckCmds(p)[q], "DataFetch") \subseteq Pending(policyCmds[q], "DataFetch")
        /\ AckCmd(p) \in Pending(policyCmds[p], "DataFetch")
        /\ \A q \in Policies : ExtraIsLast(AckCmds(p)[q], currentStep)
        /\ Answered(Acked(p), AckCmds(p), currentStep)
        /\ Steps(AckCmds(p)[LeadPolicy], "P2R") = Steps(policyCmds[LeadPolicy], "P2R")
        /\ Increasing(AckCmds(p)[LeadPolicy], "P2R")
        /\ ~Dead(status, policyCmds) => Behind(weightVersion, rolloutCmds, policyCmds)
    BY AckRound
  <2>3. FinalInv'
    BY <2>1 DEF OrderInv, FinalInv, NoEmptyStep, SomeoneGenerates
  <2>4. OneRound(Acked(p))
    <3>1. OneRound(status)
      BY DEF OrderInv, RoundInv
    <3>2. /\ Acked(p)[p] = "REDUCED" /\ \A q \in Policies \ {p} : Acked(p)[q] = status[q]
          /\ \E q \in Policies : Acked(p)[q] # "REDUCED"
      BY <1>2 DEF IInv, TypeOK, Acked, AllAre
    <3>. QED BY <3>1, <3>2 DEF OneRound
  <2>5. BehindInv(Acked(p), AckCmds(p), weightVersion, rolloutCmds)
    <3>1. CASE Behind(weightVersion, rolloutCmds, policyCmds)
      BY <2>2, <3>1, BehindFewer DEF BehindInv
    <3>2. CASE Dead(status, policyCmds)
      <4>1. PICK q \in Policies : status[q] = "READY" /\ Fetches(policyCmds[q]) = {}
        BY <3>2 DEF Dead
      <4>2. q # p
        BY <2>2, <4>1, NonePending
      <4>3. Acked(p)[q] = status[q] /\ AckCmds(p)[q] = policyCmds[q]
        BY <4>2, AckFacts DEF IInv, TypeOK, Acked
      <4>. QED BY <4>1, <4>3 DEF BehindInv, Dead
    <3>. QED BY <2>2, <3>1, <3>2
  <2>6. StreamsMatch(AckCmds(p)[LeadPolicy], weightVersion, rolloutCmds)
    BY <2>2 DEF OrderInv, StreamsMatch
  <2>. QED BY <2>1, <2>2, <2>3, <2>4, <2>5, <2>6 DEF OrderInv, RoundInv
<1>. QED BY <1>1, <1>2

\* The unicast takes the same step off the streams of the two leading replicas.
LEMMA UnicastOrder ==
  ASSUME IInv, OrderInv, PolicyToRollout
  PROVE  OrderInv'
<1> DEFINE queue  == policyCmds[LeadPolicy]
           rqueue == rolloutCmds[LeadRollout]
<1>1. /\ HeadIs(queue, "P2R") /\ HeadIs(rqueue, "P2R")
      /\ policyCmds' = [policyCmds EXCEPT ![LeadPolicy] = Tail(@)]
      /\ rolloutCmds' = [rolloutCmds EXCEPT ![LeadRollout] = Tail(@)]
      /\ UNCHANGED <<currentStep, totalSteps, ended, status, rolloutBuffer, weightVersion>>
  BY DEF PolicyToRollout
<1>2. /\ policyCmds \in [Policies -> Seq(Commands)] /\ rolloutCmds \in [Rollouts -> Seq(Commands)]
      /\ queue \in Seq(Commands) /\ rqueue \in Seq(Commands)
  BY Constants DEF IInv, TypeOK
<1>3. /\ queue # <<>> /\ Head(queue).type = "P2R" /\ rqueue # <<>> /\ Head(rqueue).type = "P2R"
  BY <1>1 DEF HeadIs
<1>4. /\ policyCmds'[LeadPolicy] = Tail(queue) /\ rolloutCmds'[LeadRollout] = Tail(rqueue)
      /\ \A p \in Policies \ {LeadPolicy} : policyCmds'[p] = policyCmds[p]
      /\ \A r \in Rollouts \ {LeadRollout} : rolloutCmds'[r] = rolloutCmds[r]
  BY <1>1, <1>2, Constants
<1>5. IsRest(policyCmds'[LeadPolicy], queue) /\ IsRest(rolloutCmds'[LeadRollout], rqueue)
  BY <1>2, <1>3, <1>4, TailIsRest
<1>6. StreamsMatch(queue, weightVersion, rolloutCmds)
  BY DEF OrderInv
<1>. HIDE DEF queue, rqueue
<1>7. /\ Increasing(queue, "P2R") /\ Increasing(rqueue, "P2R") /\ Increasing(rqueue, "R2R")
      /\ Steps(queue, "P2R") = Steps(rqueue, "P2R")
  BY <1>6, Constants DEF StreamsMatch, rqueue
<1>8. Head(queue).step = Head(rqueue).step
  BY <1>1, <1>2, <1>7, SameHead
<1>9. /\ Steps(policyCmds'[LeadPolicy], "P2R") = Steps(rolloutCmds'[LeadRollout], "P2R")
      /\ Increasing(policyCmds'[LeadPolicy], "P2R") /\ Increasing(rolloutCmds'[LeadRollout], "P2R")
      /\ Increasing(rolloutCmds'[LeadRollout], "R2R")
      /\ Steps(rolloutCmds'[LeadRollout], "R2R") = Steps(rqueue, "R2R")
  <2>1. /\ Steps(policyCmds'[LeadPolicy], "P2R") = Steps(queue, "P2R") \ {Head(queue).step}
        /\ Steps(rolloutCmds'[LeadRollout], "P2R") = Steps(rqueue, "P2R") \ {Head(rqueue).step}
    BY <1>2, <1>3, <1>5, <1>7, RestSteps
  <2>2. Head(rqueue).type # "R2R"
    BY <1>3
  <2>3. Steps(rolloutCmds'[LeadRollout], "R2R") = Steps(rqueue, "R2R")
    BY <1>2, <1>5, <1>7, <2>2, RestSteps
  <2>4. /\ Increasing(policyCmds'[LeadPolicy], "P2R") /\ Increasing(rolloutCmds'[LeadRollout], "P2R")
        /\ Increasing(rolloutCmds'[LeadRollout], "R2R")
    BY <1>5, <1>7, RestIncreasing
  <2>. QED BY <1>7, <1>8, <2>1, <2>3, <2>4
<1>10. \A r \in Rollouts : /\ Steps(rolloutCmds'[r], "R2R") = Steps(rolloutCmds[r], "R2R")
                           /\ Steps(rolloutCmds'[r], "P2R") \subseteq Steps(rolloutCmds[r], "P2R")
                           /\ Increasing(rolloutCmds'[r], "R2R")
  <2>1. ASSUME NEW r \in Rollouts, r # LeadRollout
        PROVE  rolloutCmds'[r] = rolloutCmds[r] /\ Increasing(rolloutCmds'[r], "R2R")
    BY <1>4, <1>6, <2>1 DEF StreamsMatch
  <2>2. Steps(rolloutCmds'[LeadRollout], "P2R") \subseteq Steps(rqueue, "P2R")
    <3>1. Pending(rolloutCmds'[LeadRollout], "P2R") \subseteq Pending(rqueue, "P2R")
      BY <1>5, RestPending
    <3>. QED BY <3>1 DEF Steps
  <2>. QED BY <1>9, <2>1, <2>2 DEF rqueue
<1>11. StreamsMatch(policyCmds'[LeadPolicy], weightVersion, rolloutCmds')
  BY <1>6, <1>9, <1>10, Constants DEF StreamsMatch
<1>12. \A p \in Policies : /\ Pending(policyCmds'[p], "DataFetch") = Pending(policyCmds[p], "DataFetch")
                           /\ ExtraIsLast(policyCmds'[p], currentStep)
  <2>1. Head(queue).type # "DataFetch"
    BY <1>3
  <2>2. Pending(policyCmds'[LeadPolicy], "DataFetch") = Pending(queue, "DataFetch")
    BY <1>5, <2>1, RestPending
  <2>3. \A p \in Policies : ExtraIsLast(policyCmds[p], currentStep)
    BY DEF OrderInv, RoundInv
  <2>4. ExtraIsLast(policyCmds'[LeadPolicy], currentStep)
    BY <1>5, <2>3, RestExtra, Constants DEF queue
  <2>. QED BY <1>4, <2>2, <2>3, <2>4 DEF queue
<1>13. RoundInv(status, policyCmds', currentStep)
  BY <1>12 DEF OrderInv, RoundInv, Answered
<1>14. BehindInv(status, policyCmds', weightVersion, rolloutCmds')
  <2>1. \A p \in Policies : Fetches(policyCmds'[p]) = {} <=> Fetches(policyCmds[p]) = {}
    <3>1. \A p \in Policies :
            /\ Fetches(policyCmds'[p]) = {} <=> Pending(policyCmds'[p], "DataFetch") = {}
            /\ Fetches(policyCmds[p]) = {} <=> Pending(policyCmds[p], "DataFetch") = {}
      BY NonePending
    <3>. QED BY <1>12, <3>1
  <2>2. BehindInv(status, policyCmds, weightVersion, rolloutCmds)
    BY DEF OrderInv
  <2>3. CASE Dead(status, policyCmds)
    BY <2>1, <2>3 DEF BehindInv, Dead
  <2>4. CASE Behind(weightVersion, rolloutCmds, policyCmds)
    BY <1>10, <1>12, <2>4 DEF BehindInv, Behind, Before
  <2>. QED BY <2>2, <2>3, <2>4 DEF BehindInv
<1>15. FinalInv'
  BY <1>1 DEF OrderInv, FinalInv, NoEmptyStep, SomeoneGenerates
<1>. QED BY <1>1, <1>11, <1>13, <1>14, <1>15 DEF OrderInv

\* The broadcast takes the same step off all the rollout replicas' streams.
LEMMA BroadcastSteps ==
  ASSUME IInv, OrderInv, RolloutBroadcast, NEW r \in Rollouts
  PROVE  /\ IsRest(rolloutCmds'[r], rolloutCmds[r])
         /\ Head(rolloutCmds[r]).type = "R2R"
         /\ Head(rolloutCmds[r]).step = Head(rolloutCmds[LeadRollout]).step
         /\ weightVersion'[r] = Head(rolloutCmds[r]).step
         /\ Steps(rolloutCmds'[r], "R2R") = Steps(rolloutCmds[r], "R2R") \ {Head(rolloutCmds[r]).step}
         /\ Steps(rolloutCmds'[r], "P2R") \subseteq Steps(rolloutCmds[r], "P2R")
         /\ Increasing(rolloutCmds'[r], "R2R")
         /\ \A x \in Steps(rolloutCmds'[r], "R2R") : Head(rolloutCmds[r]).step < x
         /\ Head(rolloutCmds[r]).step \in Steps(rolloutCmds[r], "R2R")
<1>1. /\ \A s \in Rollouts : HeadIs(rolloutCmds[s], "R2R")
      /\ weightVersion' = [s \in Rollouts |-> Head(rolloutCmds[LeadRollout]).step]
      /\ rolloutCmds' = [s \in Rollouts |-> Tail(rolloutCmds[s])]
  BY DEF RolloutBroadcast
<1>2. \A s \in Rollouts : rolloutCmds[s] \in Seq(Commands)
  BY DEF IInv, TypeOK
<1>3. rolloutCmds[r] # <<>> /\ Head(rolloutCmds[r]).type = "R2R"
  BY <1>1 DEF HeadIs
<1>4. IsRest(rolloutCmds'[r], rolloutCmds[r])
  BY <1>1, <1>2, <1>3, TailIsRest
<1>5. /\ Increasing(rolloutCmds[r], "R2R") /\ Increasing(rolloutCmds[LeadRollout], "R2R")
      /\ Steps(rolloutCmds[r], "R2R") = Steps(rolloutCmds[LeadRollout], "R2R")
  BY Constants DEF OrderInv, StreamsMatch
<1>6. Head(rolloutCmds[r]).step = Head(rolloutCmds[LeadRollout]).step
  BY <1>1, <1>2, <1>5, SameHead, Constants
<1>7. Steps(rolloutCmds'[r], "R2R") = Steps(rolloutCmds[r], "R2R") \ {Head(rolloutCmds[r]).step}
  BY <1>2, <1>3, <1>4, <1>5, RestSteps
<1>8. /\ Increasing(rolloutCmds'[r], "R2R")
      /\ \A d \in Pending(rolloutCmds'[r], "R2R") : Head(rolloutCmds[r]).step < d.step
  BY <1>3, <1>4, <1>5, RestIncreasing
<1>9. Pending(rolloutCmds'[r], "P2R") \subseteq Pending(rolloutCmds[r], "P2R")
  BY <1>4, RestPending
<1>10. Head(rolloutCmds[r]).step \in Steps(rolloutCmds[r], "R2R")
  BY <1>1, <1>2, <1>5, HeadLeast
<1>11. weightVersion'[r] = Head(rolloutCmds[r]).step
  BY <1>1, <1>6
<1>12. Steps(rolloutCmds'[r], "P2R") \subseteq Steps(rolloutCmds[r], "P2R")
  BY <1>9 DEF Steps
<1>13. \A x \in Steps(rolloutCmds'[r], "R2R") : Head(rolloutCmds[r]).step < x
  BY <1>8 DEF Steps
<1>. QED BY <1>3, <1>4, <1>6, <1>7, <1>8, <1>10, <1>11, <1>12, <1>13

LEMMA BroadcastOrder ==
  ASSUME IInv, OrderInv, RolloutBroadcast
  PROVE  OrderInv'
<1>1. UNCHANGED <<currentStep, totalSteps, ended, status, rolloutBuffer, policyCmds>>
  BY DEF RolloutBroadcast, trainVars
<1>2. StreamsMatch(policyCmds[LeadPolicy], weightVersion, rolloutCmds)
  BY DEF OrderInv
<1>3. \A r \in Rollouts :
        /\ IsRest(rolloutCmds'[r], rolloutCmds[r]) /\ Head(rolloutCmds[r]).type = "R2R"
        /\ Head(rolloutCmds[r]).step = Head(rolloutCmds[LeadRollout]).step
        /\ weightVersion'[r] = Head(rolloutCmds[r]).step
        /\ Steps(rolloutCmds'[r], "R2R") = Steps(rolloutCmds[r], "R2R") \ {Head(rolloutCmds[r]).step}
        /\ Steps(rolloutCmds'[r], "P2R") \subseteq Steps(rolloutCmds[r], "P2R")
        /\ Increasing(rolloutCmds'[r], "R2R")
        /\ \A x \in Steps(rolloutCmds'[r], "R2R") : Head(rolloutCmds[r]).step < x
        /\ Head(rolloutCmds[r]).step \in Steps(rolloutCmds[r], "R2R")
  BY BroadcastSteps
<1>4. StreamsMatch(policyCmds[LeadPolicy], weightVersion', rolloutCmds')
  <2>1. Increasing(rolloutCmds'[LeadRollout], "P2R")
        /\ Steps(rolloutCmds'[LeadRollout], "P2R") = Steps(rolloutCmds[LeadRollout], "P2R")
    <3>1. rolloutCmds[LeadRollout] \in Seq(Commands) /\ Head(rolloutCmds[LeadRollout]).type # "P2R"
          /\ IsRest(rolloutCmds'[LeadRollout], rolloutCmds[LeadRollout])
      BY <1>3, Constants DEF IInv, TypeOK
    <3>2. Increasing(rolloutCmds[LeadRollout], "P2R")
      BY <1>2 DEF StreamsMatch
    <3>. QED BY <3>1, <3>2, RestSteps, RestIncreasing
  <2>2. \A r \in Rollouts :
          /\ Increasing(rolloutCmds'[r], "R2R")
          /\ \A x \in Steps(rolloutCmds'[r], "R2R") : weightVersion'[r] < x
    BY <1>3
  <2>3. \A r \in Rollouts :
          Steps(rolloutCmds'[r], "R2R") = Steps(rolloutCmds'[LeadRollout], "R2R")
    BY <1>2, <1>3, Constants DEF StreamsMatch
  <2>. QED BY <1>2, <2>1, <2>2, <2>3 DEF StreamsMatch
<1>5. BehindInv(status, policyCmds, weightVersion', rolloutCmds')
  <2>1. CASE Dead(status, policyCmds)
    BY <2>1 DEF BehindInv
  <2>2. CASE Behind(weightVersion, rolloutCmds, policyCmds)
    BY <1>3, <2>2 DEF BehindInv, Behind
  <2>. QED BY <2>1, <2>2 DEF OrderInv, BehindInv
<1>6. FinalInv'
  BY <1>1 DEF OrderInv, FinalInv, NoEmptyStep, SomeoneGenerates
<1>. QED BY <1>1, <1>4, <1>5, <1>6 DEF OrderInv

LEMMA OrderStep ==
  ASSUME IInv, EndInv, StatusInv, OrderInv, [Next]_vars
  PROVE  OrderInv'
<1>1. ASSUME NEW r \in Rollouts, RolloutStep(r) PROVE OrderInv'
  <2>1. CASE FetchPrompts(r) \/ GenerateHeld(r) \/ Leave(r) \/ FetchEnd(r)
    BY <2>1, OtherOrder DEF FetchPrompts, GenerateHeld, Leave, FetchEnd, trainVars
  <2>2. CASE FetchValidation(r)
    BY <2>2, OtherOrder DEF FetchValidation, trainVars
  <2>. QED BY <1>1, <2>1, <2>2, ReportOrder, SendEndSignalOrder, ValidationOrder DEF RolloutStep
<1>2. CASE TrainStep
  BY <1>2, OtherOrder DEF TrainStep, trainVars, rolloutVars
<1>3. CASE UNCHANGED vars
  BY <1>3, OtherOrder DEF vars, trainVars, rolloutVars
<1>. QED BY <1>1, <1>2, <1>3, TrainAckOrder, UnicastOrder, BroadcastOrder DEF Next, Terminated

LEMMA OrderImplies == IInv /\ OrderInv => CollectivesMatch
<1>. SUFFICES ASSUME IInv, OrderInv PROVE CollectivesMatch
  OBVIOUS
<1>1. StreamsMatch(policyCmds[LeadPolicy], weightVersion, rolloutCmds)
  BY DEF OrderInv
<1>2. policyCmds[LeadPolicy] \in Seq(Commands) /\ \A r \in Rollouts : rolloutCmds[r] \in Seq(Commands)
  BY Constants DEF IInv, TypeOK
<1>3. ASSUME HeadIs(policyCmds[LeadPolicy], "P2R"), HeadIs(rolloutCmds[LeadRollout], "P2R")
      PROVE  Head(policyCmds[LeadPolicy]).step = Head(rolloutCmds[LeadRollout]).step
  BY <1>1, <1>2, <1>3, SameHead, Constants DEF StreamsMatch
<1>4. ASSUME NEW r \in Rollouts, NEW s \in Rollouts,
             HeadIs(rolloutCmds[r], "R2R"), HeadIs(rolloutCmds[s], "R2R")
      PROVE  Head(rolloutCmds[r]).step = Head(rolloutCmds[s]).step
  <2>1. /\ Increasing(rolloutCmds[r], "R2R") /\ Increasing(rolloutCmds[s], "R2R")
        /\ Steps(rolloutCmds[r], "R2R") = Steps(rolloutCmds[s], "R2R")
    BY <1>1 DEF StreamsMatch
  <2>. QED BY <1>2, <1>4, <2>1, SameHead
<1>. QED BY <1>3, <1>4 DEF CollectivesMatch

LEMMA OrderIsInvariant == Spec => [](IInv /\ EndInv /\ StatusInv /\ OrderInv)
<1>1. IInv /\ EndInv /\ StatusInv /\ OrderInv /\ [Next]_vars => EndInv' /\ StatusInv' /\ OrderInv'
  BY EndStep, StatusStep, OrderStep DEF IInv
<1>. QED BY <1>1, InitEnd, InitStatus, InitOrder, Invariance, PTL DEF Spec

\* Whoever takes part in a weight synchronisation takes part in the same one: the sender
\* and the receiver of a policy-to-rollout unicast, and all the replicas of a broadcast,
\* reach the command of the same step, whatever is still in their streams and however
\* far each of them has got.  A mismatch would hang the collective, or mix two versions.
THEOREM CollectivesAreMatched == Spec => []CollectivesMatch
BY OrderIsInvariant, OrderImplies, PTL

-----------------------------------------------------------------------------
(* The weights the policy replicas have, while steps are made *)

\* The stream of the leading policy replica: a step to be answered is its last command,
\* and the unicasts before it are of the weights the replica now has.
LeadInv(st, queue, made, step) ==
  /\ \A i \in Places(queue, "DataFetch") : i = Len(queue)
  /\ st = "REDUCED" => Len(queue) = 0
  /\ \A d \in Pending(queue, "P2R") :
       d.step = made /\ d.step = (IF st = "READY" THEN step ELSE step - 1)

\* Every step to be answered is the current one, and those that have answered have made it.
StepInv(st, cmds, made, step) ==
  /\ \A p \in Policies : \A d \in Pending(cmds[p], "DataFetch") : d.step = step /\ d.items > 0
  /\ \A p \in Policies : st[p] = "REDUCED" => made[p] = step
  /\ LeadInv(st[LeadPolicy], cmds[LeadPolicy], made[LeadPolicy], step)

MadeInv == NoEmptyStep => StepInv(status, policyCmds, trained, currentStep)

LEMMA InitMade == Init => MadeInv
<1>1. \A type : Places(<<>>, type) = {} /\ Pending(<<>>, type) = {}
  BY DEF Places, Pending
<1>. QED BY <1>1, Constants DEF Init, MadeInv, StepInv, LeadInv

\* The first command of the leading replica's stream is taken, ...
LEMMA RestLead ==
  ASSUME NEW queue, NEW rest, IsRest(rest, queue), NEW st, NEW made, NEW step,
         LeadInv(st, queue, made, step)
  PROVE  /\ LeadInv(st, rest, made, step)
         /\ Head(queue).type = "DataFetch" => Len(rest) = 0
<1>1. PICK n \in Nat : n = Len(rest) /\ Len(queue) = n + 1
  BY DEF IsRest
<1>2. /\ \A i \in Places(rest, "DataFetch") : i \in Nat /\ i + 1 \in Places(queue, "DataFetch")
      /\ 1 \in Places(queue, "DataFetch") <=> Head(queue).type = "DataFetch"
  BY RestPlaces
<1>3. Pending(rest, "P2R") \subseteq Pending(queue, "P2R")
  BY RestPending
<1>4. \A i \in Places(rest, "DataFetch") : i = Len(rest)
  BY <1>1, <1>2 DEF LeadInv
<1>5. Head(queue).type = "DataFetch" => Len(rest) = 0
  BY <1>1, <1>2 DEF LeadInv
<1>. QED BY <1>1, <1>3, <1>4, <1>5 DEF LeadInv

\* ... and a step is started.
LEMMA StartMade ==
  ASSUME NEW items \in Nat, items > 0, NEW buffer, NEW remain, NEW total \in Nat, NEW val,
         NEW st, NEW cmds \in [Policies -> Seq(Commands)], NEW made, currentStep \in Nat,
         \A p \in Policies : st[p] # "RUNNING" /\ Fetches(cmds[p]) = {},
         st[LeadPolicy] \in Statuses,
         StepInv(st, cmds, made, currentStep), StartStep(items, buffer, remain, cmds, total, val)
  PROVE  StepInv(status', policyCmds', made, currentStep')
<1>1. PICK cmd \in Commands :
        /\ cmd.type = "DataFetch" /\ cmd.step = currentStep + 1 /\ cmd.items = items
        /\ currentStep' = currentStep + 1
        /\ \A p \in Policies : IsLonger(policyCmds'[p], cmds[p], cmd) /\ status'[p] = "RUNNING"
  BY StartedCommand
<1> DEFINE queue  == cmds[LeadPolicy]
           longer == policyCmds'[LeadPolicy]
<1>2. IsLonger(longer, queue, cmd) /\ Len(queue) \in Nat /\ Len(longer) = Len(queue) + 1
  BY <1>1, Constants DEF IsLonger
<1>3. ASSUME NEW p \in Policies, NEW d \in Pending(policyCmds'[p], "DataFetch") PROVE d = cmd
  <2>1. Pending(cmds[p], "DataFetch") = {}
    BY NonePending
  <2>2. IsLonger(policyCmds'[p], cmds[p], cmd)
    BY <1>1
  <2>3. Pending(policyCmds'[p], "DataFetch") = Pending(cmds[p], "DataFetch") \cup {cmd}
    BY <1>1, <2>2, LongerPending
  <2>. QED BY <1>3, <2>1, <2>3
<1>4. \A i \in Places(longer, "DataFetch") : i = Len(longer)
  <2>1. Places(queue, "DataFetch") = {}
    BY NonePending, Constants
  <2>2. \A i \in Places(longer, "DataFetch") : i \in Places(queue, "DataFetch") \/ i = Len(queue) + 1
    BY <1>2, LongerPlaces
  <2>. QED BY <1>2, <2>1, <2>2
<1>5. ASSUME NEW d \in Pending(longer, "P2R") PROVE d.step = made[LeadPolicy] /\ d.step = currentStep
  <2>1. Pending(longer, "P2R") = Pending(queue, "P2R") \cup (IF cmd.type = "P2R" THEN {cmd} ELSE {})
    BY <1>2, LongerPending
  <2>2. d \in Pending(queue, "P2R")
    BY <1>1, <1>5, <2>1
  <2>3. st[LeadPolicy] # "REDUCED"
    <3>1. Len(queue) = 0 => Places(queue, "P2R") = {}
      BY DEF Places
    <3>. QED BY <2>2, <3>1 DEF StepInv, LeadInv, Pending
  <2>4. st[LeadPolicy] = "READY"
    BY <2>3, Constants DEF Statuses
  <2>. QED BY <2>2, <2>4 DEF StepInv, LeadInv
<1>6. LeadInv(status'[LeadPolicy], longer, made[LeadPolicy], currentStep + 1)
  <2>1. status'[LeadPolicy] = "RUNNING"
    BY <1>1, Constants
  <2>. QED BY <1>4, <1>5, <2>1 DEF LeadInv
<1>7. \A p \in Policies : status'[p] # "REDUCED"
  BY <1>1
<1>. QED BY <1>1, <1>3, <1>6, <1>7 DEF StepInv

\* A trigger attempt keeps it.
LEMMA TriggerMade ==
  ASSUME IInv, FinalInv, NEW st \in [Policies -> Statuses],
         NEW cmds \in [Policies -> Seq(Commands)], NEW buffer, NEW remain, NEW val,
         NoEmptyStep => Barrier(st, cmds), NoEmptyStep \/ buffer = rolloutBuffer,
         UNCHANGED <<totalSteps, ended, trained>>,
         NoEmptyStep => StepInv(st, cmds, trained, currentStep),
         TryTrigger(st, buffer, remain, cmds, val)
  PROVE  MadeInv'
<1>0. TypeOK /\ currentStep \in Nat /\ totalSteps \in Nat
  BY DEF IInv, TypeOK
<1>1. NoEmptyStep' => NoEmptyStep
  <2>1. currentStep' \in Nat /\ currentStep <= currentStep'
    BY <1>0, TryTriggerStep
  <2>. QED BY <1>0, <2>1 DEF NoEmptyStep, SomeoneGenerates
<1>2. CASE MayStart(st, buffer, val)
  <2>1. StartStep(TrainBatch, buffer, remain, cmds, totalSteps, val)
    BY <1>2 DEF TryTrigger
  <2>2. NoEmptyStep /\ \A p \in Policies : st[p] # "RUNNING" /\ Fetches(cmds[p]) = {}
    BY <1>2, StartIsFirst
  <2>3. TrainBatch \in Nat /\ TrainBatch > 0 /\ st[LeadPolicy] \in Statuses
    BY Constants
  <2>4. StepInv(st, cmds, trained, currentStep)
    BY <2>2
  <2>5. StepInv(status', policyCmds', trained, currentStep')
    BY <1>0, <2>1, <2>2, <2>3, <2>4, StartMade
  <2>. QED BY <2>5 DEF MadeInv
<1>3. CASE ~MayStart(st, buffer, val)
  BY <1>1, <1>3 DEF TryTrigger, MadeInv
<1>. QED BY <1>2, <1>3

LEMMA OtherMade ==
  ASSUME MadeInv, UNCHANGED <<currentStep, totalSteps, ended, status, policyCmds, trained>>
  PROVE  MadeInv'
BY DEF MadeInv, NoEmptyStep, SomeoneGenerates

LEMMA ReportMade ==
  ASSUME IInv, EndInv, StatusInv, OrderInv, MadeInv, NEW r \in Rollouts, ReportRollouts(r)
  PROVE  MadeInv'
<1>1. UNCHANGED <<totalSteps, ended, trained>> /\ rewardQueue[r] # <<>>
  BY DEF ReportRollouts
<1>2. NoEmptyStep
  BY <1>1 DEF EndInv, EndIsLast, NoEmptyStep, SomeoneGenerates
<1>3. PICK version, n, remain : PutRollouts(version, n, remain)
  BY DEF ReportRollouts
<1>4. CASE UNCHANGED <<currentStep, status, policyCmds>>
  BY <1>1, <1>4, OtherMade
<1>5. ASSUME NEW buffer, TryTrigger(status, buffer, remain, policyCmds, validation)
      PROVE  MadeInv'
  <2>1. status \in [Policies -> Statuses] /\ policyCmds \in [Policies -> Seq(Commands)]
    BY DEF IInv, TypeOK
  <2>. QED BY <1>1, <1>2, <1>5, <2>1, TriggerMade DEF OrderInv, StatusInv, MadeInv
<1>. QED BY <1>3, <1>4, <1>5 DEF PutRollouts

LEMMA ValidationMade ==
  ASSUME IInv, StatusInv, OrderInv, MadeInv, NEW r \in Rollouts, ReportValidation(r)
  PROVE  MadeInv'
<1>1. UNCHANGED <<totalSteps, ended, trained>>
  BY DEF ReportValidation
<1>2. CASE UNCHANGED <<currentStep, status, policyCmds>>
  BY <1>1, <1>2, OtherMade
<1>3. ASSUME NEW val, TryTrigger(status, rolloutBuffer, remainSamples, policyCmds, val)
      PROVE  MadeInv'
  <2>1. status \in [Policies -> Statuses] /\ policyCmds \in [Policies -> Seq(Commands)]
    BY DEF IInv, TypeOK
  <2>. QED BY <1>1, <1>3, <2>1, TriggerMade DEF OrderInv, StatusInv, MadeInv
<1>. QED BY <1>2, <1>3 DEF ReportValidation, trainVars

LEMMA SendEndSignalMade ==
  ASSUME IInv, EndInv, MadeInv, NEW r \in Rollouts, SendEndSignal(r)
  PROVE  MadeInv'
<1>1. /\ stage[r] = "ending" /\ ended' = [ended EXCEPT ![r] = TRUE] /\ trained' = trained
  BY DEF SendEndSignal
<1>2. NoEmptyStep
  BY <1>1 DEF EndInv, EndingIsEmpty, NoEmptyStep, SomeoneGenerates
<1>3. CASE UNCHANGED <<currentStep, status, policyCmds>>
  BY <1>1, <1>2, <1>3 DEF MadeInv
<1>4. CASE /\ \A s \in Rollouts \ {r} : ended[s]
           /\ totalSteps' = currentStep + 1
           /\ StartStep(0, <<>>, remainSamples, policyCmds, currentStep + 1, validation)
  <2>1. ~SomeoneGenerates'
    BY <1>1, <1>4 DEF IInv, TypeOK, SomeoneGenerates
  <2>2. currentStep' = currentStep + 1 /\ currentStep \in Nat
    BY <1>4 DEF StartStep, IInv, TypeOK
  <2>3. ~NoEmptyStep'
    BY <1>4, <2>1, <2>2 DEF NoEmptyStep
  <2>. QED BY <2>3 DEF MadeInv
<1>. QED BY <1>3, <1>4 DEF SendEndSignal, trainVars

\* A step is made: nobody has anything but that step in its stream.
LEMMA TrainStepMade ==
  ASSUME IInv, StatusInv, OrderInv, MadeInv, TrainStep
  PROVE  MadeInv'
<1>1. /\ \A p \in Policies : HeadIs(policyCmds[p], "DataFetch")
      /\ trained' = [p \in Policies |-> Head(policyCmds[p]).step]
      /\ UNCHANGED <<currentStep, totalSteps, ended, status, policyCmds>>
  BY DEF TrainStep, trainVars
<1>2. NoEmptyStep' => NoEmptyStep
  BY <1>1 DEF NoEmptyStep, SomeoneGenerates
<1>3. SUFFICES ASSUME NoEmptyStep, StepInv(status, policyCmds, trained, currentStep),
                      Barrier(status, policyCmds)
               PROVE  StepInv(status, policyCmds, trained', currentStep)
  BY <1>1, <1>2 DEF MadeInv, StatusInv
<1>4. ASSUME NEW p \in Policies
      PROVE  1 \in Places(policyCmds[p], "DataFetch") /\ status[p] = "RUNNING"
  <2>1. policyCmds[p] \in Seq(Commands) /\ policyCmds[p] # <<>>
        /\ Head(policyCmds[p]).type = "DataFetch"
    BY <1>1 DEF HeadIs, IInv, TypeOK
  <2>2. 1 \in Fetches(policyCmds[p])
    BY <2>1, HeadFetches
  <2>. QED BY <1>3, <2>2, NonePending DEF Barrier
<1>5. Pending(policyCmds[LeadPolicy], "P2R") = {}
  <2>1. Len(policyCmds[LeadPolicy]) = 1 /\ policyCmds[LeadPolicy][1].type = "DataFetch"
    BY <1>3, <1>4, Constants DEF StepInv, LeadInv, Places
  <2>. QED BY <2>1 DEF Pending, Places
<1>. QED BY <1>3, <1>4, <1>5, Constants DEF StepInv, LeadInv

\* train_ack: the replica that answers has made the step; after the last answer the weights
\* that are sent are those of the step all have made.
LEMMA TrainAckMade ==
  ASSUME IInv, EndInv, StatusInv, OrderInv, MadeInv, NEW p \in Policies, TrainAck(p)
  PROVE  MadeInv'
<1> DEFINE cmd == AckCmd(p)
<1>1. /\ cmd.items = 0 \/ trained[p] = cmd.step
      /\ cmd \in Commands /\ cmd.step \in Nat
      /\ AckCmds(p) \in [Policies -> Seq(Commands)]
      /\ IsRest(AckCmds(p)[p], policyCmds[p]) /\ cmd.type = "DataFetch"
      /\ \A q \in Policies \ {p} : AckCmds(p)[q] = policyCmds[q]
      /\ UNCHANGED <<totalSteps, ended, trained>>
  BY AckFacts
<1>2. /\ \A q \in Policies : Pending(AckCmds(p)[q], "DataFetch") \subseteq Pending(policyCmds[q], "DataFetch")
      /\ cmd \in Pending(policyCmds[p], "DataFetch")
  BY AckRound
<1>3. /\ Acked(p) \in [Policies -> Statuses] /\ Acked(p)[p] = "REDUCED"
      /\ \A q \in Policies \ {p} : Acked(p)[q] = status[q]
  BY DEF IInv, TypeOK, Acked, Statuses
<1>. HIDE DEF cmd
<1>4. ASSUME NoEmptyStep
      PROVE  StepInv(Acked(p), AckCmds(p), trained, currentStep) /\ cmd.step = currentStep
  <2>1. StepInv(status, policyCmds, trained, currentStep)
    BY <1>4 DEF MadeInv
  <2>2. cmd.step = currentStep /\ cmd.items > 0
    BY <1>2, <2>1 DEF StepInv
  <2>3. cmd.items # 0
    BY <2>2
  <2>4. trained[p] = currentStep
    BY <1>1, <2>2, <2>3
  <2>5. LeadInv(Acked(p)[LeadPolicy], AckCmds(p)[LeadPolicy], trained[LeadPolicy], currentStep)
    <3>1. CASE p = LeadPolicy
      <4>1. Len(AckCmds(p)[p]) = 0
        <5>1. LeadInv(status[p], policyCmds[p], trained[p], currentStep)
          BY <2>1, <3>1 DEF StepInv
        <5>. QED BY <1>1, <5>1, RestLead DEF cmd, AckCmd
      <4>2. Places(AckCmds(p)[p], "DataFetch") = {} /\ Pending(AckCmds(p)[p], "P2R") = {}
        BY <4>1 DEF Places, Pending
      <4>. QED BY <3>1, <4>1, <4>2 DEF LeadInv
    <3>2. CASE p # LeadPolicy
      BY <1>1, <1>3, <2>1, <3>2, Constants DEF StepInv
    <3>. QED BY <3>1, <3>2
  <2>6. \A q \in Policies : Acked(p)[q] = "REDUCED" => trained[q] = currentStep
    BY <1>3, <2>1, <2>4 DEF StepInv
  <2>7. \A q \in Policies : \A d \in Pending(AckCmds(p)[q], "DataFetch") :
          d.step = currentStep /\ d.items > 0
    BY <1>2, <2>1 DEF StepInv
  <2>. QED BY <2>2, <2>5, <2>6, <2>7 DEF StepInv
<1>5. CASE ~AllAre(Acked(p), {"REDUCED"})
  <2>1. status' = Acked(p) /\ policyCmds' = AckCmds(p) /\ currentStep' = currentStep
    BY <1>5, AckFacts
  <2>2. NoEmptyStep' => NoEmptyStep
    BY <1>1, <2>1 DEF NoEmptyStep, SomeoneGenerates
  <2>. QED BY <1>1, <1>4, <2>1, <2>2 DEF MadeInv
<1>6. CASE AllAre(Acked(p), {"REDUCED"})
  <2>1. TryTrigger(AllReady, rolloutBuffer, remainSamples, SyncCmds(p), validation)
    BY <1>6, AckFacts
  <2>2. SyncCmds(p) \in [Policies -> Seq(Commands)]
        /\ \A q \in Policies : Pending(SyncCmds(p)[q], "DataFetch") = Pending(AckCmds(p)[q], "DataFetch")
    BY SyncPolicy
  <2>3. NoEmptyStep => \A q \in Policies : Pending(AckCmds(p)[q], "DataFetch") = {}
    BY <1>6, LastAnswer
  <2>4. ASSUME NoEmptyStep
        PROVE  StepInv(AllReady, SyncCmds(p), trained, currentStep) /\ Barrier(AllReady, SyncCmds(p))
    <3>1. \A q \in Policies : Fetches(SyncCmds(p)[q]) = {} /\ Places(SyncCmds(p)[q], "DataFetch") = {}
      <4>1. \A q \in Policies :
              /\ Pending(SyncCmds(p)[q], "DataFetch") = {} <=> Places(SyncCmds(p)[q], "DataFetch") = {}
              /\ Fetches(SyncCmds(p)[q]) = Places(SyncCmds(p)[q], "DataFetch")
        BY NonePending
      <4>. QED BY <2>2, <2>3, <2>4, <4>1
    <3>2. Acked(p)[LeadPolicy] = "REDUCED"
      BY <1>6, Constants DEF AllAre
    <3>3. trained[LeadPolicy] = currentStep /\ Len(AckCmds(p)[LeadPolicy]) = 0
      BY <1>4, <2>4, <3>2, Constants DEF StepInv, LeadInv
    <3>4. \A d \in Pending(SyncCmds(p)[LeadPolicy], "P2R") : d.step = currentStep
      <4>1. Steps(AckCmds(p)[LeadPolicy], "P2R") = {}
        BY <3>3 DEF Steps, Pending, Places
      <4>2. /\ Steps(AckCmds(p)[LeadPolicy], "P2R") = Steps(policyCmds[LeadPolicy], "P2R")
            /\ Steps(SyncCmds(p)[LeadPolicy], "P2R")
                 = Steps(policyCmds[LeadPolicy], "P2R") \cup (IF Synced(p) THEN {AckCmd(p).step} ELSE {})
        BY AckRound, SyncPolicy
      <4>3. \A x \in Steps(SyncCmds(p)[LeadPolicy], "P2R") : x = currentStep
        BY <1>4, <2>4, <4>1, <4>2 DEF cmd
      <4>. QED BY <4>3 DEF Steps
    <3>5. AllReady[LeadPolicy] = "READY" /\ \A q \in Policies : AllReady[q] # "REDUCED"
      BY Constants DEF AllReady
    <3>6. LeadInv(AllReady[LeadPolicy], SyncCmds(p)[LeadPolicy], trained[LeadPolicy], currentStep)
      BY <3>1, <3>3, <3>4, <3>5, Constants DEF LeadInv
    <3>7. \A q \in Policies : Pending(SyncCmds(p)[q], "DataFetch") = {}
      BY <2>2, <2>3, <2>4
    <3>. QED BY <3>1, <3>5, <3>6, <3>7 DEF StepInv, Barrier, Single
  <2>5. AllReady \in [Policies -> Statuses]
    BY DEF AllReady, Statuses
  <2>. QED BY <1>1, <2>1, <2>2, <2>4, <2>5, TriggerMade DEF OrderInv
<1>. QED BY <1>5, <1>6

LEMMA UnicastMade ==
  ASSUME IInv, MadeInv, PolicyToRollout
  PROVE  MadeInv'
<1>1. /\ HeadIs(policyCmds[LeadPolicy], "P2R")
      /\ policyCmds' = [policyCmds EXCEPT ![LeadPolicy] = Tail(@)]
      /\ UNCHANGED <<currentStep, totalSteps, ended, status, trained>>
  BY DEF PolicyToRollout
<1>2. policyCmds \in [Policies -> Seq(Commands)] /\ policyCmds[LeadPolicy] \in Seq(Commands)
  BY Constants DEF IInv, TypeOK
<1>3. /\ IsRest(policyCmds'[LeadPolicy], policyCmds[LeadPolicy])
      /\ \A p \in Policies \ {LeadPolicy} : policyCmds'[p] = policyCmds[p]
  BY <1>1, <1>2, TailIsRest, Constants DEF HeadIs
<1>4. Pending(policyCmds'[LeadPolicy], "DataFetch") \subseteq Pending(policyCmds[LeadPolicy], "DataFetch")
  BY <1>3, RestPending
<1>5. ASSUME StepInv(status, policyCmds, trained, currentStep)
      PROVE  StepInv(status, policyCmds', trained, currentStep)
  <2>1. LeadInv(status[LeadPolicy], policyCmds'[LeadPolicy], trained[LeadPolicy], currentStep)
    BY <1>3, <1>5, RestLead DEF StepInv
  <2>. QED BY <1>3, <1>4, <1>5, <2>1 DEF StepInv
<1>6. NoEmptyStep' => NoEmptyStep
  BY <1>1 DEF NoEmptyStep, SomeoneGenerates
<1>. QED BY <1>1, <1>5, <1>6 DEF MadeInv

LEMMA MadeStep ==
  ASSUME IInv, EndInv, StatusInv, OrderInv, MadeInv, [Next]_vars
  PROVE  MadeInv'
<1>1. ASSUME NEW r \in Rollouts, RolloutStep(r) PROVE MadeInv'
  <2>1. CASE FetchPrompts(r) \/ GenerateHeld(r) \/ Leave(r) \/ FetchEnd(r)
    BY <2>1, OtherMade DEF FetchPrompts, GenerateHeld, Leave, FetchEnd, trainVars
  <2>2. CASE FetchValidation(r)
    BY <2>2, OtherMade DEF FetchValidation, trainVars
  <2>. QED BY <1>1, <2>1, <2>2, ReportMade, SendEndSignalMade, ValidationMade DEF RolloutStep
<1>2. CASE RolloutBroadcast
  BY <1>2, OtherMade DEF RolloutBroadcast, trainVars
<1>3. CASE UNCHANGED vars
  BY <1>3, OtherMade DEF vars, trainVars
<1>. QED BY <1>1, <1>2, <1>3, TrainStepMade, TrainAckMade, UnicastMade DEF Next, Terminated

-----------------------------------------------------------------------------
(* The weights the rollout replicas have *)

\* In the stream of the leading rollout replica every unicast is followed by the broadcast
\* of its weights, and every broadcast but a first one preceded by the unicast.
Paired(queue) ==
  \A i \in 1..Len(queue) :
    /\ queue[i].type = "P2R" =>
         i < Len(queue) /\ queue[i + 1].type = "R2R" /\ queue[i + 1].step = queue[i].step
    /\ queue[i].type = "R2R" /\ i > 1 =>
         queue[i - 1].type = "P2R" /\ queue[i - 1].step = queue[i].step

\* Between the two the leading replica has the weights that it is about to broadcast.
Holding(place, queue, held) ==
  place = "await" => Len(queue) > 0 /\ queue[1].type = "R2R" /\ held = queue[1].step

\* The weights of a replica that may generate are those of its version, not newer than the
\* policy's and the leading replica's, and not older than those of what it has generated.
Labelled(r) ==
  /\ ~ended[r] /\ stage[r] # "await" => weights[r] = weightVersion[r]
  /\ weights[r] <= trained[LeadPolicy]
  /\ weights[r] <= weights[LeadRollout]
  /\ \A i \in 1..Len(rewardQueue[r]) : rewardQueue[r][i].version <= weights[r]

LabelInv ==
  /\ Paired(rolloutCmds[LeadRollout])
  /\ SomeoneGenerates =>
       Holding(stage[LeadRollout], rolloutCmds[LeadRollout], weights[LeadRollout])
  /\ \A r \in Rollouts : Labelled(r)

LEMMA InitLabel == Init => LabelInv
<1>1. Paired(<<>>)
  BY DEF Paired
<1>. QED BY <1>1, Constants DEF Init, LabelInv, Holding, Labelled

LEMMA LabelImplies == TypeOK /\ LabelInv => LabelsAreTrue
<1>. SUFFICES ASSUME TypeOK, LabelInv, NEW r \in Rollouts
              PROVE  /\ stage[r] \in {"loop", "ending"} /\ ~ended[r] => weights[r] = weightVersion[r]
                     /\ \A i \in DOMAIN rewardQueue[r] : rewardQueue[r][i].version <= weights[r]
  BY DEF LabelsAreTrue
<1>1. DOMAIN rewardQueue[r] = 1..Len(rewardQueue[r])
  BY LenProperties DEF TypeOK
<1>. QED BY <1>1 DEF LabelInv, Labelled

LEMMA RestPaired ==
  ASSUME NEW queue, NEW rest, IsRest(rest, queue), Paired(queue)
  PROVE  /\ Paired(rest)
         /\ Head(queue).type = "P2R" => Holding("await", rest, Head(queue).step)
<1>1. PICK n \in Nat : n = Len(rest) /\ Len(queue) = n + 1
  BY DEF IsRest
<1>2. Head(queue) = queue[1] /\ \A i \in 1..n : rest[i] = queue[i + 1]
  BY <1>1 DEF IsRest
<1>3. ASSUME NEW i \in 1..n, rest[i].type = "P2R"
      PROVE  i < n /\ rest[i + 1].type = "R2R" /\ rest[i + 1].step = rest[i].step
  <2>1. i + 1 \in 1..(n + 1) /\ queue[i + 1].type = "P2R"
    BY <1>2, <1>3
  <2>2. i + 1 < n + 1 /\ queue[(i + 1) + 1].type = "R2R" /\ queue[(i + 1) + 1].step = queue[i + 1].step
    BY <1>1, <2>1 DEF Paired
  <2>. QED BY <1>2, <2>2
<1>4. ASSUME NEW i \in 1..n, rest[i].type = "R2R", i > 1
      PROVE  rest[i - 1].type = "P2R" /\ rest[i - 1].step = rest[i].step
  <2>1. i + 1 \in 1..(n + 1) /\ i + 1 > 1 /\ queue[i + 1].type = "R2R"
    BY <1>2, <1>4
  <2>2. queue[(i + 1) - 1].type = "P2R" /\ queue[(i + 1) - 1].step = queue[i + 1].step
    BY <1>1, <2>1 DEF Paired
  <2>3. (i + 1) - 1 = i /\ i - 1 \in 1..n /\ (i - 1) + 1 = i
    BY <1>4
  <2>4. rest[i - 1] = queue[i] /\ rest[i] = queue[i + 1]
    BY <1>2, <2>3
  <2>. QED BY <2>2, <2>3, <2>4
<1>5. ASSUME Head(queue).type = "P2R"
      PROVE  n > 0 /\ rest[1].type = "R2R" /\ Head(queue).step = rest[1].step
  <2>1. 1 \in 1..(n + 1) /\ queue[1].type = "P2R"
    BY <1>2, <1>5
  <2>2. 1 < n + 1 /\ queue[1 + 1].type = "R2R" /\ queue[1 + 1].step = queue[1].step
    BY <1>1, <2>1 DEF Paired
  <2>. QED BY <1>2, <2>2
<1>. QED BY <1>1, <1>3, <1>4, <1>5 DEF Paired, Holding

LEMMA SyncPaired ==
  ASSUME NEW queue \in Seq(Commands), NEW step, NEW total, NEW held, NEW place,
         Paired(queue)
  PROVE  LET sent == queue \o <<Sync("P2R", step, total)>> \o <<Sync("R2R", step, total)>>
         IN  Paired(sent) /\ (Holding(place, queue, held) => Holding(place, sent, held))
<1> DEFINE p2r  == Sync("P2R", step, total)
           r2r  == Sync("R2R", step, total)
           sent == queue \o <<p2r>> \o <<r2r>>
<1>1. p2r.type = "P2R" /\ r2r.type = "R2R" /\ p2r.step = step /\ r2r.step = step
  BY DEF Sync
<1>. HIDE DEF p2r, r2r
<1>2. PICK n \in Nat : n = Len(queue)
  OBVIOUS
<1>3. /\ Len(sent) = n + 2 /\ \A i \in 1..n : sent[i] = queue[i]
      /\ sent[n + 1] = p2r /\ sent[n + 2] = r2r
  BY <1>2
<1>. HIDE DEF sent
<1>4. ASSUME NEW i \in 1..(n + 2)
      PROVE  /\ sent[i].type = "P2R" =>
                  i < n + 2 /\ sent[i + 1].type = "R2R" /\ sent[i + 1].step = sent[i].step
             /\ sent[i].type = "R2R" /\ i > 1 =>
                  sent[i - 1].type = "P2R" /\ sent[i - 1].step = sent[i].step
  <2>1. CASE i \in 1..n
    <3>1. sent[i] = queue[i]
      BY <1>3, <2>1
    <3>2. queue[i].type = "P2R" =>
            i < n /\ queue[i + 1].type = "R2R" /\ queue[i + 1].step = queue[i].step
      BY <1>2, <2>1 DEF Paired
    <3>3. queue[i].type = "R2R" /\ i > 1 =>
            queue[i - 1].type = "P2R" /\ queue[i - 1].step = queue[i].step
      BY <1>2, <2>1 DEF Paired
    <3>4. i < n => i + 1 \in 1..n
      BY <2>1
    <3>5. i > 1 => i - 1 \in 1..n
      BY <2>1
    <3>. QED BY <1>3, <2>1, <3>1, <3>2, <3>3, <3>4, <3>5
  <2>2. CASE i = n + 1
    BY <1>1, <1>3, <2>2
  <2>3. CASE i = n + 2
    <3>1. i - 1 = n + 1
      BY <2>3
    <3>. QED BY <1>1, <1>3, <2>3, <3>1
  <2>. QED BY <2>1, <2>2, <2>3
<1>5. Paired(sent)
  BY <1>3, <1>4 DEF Paired
<1>6. Holding(place, queue, held) => Holding(place, sent, held)
  BY <1>2, <1>3 DEF Holding
<1>. QED BY <1>5, <1>6 DEF sent, p2r, r2r

LEMMA WeightTypes ==
  ASSUME IInv, NEW r \in Rollouts
  PROVE  /\ weights[r] \in Nat /\ weightVersion[r] \in Nat /\ trained[LeadPolicy] \in Nat
         /\ \A i \in 1..Len(rewardQueue[r]) : rewardQueue[r][i].version \in Nat
<1>1. weights[r] \in Nat /\ weightVersion[r] \in Nat /\ trained[LeadPolicy] \in Nat
      /\ rewardQueue[r] \in Seq(Batches)
  BY Constants DEF IInv, TypeOK
<1>2. \A i \in 1..Len(rewardQueue[r]) : rewardQueue[r][i] \in Batches
  BY <1>1, ElementOfSeq
<1>. QED BY <1>1, <1>2 DEF Batches

\* What leaves the weights alone, and at most takes a batch off a reward queue or ends.
LEMMA OtherLabel ==
  ASSUME IInv, LabelInv, UNCHANGED <<rolloutCmds, weightVersion, weights, trained>>,
         \A r \in Rollouts :
           /\ ended[r] => ended'[r]
           /\ ~ended'[r] => (stage'[r] = "await" <=> stage[r] = "await")
           /\ \A i \in 1..Len(rewardQueue'[r]) :
                \E j \in 1..Len(rewardQueue[r]) : rewardQueue'[r][i] = rewardQueue[r][j],
         stage'[LeadRollout] = "await" => stage[LeadRollout] = "await"
  PROVE  LabelInv'
<1>1. SomeoneGenerates' => SomeoneGenerates
  BY DEF SomeoneGenerates
<1>2. \A r \in Rollouts : Labelled(r)'
  BY DEF LabelInv, Labelled
<1>. QED BY <1>1, <1>2 DEF LabelInv, Holding

LEMMA GenerateLabel ==
  ASSUME IInv, EndInv, LabelInv, NEW r \in Rollouts, FetchPrompts(r) \/ GenerateHeld(r)
  PROVE  LabelInv'
<1>1. /\ UNCHANGED <<rolloutCmds, weightVersion, weights, trained, ended>>
      /\ stage[r] = "loop" /\ ~ended[r]
      /\ stage' = [stage EXCEPT ![r] = IF stopping[r] THEN "stopped" ELSE "loop"]
      /\ (\E n : Generate(r, n)) \/ rewardQueue' = rewardQueue
  BY DEF FetchPrompts, GenerateHeld, FetchGuard, Working, NextRound, HeldIsAllowed, EndInv, EndIsLast
<1>2. stage \in [Rollouts -> Stages] /\ rewardQueue \in [Rollouts -> Seq(Batches)]
      /\ weightVersion[r] \in Nat
  BY DEF IInv, TypeOK
<1>3. \A s \in Rollouts : stage'[s] = "await" <=> stage[s] = "await"
  BY <1>1, <1>2
<1>4. CASE rewardQueue' = rewardQueue
  BY <1>1, <1>3, <1>4, OtherLabel, Constants
<1>5. ASSUME NEW n, Generate(r, n) PROVE LabelInv'
  <2> DEFINE batch == [version |-> weightVersion[r], prompts |-> n]
  <2>1. rewardQueue'[r] = Append(rewardQueue[r], batch)
        /\ \A s \in Rollouts \ {r} : rewardQueue'[s] = rewardQueue[s]
    BY <1>2, <1>5 DEF Generate
  <2>2. batch.version = weightVersion[r]
    OBVIOUS
  <2>. HIDE DEF batch
  <2>3. \A i \in 1..Len(rewardQueue'[r]) :
          rewardQueue'[r][i] = batch \/ \E j \in 1..Len(rewardQueue[r]) : rewardQueue'[r][i] = rewardQueue[r][j]
    <3>1. rewardQueue[r] \in Seq(Batches) /\ Len(rewardQueue[r]) \in Nat
      BY <1>2
    <3>2. /\ Len(rewardQueue'[r]) = Len(rewardQueue[r]) + 1
          /\ \A i \in 1..Len(rewardQueue[r]) : rewardQueue'[r][i] = rewardQueue[r][i]
          /\ rewardQueue'[r][Len(rewardQueue[r]) + 1] = batch
      BY <2>1, <3>1
    <3>. QED BY <3>1, <3>2
  <2>4. weights[r] = weightVersion[r]
    BY <1>1 DEF LabelInv, Labelled
  <2>5. \A i \in 1..Len(rewardQueue'[r]) : rewardQueue'[r][i].version <= weights[r]
    <3>1. \A i \in 1..Len(rewardQueue[r]) : rewardQueue[r][i].version <= weights[r]
      BY DEF LabelInv, Labelled
    <3>2. weights[r] <= weights[r] /\ batch.version = weights[r]
      BY <2>2, <2>4, WeightTypes
    <3>3. batch.version <= weights[r]
      BY <3>2
    <3>4. SUFFICES ASSUME NEW i \in 1..Len(rewardQueue'[r])
                   PROVE  rewardQueue'[r][i].version <= weights[r]
      OBVIOUS
    <3>5. CASE rewardQueue'[r][i] = batch
      BY <3>3, <3>5
    <3>6. CASE \E j \in 1..Len(rewardQueue[r]) : rewardQueue'[r][i] = rewardQueue[r][j]
      BY <3>1, <3>6
    <3>. QED BY <2>3, <3>5, <3>6
  <2>6. \A s \in Rollouts : Labelled(s)'
    BY <1>1, <1>3, <2>1, <2>5 DEF LabelInv, Labelled
  <2>7. SomeoneGenerates' => SomeoneGenerates
    BY <1>1 DEF SomeoneGenerates
  <2>. QED BY <1>1, <1>3, <2>6, <2>7, Constants DEF LabelInv, Holding
<1>. QED BY <1>1, <1>4, <1>5

LEMMA ReportLabel ==
  ASSUME IInv, LabelInv, NEW r \in Rollouts, ReportRollouts(r)
  PROVE  LabelInv'
<1>1. /\ UNCHANGED <<rolloutCmds, weightVersion, weights, trained, ended, stage>>
      /\ rewardQueue[r] # <<>> /\ rewardQueue' = [rewardQueue EXCEPT ![r] = Tail(@)]
  BY DEF ReportRollouts
<1>2. rewardQueue \in [Rollouts -> Seq(Batches)] /\ rewardQueue[r] \in Seq(Batches)
  BY DEF IInv, TypeOK
<1>3. \A i \in 1..Len(Tail(rewardQueue[r])) :
        \E j \in 1..Len(rewardQueue[r]) : Tail(rewardQueue[r])[i] = rewardQueue[r][j]
  <2>1. PICK n \in Nat : Len(rewardQueue[r]) = n + 1
    BY <1>1, <1>2, EmptySeq
  <2>2. Len(Tail(rewardQueue[r])) = n /\ \A i \in 1..n : Tail(rewardQueue[r])[i] = rewardQueue[r][i + 1]
    BY <1>1, <1>2, <2>1
  <2>. QED BY <2>1, <2>2
<1>4. \A s \in Rollouts : rewardQueue'[s] = IF s = r THEN Tail(rewardQueue[r]) ELSE rewardQueue[s]
  BY <1>1, <1>2
<1>. QED BY <1>1, <1>3, <1>4, OtherLabel

LEMMA TrainStepLabel ==
  ASSUME IInv, LabelInv, TrainStep
  PROVE  LabelInv'
<1>1. /\ UNCHANGED <<rolloutCmds, weightVersion, weights, ended, stage, rewardQueue>>
      /\ trained'[LeadPolicy] > trained[LeadPolicy]
  BY Constants DEF TrainStep, rolloutVars
<1>2. /\ trained[LeadPolicy] \in Nat /\ trained'[LeadPolicy] \in Nat
      /\ \A r \in Rollouts : weights[r] \in Nat
  <2>1. Head(policyCmds[LeadPolicy]).step \in Nat
    <3>1. policyCmds[LeadPolicy] \in Seq(Commands) /\ policyCmds[LeadPolicy] # <<>>
      BY Constants DEF TrainStep, HeadIs, IInv, TypeOK
    <3>2. Head(policyCmds[LeadPolicy]) \in Commands
      BY <3>1, TailIsRest DEF IsRest
    <3>. QED BY <3>2 DEF Commands
  <2>. QED BY <2>1, Constants DEF TrainStep, IInv, TypeOK
<1>3. \A r \in Rollouts : weights[r] <= trained'[LeadPolicy]
  BY <1>1, <1>2 DEF LabelInv, Labelled
<1>. QED BY <1>1, <1>3 DEF LabelInv, Labelled, Holding, SomeoneGenerates

LEMMA TrainAckLabel ==
  ASSUME IInv, LabelInv, NEW p \in Policies, TrainAck(p)
  PROVE  LabelInv'
<1>1. UNCHANGED <<weightVersion, weights, ended, stage, rewardQueue, trained>>
  BY DEF TrainAck, rolloutVars
<1>2. rolloutCmds' = rolloutCmds \/ \E step, total : rolloutCmds' = RolloutSync(step, total)
  BY DEF TrainAck
<1>3. CASE rolloutCmds' = rolloutCmds
  BY <1>1, <1>3 DEF LabelInv, Labelled, Holding, SomeoneGenerates
<1>4. ASSUME NEW step, NEW total, rolloutCmds' = RolloutSync(step, total) PROVE LabelInv'
  <2> DEFINE sent == rolloutCmds[LeadRollout] \o <<Sync("P2R", step, total)>>
                                             \o <<Sync("R2R", step, total)>>
  <2>1. rolloutCmds'[LeadRollout] = sent
    BY <1>4, Constants DEF RolloutSync
  <2>2. rolloutCmds[LeadRollout] \in Seq(Commands)
    BY Constants DEF IInv, TypeOK
  <2>3. /\ Paired(sent)
        /\ Holding(stage[LeadRollout], rolloutCmds[LeadRollout], weights[LeadRollout])
             => Holding(stage[LeadRollout], sent, weights[LeadRollout])
    BY <2>2, SyncPaired DEF LabelInv
  <2>. QED BY <1>1, <2>1, <2>3 DEF LabelInv, Labelled, SomeoneGenerates
<1>. QED BY <1>2, <1>3, <1>4

\* The weights that the unicast brings are those of its step: the policy has made no other
\* step since.
LEMMA UnicastLabel ==
  ASSUME IInv, OrderInv, MadeInv, LabelInv, PolicyToRollout
  PROVE  LabelInv'
<1> DEFINE queue == rolloutCmds[LeadRollout]
           lead  == policyCmds[LeadPolicy]
<1>1. /\ HeadIs(lead, "P2R") /\ HeadIs(queue, "P2R")
      /\ stage[LeadRollout] = "loop"
      /\ rolloutCmds' = [rolloutCmds EXCEPT ![LeadRollout] = Tail(@)]
      /\ weights' = [weights EXCEPT ![LeadRollout] = trained[LeadPolicy]]
      /\ stage' = [stage EXCEPT ![LeadRollout] = "await"]
      /\ UNCHANGED <<weightVersion, trained, ended, rewardQueue>>
  BY DEF PolicyToRollout
<1>2. queue \in Seq(Commands) /\ lead \in Seq(Commands)
  BY Constants DEF IInv, TypeOK
<1>3. queue # <<>> /\ Head(queue).type = "P2R" /\ lead # <<>> /\ Head(lead).type = "P2R"
  BY <1>1 DEF HeadIs
<1>4. /\ rolloutCmds'[LeadRollout] = Tail(queue)
      /\ weights'[LeadRollout] = trained[LeadPolicy] /\ stage'[LeadRollout] = "await"
      /\ \A r \in Rollouts \ {LeadRollout} : weights'[r] = weights[r] /\ stage'[r] = stage[r]
  BY <1>1, Constants DEF IInv, TypeOK
<1>5. IsRest(rolloutCmds'[LeadRollout], queue)
  BY <1>2, <1>3, <1>4, TailIsRest
<1>6. Paired(rolloutCmds'[LeadRollout]) /\ Holding("await", rolloutCmds'[LeadRollout], Head(queue).step)
  BY <1>3, <1>5, RestPaired DEF LabelInv
<1>7. SomeoneGenerates => Head(queue).step = trained[LeadPolicy]
  <2>1. SUFFICES ASSUME SomeoneGenerates PROVE Head(queue).step = trained[LeadPolicy]
    OBVIOUS
  <2>2. Head(lead).step = Head(queue).step
    BY <1>1, OrderImplies DEF CollectivesMatch
  <2>3. PICK rest : IsRest(rest, lead)
    BY <1>2, <1>3, TailIsRest
  <2>4. Head(lead) \in Pending(lead, "P2R")
    BY <1>3, <2>3, RestPending
  <2>5. StepInv(status, policyCmds, trained, currentStep)
    BY <2>1 DEF MadeInv, NoEmptyStep
  <2>. QED BY <2>2, <2>4, <2>5 DEF StepInv, LeadInv
<1>8. /\ trained[LeadPolicy] \in Nat
      /\ \A r \in Rollouts : weights[r] \in Nat /\ rewardQueue[r] \in Seq(Batches)
  BY Constants DEF IInv, TypeOK
<1>9. ASSUME NEW r \in Rollouts PROVE Labelled(r)'
  <2>1. Labelled(r) /\ weights[r] <= trained[LeadPolicy]
    BY DEF LabelInv, Labelled
  <2>2. weights'[r] <= trained[LeadPolicy] /\ weights'[r] <= weights'[LeadRollout] /\ weights[r] <= weights'[r]
    BY <1>4, <1>8, <2>1
  <2>3. \A i \in 1..Len(rewardQueue[r]) : rewardQueue[r][i].version \in Nat
    BY WeightTypes
  <2>4. \A i \in 1..Len(rewardQueue[r]) : rewardQueue[r][i].version <= weights'[r]
    <3>1. weights'[r] \in Nat
      BY <1>4, <1>8
    <3>. QED BY <1>8, <2>1, <2>2, <2>3, <3>1 DEF Labelled
  <2>5. ~ended[r] /\ stage'[r] # "await" => weights'[r] = weightVersion[r]
    BY <1>4, <2>1 DEF Labelled
  <2>. QED BY <1>1, <2>2, <2>4, <2>5 DEF Labelled
<1>10. SomeoneGenerates' => SomeoneGenerates
  BY <1>1 DEF SomeoneGenerates
<1>11. SomeoneGenerates =>
         Holding(stage'[LeadRollout], rolloutCmds'[LeadRollout], weights'[LeadRollout])
  BY <1>4, <1>6, <1>7 DEF Holding
<1>. QED BY <1>6, <1>9, <1>10, <1>11 DEF LabelInv

LEMMA BroadcastLabel ==
  ASSUME IInv, LabelInv, RolloutBroadcast
  PROVE  LabelInv'
<1> DEFINE queue == rolloutCmds[LeadRollout]
<1>1. /\ HeadIs(queue, "R2R")
      /\ stage[LeadRollout] = "await"
      /\ weightVersion' = [r \in Rollouts |-> Head(queue).step]
      /\ weights' = [r \in Rollouts |-> weights[LeadRollout]]
      /\ rolloutCmds' = [r \in Rollouts |-> Tail(rolloutCmds[r])]
      /\ UNCHANGED <<ended, trained, rewardQueue>>
  BY Constants DEF RolloutBroadcast
<1>2. \A r \in Rollouts : stage'[r] # "await"
  BY DEF RolloutBroadcast
<1>3. queue \in Seq(Commands) /\ queue # <<>>
  BY <1>1, Constants DEF IInv, TypeOK, HeadIs
<1>4. IsRest(rolloutCmds'[LeadRollout], queue)
  BY <1>1, <1>3, TailIsRest, Constants
<1>5. Paired(rolloutCmds'[LeadRollout])
  BY <1>4, RestPaired DEF LabelInv
<1>6. SomeoneGenerates => weights[LeadRollout] = Head(queue).step
  BY <1>1, <1>4 DEF LabelInv, Holding, IsRest
<1>7. ASSUME NEW r \in Rollouts PROVE Labelled(r)'
  <2>1. Labelled(r) /\ Labelled(LeadRollout)
    BY Constants DEF LabelInv
  <2>2. /\ weights'[r] = weights[LeadRollout] /\ weights'[LeadRollout] = weights[LeadRollout]
        /\ weightVersion'[r] = Head(queue).step
    BY <1>1, Constants
  <2>3. weights[r] \in Nat /\ weights[LeadRollout] \in Nat
        /\ \A i \in 1..Len(rewardQueue[r]) : rewardQueue[r][i].version \in Nat
    BY WeightTypes, Constants
  <2>4. \A i \in 1..Len(rewardQueue[r]) : rewardQueue[r][i].version <= weights[LeadRollout]
    BY <2>1, <2>3 DEF Labelled
  <2>5. ~ended[r] => SomeoneGenerates
    BY DEF SomeoneGenerates
  <2>. QED BY <1>1, <1>6, <2>1, <2>2, <2>3, <2>4, <2>5 DEF Labelled
<1>8. SomeoneGenerates' => SomeoneGenerates
  BY <1>1 DEF SomeoneGenerates
<1>. QED BY <1>2, <1>5, <1>7, <1>8, Constants DEF LabelInv, Holding

LEMMA LabelStep ==
  ASSUME IInv, EndInv, OrderInv, MadeInv, LabelInv, [Next]_vars
  PROVE  LabelInv'
<1>0. stage \in [Rollouts -> Stages] /\ ended \in [Rollouts -> BOOLEAN]
  BY DEF IInv, TypeOK
<1>1. ASSUME NEW r \in Rollouts,
             Leave(r) \/ FetchEnd(r) \/ SendEndSignal(r) \/ FetchValidation(r) \/ ReportValidation(r)
      PROVE  LabelInv'
  <2>1. UNCHANGED <<rolloutCmds, weightVersion, weights, trained, rewardQueue>>
    BY <1>1 DEF Leave, FetchEnd, SendEndSignal, FetchValidation, ReportValidation
  <2>2. ended' = ended \/ ended' = [ended EXCEPT ![r] = TRUE]
    BY <1>1 DEF Leave, FetchEnd, SendEndSignal, FetchValidation, ReportValidation
  <2>3. stage[r] # "await" /\ \E place \in Stages \ {"await"} : stage' = [stage EXCEPT ![r] = place]
    <3>1. stage[r] # "await"
      BY <1>1 DEF Leave, FetchEnd, SendEndSignal, FetchValidation, ReportValidation, Working, FetchGuard
    <3>2. \/ stage' = [stage EXCEPT ![r] = "ending"]
          \/ stage' = [stage EXCEPT ![r] = "val"]
          \/ stage' = [stage EXCEPT ![r] = "valreport"]
          \/ stage' = [stage EXCEPT ![r] = "loop"]
          \/ stage' = [stage EXCEPT ![r] = "stopped"]
      BY <1>1 DEF Leave, FetchEnd, SendEndSignal, FetchValidation, ReportValidation, NextRound
    <3>. QED BY <3>1, <3>2 DEF Stages
  <2>4. \A s \in Rollouts : (ended[s] => ended'[s]) /\ (stage'[s] = "await" <=> stage[s] = "await")
    BY <1>0, <2>2, <2>3
  <2>. QED BY <2>1, <2>4, OtherLabel, Constants
<1>2. ASSUME NEW r \in Rollouts, RolloutStep(r) PROVE LabelInv'
  BY <1>1, <1>2, GenerateLabel, ReportLabel DEF RolloutStep
<1>3. CASE UNCHANGED vars
  BY <1>3, OtherLabel DEF vars, rolloutVars
<1>. QED BY <1>2, <1>3, TrainStepLabel, TrainAckLabel, UnicastLabel, BroadcastLabel DEF Next, Terminated

LEMMA LabelIsInvariant == Spec => [](IInv /\ EndInv /\ StatusInv /\ OrderInv /\ MadeInv /\ LabelInv)
<1>1. /\ IInv /\ EndInv /\ StatusInv /\ OrderInv /\ MadeInv /\ LabelInv /\ [Next]_vars
      => MadeInv' /\ LabelInv'
  BY MadeStep, LabelStep
<1>. QED BY <1>1, InitMade, InitLabel, OrderIsInvariant, PTL DEF Spec

\* What a rollout replica puts on its samples (current_weight_version) is the truth: while
\* it may generate, its engine holds the weights of just that training step.  The policy
\* replicas can be ahead of the rollout replicas, but not of the unicast they have yet to
\* make, however the rollouts' streams, a validation and the policy's steps interleave.
THEOREM LabelsAreTheWeights == Spec => []LabelsAreTrue
<1>1. IInv /\ LabelInv => LabelsAreTrue
  BY LabelImplies DEF IInv
<1>. QED BY <1>1, LabelIsInvariant, PTL

-----------------------------------------------------------------------------
(* How far generation is behind training *)

\* The READY replicas are all of them: a round ends for all at once.
ReadyTogether(st) == (\E p \in Policies : st[p] = "READY") => AllAre(st, {"READY"})

\* The weights of every SyncInterval-th step have come, or are on their way.
AllSent(st, step, versions, rcmds) ==
  \A r \in Rollouts : \A k \in Nat :
    k % SyncInterval = 0 /\ versions[r] < k /\ (k < step \/ (k = step /\ AllAre(st, {"READY"})))
      => k \in Steps(rcmds[r], "R2R")

LagInv ==
  NoEmptyStep => ReadyTogether(status) /\ AllSent(status, currentStep, weightVersion, rolloutCmds)

LEMMA InitLag == Init => LagInv
BY DEF Init, LagInv, ReadyTogether, AllAre, AllSent

LEMMA TriggerLag ==
  ASSUME IInv, FinalInv, NEW st, NEW cmds \in [Policies -> Seq(Commands)], NEW buffer,
         NEW remain, NEW val,
         NoEmptyStep => Barrier(st, cmds), NoEmptyStep \/ buffer = rolloutBuffer,
         UNCHANGED <<totalSteps, ended>>, OneRound(st),
         NoEmptyStep => ReadyTogether(st) /\ AllSent(st, currentStep, weightVersion', rolloutCmds'),
         TryTrigger(st, buffer, remain, cmds, val)
  PROVE  LagInv'
<1>0. TypeOK /\ currentStep \in Nat /\ totalSteps \in Nat
  BY DEF IInv, TypeOK
<1>1. NoEmptyStep' => NoEmptyStep
  <2>1. currentStep' \in Nat /\ currentStep <= currentStep'
    BY <1>0, TryTriggerStep
  <2>. QED BY <1>0, <2>1 DEF NoEmptyStep, SomeoneGenerates
<1>2. CASE MayStart(st, buffer, val)
  <2>1. StartStep(TrainBatch, buffer, remain, cmds, totalSteps, val)
    BY <1>2 DEF TryTrigger
  <2>2. NoEmptyStep
    BY <1>2, StartIsFirst
  <2>3. currentStep' = currentStep + 1 /\ \A p \in Policies : status'[p] = "RUNNING"
    BY <2>1 DEF StartStep
  <2>4. AllAre(st, {"READY"})
    <3>1. AllAre(st, {"READY", "REDUCED"})
      BY <1>2 DEF MayStart
    <3>. QED BY <2>2, <3>1 DEF OneRound, ReadyTogether, AllAre
  <2>5. AllSent(status', currentStep', weightVersion', rolloutCmds')
    <3>1. ~AllAre(status', {"READY"})
      BY <2>3, Constants DEF AllAre
    <3>2. \A k \in Nat : k < currentStep + 1 => k < currentStep \/ k = currentStep
      BY <1>0
    <3>. QED BY <2>2, <2>3, <2>4, <3>1, <3>2 DEF AllSent
  <2>6. ReadyTogether(status')
    BY <2>3 DEF ReadyTogether
  <2>. QED BY <2>5, <2>6 DEF LagInv
<1>3. CASE ~MayStart(st, buffer, val)
  BY <1>1, <1>3 DEF TryTrigger, LagInv
<1>. QED BY <1>2, <1>3

LEMMA OtherLag ==
  ASSUME LagInv, UNCHANGED <<currentStep, totalSteps, ended, status, weightVersion, rolloutCmds>>
  PROVE  LagInv'
BY DEF LagInv, NoEmptyStep, SomeoneGenerates

LEMMA ReportLag ==
  ASSUME IInv, EndInv, StatusInv, OrderInv, LagInv, NEW r \in Rollouts, ReportRollouts(r)
  PROVE  LagInv'
<1>1. UNCHANGED <<totalSteps, ended, weightVersion, rolloutCmds>> /\ rewardQueue[r] # <<>>
  BY DEF ReportRollouts
<1>2. NoEmptyStep
  BY <1>1 DEF EndInv, EndIsLast, NoEmptyStep, SomeoneGenerates
<1>3. PICK version, n, remain : PutRollouts(version, n, remain)
  BY DEF ReportRollouts
<1>4. CASE UNCHANGED <<currentStep, status>>
  BY <1>1, <1>4, OtherLag
<1>5. ASSUME NEW buffer, TryTrigger(status, buffer, remain, policyCmds, validation)
      PROVE  LagInv'
  <2>1. policyCmds \in [Policies -> Seq(Commands)]
    BY DEF IInv, TypeOK
  <2>2. OneRound(status) /\ FinalInv
    BY DEF OrderInv, RoundInv
  <2>. QED BY <1>1, <1>2, <1>5, <2>1, <2>2, TriggerLag DEF StatusInv, LagInv
<1>. QED BY <1>3, <1>4, <1>5 DEF PutRollouts

LEMMA ValidationLag ==
  ASSUME IInv, StatusInv, OrderInv, LagInv, NEW r \in Rollouts, ReportValidation(r)
  PROVE  LagInv'
<1>1. UNCHANGED <<totalSteps, ended, weightVersion, rolloutCmds>>
  BY DEF ReportValidation
<1>2. CASE UNCHANGED <<currentStep, status>>
  BY <1>1, <1>2, OtherLag
<1>3. ASSUME NEW val, TryTrigger(status, rolloutBuffer, remainSamples, policyCmds, val)
      PROVE  LagInv'
  <2>1. policyCmds \in [Policies -> Seq(Commands)]
    BY DEF IInv, TypeOK
  <2>2. OneRound(status) /\ FinalInv
    BY DEF OrderInv, RoundInv
  <2>. QED BY <1>1, <1>3, <2>1, <2>2, TriggerLag DEF StatusInv, LagInv
<1>. QED BY <1>2, <1>3 DEF ReportValidation, trainVars

\* The end signal is sent before the extra step, or sends it.
LEMMA EndSignalSteps ==
  ASSUME IInv, EndInv, NEW r \in Rollouts, SendEndSignal(r)
  PROVE  /\ NoEmptyStep
         /\ NoEmptyStep' => UNCHANGED <<currentStep, status, policyCmds>>
<1>1. stage[r] = "ending" /\ ended' = [ended EXCEPT ![r] = TRUE]
  BY DEF SendEndSignal
<1>2. NoEmptyStep
  BY <1>1 DEF EndInv, EndingIsEmpty, NoEmptyStep, SomeoneGenerates
<1>3. CASE /\ \A s \in Rollouts \ {r} : ended[s]
           /\ totalSteps' = currentStep + 1
           /\ StartStep(0, <<>>, remainSamples, policyCmds, currentStep + 1, validation)
  <2>1. ~SomeoneGenerates'
    BY <1>1, <1>3 DEF IInv, TypeOK, SomeoneGenerates
  <2>2. currentStep' = currentStep + 1 /\ currentStep \in Nat
    BY <1>3 DEF StartStep, IInv, TypeOK
  <2>. QED BY <1>2, <1>3, <2>1, <2>2 DEF NoEmptyStep
<1>. QED BY <1>2, <1>3 DEF SendEndSignal, trainVars

LEMMA SendEndSignalLag ==
  ASSUME IInv, EndInv, LagInv, NEW r \in Rollouts, SendEndSignal(r)
  PROVE  LagInv'
<1>1. NoEmptyStep /\ (NoEmptyStep' => UNCHANGED <<currentStep, status, policyCmds>>)
  BY EndSignalSteps
<1>2. UNCHANGED <<weightVersion, rolloutCmds>>
  BY DEF SendEndSignal
<1>. QED BY <1>1, <1>2 DEF LagInv

\* train_ack sends the weights of the step when it is one of those.
LEMMA TrainAckLag ==
  ASSUME IInv, EndInv, StatusInv, OrderInv, MadeInv, LagInv, NEW p \in Policies, TrainAck(p)
  PROVE  LagInv'
<1>1. /\ UNCHANGED <<totalSteps, ended, weightVersion>>
      /\ AckCmd(p) \in Pending(policyCmds[p], "DataFetch")
  <2>1. UNCHANGED <<totalSteps, ended, weightVersion>>
    BY AckFacts DEF rolloutVars
  <2>. QED BY <2>1, AckRound
<1>2. /\ Acked(p)[p] = "REDUCED"
      /\ \A q \in Policies \ {p} : Acked(p)[q] = status[q]
  BY DEF IInv, TypeOK, Acked
<1>3. ASSUME NoEmptyStep
      PROVE  /\ AckCmd(p).step = currentStep
             /\ \A q \in Policies : status[q] # "READY"
             /\ AllSent(status, currentStep, weightVersion, rolloutCmds)
  <2>1. AckCmd(p).step = currentStep
    BY <1>1, <1>3 DEF MadeInv, StepInv
  <2>2. status[p] = "RUNNING"
    <3>1. Fetches(policyCmds[p]) # {}
      BY <1>1, NonePending
    <3>. QED BY <1>3, <3>1 DEF StatusInv, Barrier
  <2>. QED BY <1>3, <2>1, <2>2 DEF LagInv, ReadyTogether, AllAre
<1>4. CASE ~AllAre(Acked(p), {"REDUCED"})
  <2>1. status' = Acked(p) /\ UNCHANGED <<currentStep, rolloutCmds>>
    BY <1>4, AckFacts
  <2>2. NoEmptyStep' => NoEmptyStep
    BY <1>1, <2>1 DEF NoEmptyStep, SomeoneGenerates
  <2>3. SUFFICES ASSUME NoEmptyStep
                 PROVE  /\ ReadyTogether(Acked(p))
                        /\ AllSent(Acked(p), currentStep, weightVersion, rolloutCmds)
    BY <1>1, <2>1, <2>2 DEF LagInv
  <2>4. \A q \in Policies : Acked(p)[q] # "READY"
    BY <1>2, <1>3, <2>3
  <2>5. ReadyTogether(Acked(p)) /\ ~AllAre(Acked(p), {"READY"})
    BY <2>4 DEF ReadyTogether, AllAre
  <2>. QED BY <1>3, <2>3, <2>5 DEF AllSent
<1>5. CASE AllAre(Acked(p), {"REDUCED"})
  <2>1. /\ TryTrigger(AllReady, rolloutBuffer, remainSamples, SyncCmds(p), validation)
        /\ rolloutCmds' = SyncRolloutCmds(p)
    BY <1>5, AckFacts
  <2>2. /\ SyncCmds(p) \in [Policies -> Seq(Commands)]
        /\ \A q \in Policies : Pending(SyncCmds(p)[q], "DataFetch") = Pending(AckCmds(p)[q], "DataFetch")
    BY SyncPolicy
  <2>3. NoEmptyStep => Barrier(AllReady, SyncCmds(p))
    <3>1. NoEmptyStep => \A q \in Policies : Pending(AckCmds(p)[q], "DataFetch") = {}
      BY <1>5, LastAnswer
    <3>2. \A q \in Policies :
            Pending(SyncCmds(p)[q], "DataFetch") = {} <=> Fetches(SyncCmds(p)[q]) = {}
      BY NonePending
    <3>3. NoEmptyStep => \A q \in Policies : Fetches(SyncCmds(p)[q]) = {}
      BY <2>2, <3>1, <3>2
    <3>. QED BY <3>3 DEF Barrier, Single
  <2>4. OneRound(AllReady) /\ ReadyTogether(AllReady)
    BY Constants DEF OneRound, AllReady, ReadyTogether, AllAre
  <2>5. ASSUME NoEmptyStep
        PROVE  AllSent(AllReady, currentStep, weightVersion, SyncRolloutCmds(p))
    <3>1. \A r \in Rollouts :
            Steps(SyncRolloutCmds(p)[r], "R2R")
              = Steps(rolloutCmds[r], "R2R") \cup (IF Synced(p) THEN {AckCmd(p).step} ELSE {})
      BY <1>5, SyncRollout
    <3>2. currentStep % SyncInterval = 0 => Synced(p)
      BY <1>3, <2>5 DEF Synced, NeedsSync
    <3>. QED BY <1>3, <2>5, <3>1, <3>2 DEF AllSent
  <2>6. FinalInv
    BY DEF OrderInv
  <2>. QED BY <1>1, <2>1, <2>2, <2>3, <2>4, <2>5, <2>6, TriggerLag
<1>. QED BY <1>4, <1>5

LEMMA UnicastLag ==
  ASSUME IInv, OrderInv, LagInv, PolicyToRollout
  PROVE  LagInv'
<1> DEFINE queue == rolloutCmds[LeadRollout]
<1>1. /\ HeadIs(queue, "P2R")
      /\ rolloutCmds' = [rolloutCmds EXCEPT ![LeadRollout] = Tail(@)]
      /\ UNCHANGED <<currentStep, totalSteps, ended, status, weightVersion>>
  BY DEF PolicyToRollout
<1>2. queue \in Seq(Commands) /\ queue # <<>> /\ Head(queue).type # "R2R"
  BY <1>1, Constants DEF IInv, TypeOK, HeadIs
<1>3. /\ rolloutCmds'[LeadRollout] = Tail(queue)
      /\ \A r \in Rollouts \ {LeadRollout} : rolloutCmds'[r] = rolloutCmds[r]
  BY <1>1, Constants DEF IInv, TypeOK
<1>4. Steps(rolloutCmds'[LeadRollout], "R2R") = Steps(queue, "R2R")
  <2>1. IsRest(rolloutCmds'[LeadRollout], queue)
    BY <1>2, <1>3, TailIsRest
  <2>2. Pending(rolloutCmds'[LeadRollout], "R2R") = Pending(queue, "R2R")
    BY <1>2, <2>1, RestPending
  <2>. QED BY <2>2 DEF Steps
<1>5. \A r \in Rollouts : Steps(rolloutCmds'[r], "R2R") = Steps(rolloutCmds[r], "R2R")
  BY <1>3, <1>4
<1>6. NoEmptyStep' => NoEmptyStep
  BY <1>1 DEF NoEmptyStep, SomeoneGenerates
<1>. QED BY <1>1, <1>5, <1>6 DEF LagInv, AllSent

LEMMA BroadcastLag ==
  ASSUME IInv, OrderInv, LagInv, RolloutBroadcast
  PROVE  LagInv'
<1>1. UNCHANGED <<currentStep, totalSteps, ended, status>>
  BY DEF RolloutBroadcast, trainVars
<1>2. NoEmptyStep' => NoEmptyStep
  BY <1>1 DEF NoEmptyStep, SomeoneGenerates
<1>3. \A r \in Rollouts :
        /\ weightVersion'[r] = Head(rolloutCmds[r]).step
        /\ Steps(rolloutCmds'[r], "R2R") = Steps(rolloutCmds[r], "R2R") \ {Head(rolloutCmds[r]).step}
        /\ Head(rolloutCmds[r]).step \in Steps(rolloutCmds[r], "R2R")
  BY BroadcastSteps
<1>4. \A r \in Rollouts : \A x \in Steps(rolloutCmds[r], "R2R") : weightVersion[r] < x /\ x \in Nat
  <2>1. \A r \in Rollouts : \A x \in Steps(rolloutCmds[r], "R2R") : weightVersion[r] < x
    BY DEF OrderInv, StreamsMatch
  <2>. QED BY <2>1, SyncsUpTo
<1>5. ASSUME AllSent(status, currentStep, weightVersion, rolloutCmds),
             NEW r \in Rollouts, NEW k \in Nat, k % SyncInterval = 0, weightVersion'[r] < k,
             k < currentStep \/ (k = currentStep /\ AllAre(status, {"READY"}))
      PROVE  k \in Steps(rolloutCmds'[r], "R2R")
  <2>1. /\ weightVersion[r] \in Nat /\ Head(rolloutCmds[r]).step \in Nat
        /\ weightVersion[r] < Head(rolloutCmds[r]).step /\ Head(rolloutCmds[r]).step < k
    BY <1>3, <1>4, <1>5, SyncsUpTo
  <2>2. weightVersion[r] < k /\ k # Head(rolloutCmds[r]).step
    BY <2>1
  <2>3. k \in Steps(rolloutCmds[r], "R2R")
    BY <1>5, <2>2 DEF AllSent
  <2>. QED BY <1>3, <2>2, <2>3
<1>. QED BY <1>1, <1>2, <1>5 DEF LagInv, AllSent

LEMMA LagStep ==
  ASSUME IInv, EndInv, StatusInv, OrderInv, MadeInv, LagInv, [Next]_vars
  PROVE  LagInv'
<1>1. ASSUME NEW r \in Rollouts, RolloutStep(r) PROVE LagInv'
  <2>1. CASE FetchPrompts(r) \/ GenerateHeld(r) \/ Leave(r) \/ FetchEnd(r)
    BY <2>1, OtherLag DEF FetchPrompts, GenerateHeld, Leave, FetchEnd, trainVars
  <2>2. CASE FetchValidation(r)
    BY <2>2, OtherLag DEF FetchValidation, trainVars
  <2>. QED BY <1>1, <2>1, <2>2, ReportLag, SendEndSignalLag, ValidationLag DEF RolloutStep
<1>2. CASE TrainStep
  BY <1>2, OtherLag DEF TrainStep, trainVars, rolloutVars
<1>3. CASE UNCHANGED vars
  BY <1>3, OtherLag DEF vars, trainVars, rolloutVars
<1>. QED BY <1>1, <1>2, <1>3, TrainAckLag, UnicastLag, BroadcastLag DEF Next, Terminated

\* Among any n numbers in a row there is a multiple of n.
LEMMA Multiples ==
  ASSUME NEW n \in Nat \ {0}, NEW w \in Nat
  PROVE  \E k \in Nat : w < k /\ k <= w + n /\ k % n = 0 /\ (k + n) % n = 0
<1>1. PICK q \in Nat, m \in Nat : q = w \div n /\ m = w % n /\ w = n * q + m /\ m < n
  OBVIOUS
<1>2. \A x \in Nat, y \in Nat : x = n * y => x % n = 0
  OBVIOUS
<1>3. n * (q + 1) = n * q + n /\ n * (q + 2) = n * q + n + n /\ n * q \in Nat
  OBVIOUS
<1>4. (n * q + n) % n = 0
  BY <1>2, <1>3
<1>5. (n * q + n + n) % n = 0
  BY <1>2, <1>3
<1>. QED BY <1>1, <1>3, <1>4, <1>5

\* Of two syncs on their way the later one still has its unicast before it, which the policy
\* replica has not made either: it cannot be two steps further.
LEMMA LagImplies ==
  ASSUME IInv, OrderInv, MadeInv, LabelInv, LagInv
  PROVE  LagIsBounded
<1>1. SUFFICES ASSUME NoEmptyStep, NEW r \in Rollouts,
                      ~(currentStep - weightVersion[r] <= 2 * SyncInterval + 1)
               PROVE  FALSE
  BY DEF LagIsBounded
<1>2. /\ SyncInterval \in Nat \ {0} /\ currentStep \in Nat /\ weightVersion[r] \in Nat
      /\ status[LeadPolicy] \in Statuses /\ LeadRollout \in Rollouts
  BY Constants, ConstantsAssumption DEF IInv, TypeOK, ConstantsOK
<1>3. PICK k \in Nat : /\ weightVersion[r] < k /\ k <= weightVersion[r] + SyncInterval
                       /\ k % SyncInterval = 0 /\ (k + SyncInterval) % SyncInterval = 0
  BY <1>2, Multiples
<1>4. PICK l \in Nat : /\ l = k + SyncInterval /\ k < l /\ l < currentStep - 1 /\ k < currentStep
                       /\ weightVersion[r] < l /\ l < currentStep
  BY <1>1, <1>2, <1>3
<1> DEFINE queue == rolloutCmds[LeadRollout]
<1>5. StreamsMatch(policyCmds[LeadPolicy], weightVersion, rolloutCmds)
  BY DEF OrderInv
<1>6. k \in Steps(queue, "R2R") /\ l \in Steps(queue, "R2R")
  <2>1. k \in Steps(rolloutCmds[r], "R2R") /\ l \in Steps(rolloutCmds[r], "R2R")
    BY <1>1, <1>3, <1>4 DEF LagInv, AllSent
  <2>. QED BY <1>5, <2>1 DEF StreamsMatch
<1>7. PICK i \in Places(queue, "R2R"), j \in Places(queue, "R2R") : queue[i].step = k /\ queue[j].step = l
  BY <1>6 DEF Steps, Pending
<1>8. i \in Nat \ {0} /\ j \in Nat \ {0} /\ j \in 1..Len(queue) /\ queue[j].type = "R2R" /\ Len(queue) \in Nat
  <2>1. queue \in Seq(Commands)
    BY <1>2 DEF IInv, TypeOK
  <2>. QED BY <1>7, <2>1, LenProperties DEF Places
<1>9. j > 1
  <2>1. Increasing(queue, "R2R")
    BY <1>2, <1>5 DEF StreamsMatch
  <2>2. j < i => l < k
    BY <1>7, <2>1 DEF Increasing
  <2>3. i # j
    BY <1>4, <1>7
  <2>. QED BY <1>4, <1>8, <2>2, <2>3
<1>10. l \in Steps(queue, "P2R")
  <2>1. queue[j - 1].type = "P2R" /\ queue[j - 1].step = l
    BY <1>7, <1>8, <1>9 DEF LabelInv, Paired
  <2>2. j - 1 \in 1..Len(queue)
    BY <1>8, <1>9
  <2>. QED BY <2>1, <2>2 DEF Steps, Pending, Places
<1>11. PICK d \in Pending(policyCmds[LeadPolicy], "P2R") : d.step = l
  BY <1>5, <1>10 DEF StreamsMatch, Steps
<1>12. l = currentStep \/ l = currentStep - 1
  BY <1>1, <1>11 DEF MadeInv, StepInv, LeadInv
<1>. QED BY <1>2, <1>4, <1>12

LEMMA LagIsInvariant ==
  Spec => [](IInv /\ EndInv /\ StatusInv /\ OrderInv /\ MadeInv /\ LabelInv /\ LagInv)
<1>1. /\ IInv /\ EndInv /\ StatusInv /\ OrderInv /\ MadeInv /\ LabelInv /\ LagInv /\ [Next]_vars
      => LagInv'
  BY LagStep
<1>. QED BY <1>1, InitLag, LabelIsInvariant, PTL DEF Spec

\* However slow the rollout replicas are, the weights they generate with are at most two
\* sync intervals and one step older than the controller's step: the policy waits for them
\* in the unicast of a synchronisation, and they in turn for the broadcast before it.
THEOREM LagIsTwoIntervals == Spec => []LagIsBounded
BY LagIsInvariant, LagImplies, PTL

\* What is before the first broadcast in a stream has been received: its step is the least
\* of those pending, and of these none of the interval is missing.
LEMMA BroadcastAdvances ==
  ASSUME IInv, OrderInv, LagInv, RolloutBroadcast, NEW r \in Rollouts
  PROVE  /\ weightVersion[r] < weightVersion'[r]
         /\ NoEmptyStep =>
              \A k \in (weightVersion[r] + 1)..(weightVersion'[r] - 1) : k % SyncInterval # 0
<1> DEFINE new == Head(rolloutCmds[r]).step
<1>1. weightVersion'[r] = new /\ new \in Steps(rolloutCmds[r], "R2R")
  BY BroadcastSteps
<1>2. /\ currentStep \in Nat /\ weightVersion[r] \in Nat
      /\ new \in Nat /\ new <= currentStep
  BY <1>1, SyncsUpTo
<1>3. weightVersion[r] < new
  BY <1>1 DEF OrderInv, StreamsMatch
<1>4. \A x \in Steps(rolloutCmds[r], "R2R") : x \in Nat /\ new <= x
  <2>1. rolloutCmds[r] \in Seq(Commands) /\ HeadIs(rolloutCmds[r], "R2R")
    BY DEF IInv, TypeOK, RolloutBroadcast
  <2>2. Increasing(rolloutCmds[r], "R2R")
    BY DEF OrderInv, StreamsMatch
  <2>. QED BY <2>1, <2>2, HeadLeast
<1>5. ASSUME NoEmptyStep, NEW k \in (weightVersion[r] + 1)..(new - 1), k % SyncInterval = 0
      PROVE  FALSE
  <2>1. k \in Nat /\ weightVersion[r] < k /\ k < new /\ k < currentStep
    BY <1>2
  <2>2. k \in Steps(rolloutCmds[r], "R2R")
    BY <1>5, <2>1 DEF LagInv, AllSent
  <2>. QED BY <1>2, <1>4, <2>1, <2>2
<1>. QED BY <1>1, <1>3, <1>5

\* The weights of a rollout replica only ever become newer, and as long as steps are made it
\* receives each synchronisation of the interval, one after the other: it neither skips a
\* broadcast nor takes one out of order, although several may be in its stream, behind a
\* validation or a batch that it is still generating.
THEOREM VersionsNeverSkip == Spec => VersionsAdvance
<1> DEFINE advance(r) ==
      /\ weightVersion[r] < weightVersion'[r]
      /\ NoEmptyStep =>
           \A k \in (weightVersion[r] + 1)..(weightVersion'[r] - 1) : k % SyncInterval # 0
<1>1. ASSUME IInv, OrderInv, LagInv, [Next]_vars
      PROVE  \A r \in Rollouts : weightVersion'[r] # weightVersion[r] => advance(r)
  <2>1. CASE RolloutBroadcast
    BY <1>1, <2>1, BroadcastAdvances
  <2>2. CASE UNCHANGED weightVersion
    BY <2>2
  <2>3. ASSUME NEW r \in Rollouts, RolloutStep(r) PROVE UNCHANGED weightVersion
    BY <2>3 DEF RolloutStep, FetchPrompts, GenerateHeld, Leave, FetchEnd, ReportRollouts,
                SendEndSignal, FetchValidation, ReportValidation
  <2>4. ASSUME NEW p \in Policies, TrainAck(p) PROVE UNCHANGED weightVersion
    BY <2>4 DEF TrainAck, rolloutVars
  <2>5. CASE TrainStep \/ PolicyToRollout \/ UNCHANGED vars
    BY <2>5, <2>2 DEF TrainStep, PolicyToRollout, vars, rolloutVars
  <2>. QED BY <1>1, <2>1, <2>2, <2>3, <2>4, <2>5 DEF Next, Terminated
<1>2. Spec => [](IInv /\ OrderInv /\ LagInv)
  BY LagIsInvariant, PTL
<1>. QED BY <1>1, <1>2, PTL DEF Spec, VersionsAdvance
=============================================================================
