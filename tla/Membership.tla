----------------------------- MODULE Membership -----------------------------
(***************************************************************************)
(* Which replicas belong to a training run of cosmos_rl, and what their    *)
(* coming and going does to the step barrier: the controller's two status  *)
(* managers (PolicyStatusManager, RolloutStatusManager) under registration *)
(* atom by atom, dynamic scaling, unregistration by REST, and the thread   *)
(* that removes replicas without a heartbeat.                              *)
(*                                                                         *)
(* A command is the effect it has in the controller's view: the mesh last  *)
(* asked for, the weights sent to a replica, the step a policy was told to *)
(* run.  Samples are counted in units of train_batch_per_replica, start    *)
(* times are the order of arrival, and validation is off.  What a changed  *)
(* mesh does to a collective that is running is in PolicyMesh.             *)
(*                                                                         *)
(* An operator named Faulty... is a wrong form of the one after it, which  *)
(* uses it nowhere: it is there to see that a property notices the fault.  *)
(***************************************************************************)
EXTENDS Integers, FiniteSets, Functions

CONSTANTS
  Policies, Rollouts,           \* names of the replicas that may ever register
  PolicyAtoms, RolloutAtoms,    \* atoms (processes) of one replica of either role
  InitPolicies, InitRollouts,   \* n_init_replicas as configured
  Prompts,                      \* units of samples of all epochs together
  MaxNumSteps,                  \* train.max_num_steps
  SyncInterval,                 \* train.sync_weight_interval
  AllowedOutdated,              \* train_policy.allowed_outdated_steps
  MayExit, MayCrash             \* replicas that may exit on an error, or die, in the middle

Replicas == Policies \cup Rollouts
Roles    == {"policy", "rollout"}

ASSUME ConstantsAssumption ==
  /\ IsFiniteSet(Policies) /\ IsFiniteSet(Rollouts) /\ Policies \cap Rollouts = {}
  /\ {PolicyAtoms, RolloutAtoms, InitPolicies, InitRollouts, Prompts, MaxNumSteps,
      SyncInterval} \subseteq Nat \ {0}
  /\ AllowedOutdated \in Nat /\ MayExit \cup MayCrash \subseteq Replicas

VARIABLES
  \* the processes
  proc,          \* new: not started; up; done: told to stop; gone: exited or dead
  reduced,       \* policies whose gradients of the current step are all-reduced
  \* the controller's tables
  atoms,         \* registered atoms of a replica, 0 when it is in neither table
  startTime,     \* start_time: rank of arrival of complete replicas, 0 for -1
  loaded,        \* weights_loaded_in_view_of_command
  meshRanked,    \* status.mesh_rank >= 0
  status,        \* PolicyStatusManager.status, NONE for a missing key
  nInit,         \* parallelism.n_init_replicas of either role
  initDone,      \* policy_init_done, rollout_init_done
  mesh,          \* members of the last BuildMesh command of either role
  firstArrived,  \* _first_policy_replica_arrived
  monitor,       \* the thread of monitor_replica_status is running
  \* the training run
  currentStep, totalSteps, remain, pending, onTheFly,
  sentTotal,     \* total_steps in the DataFetch commands of the current step
  synced,        \* the last step whose weights were broadcast to the rollouts
  have,          \* step of the weights a policy holds once it has run its commands
  version,       \* weight version of the last broadcast to a rollout, -1 for none
  \* prompts
  promptsLeft,
  tagged,        \* weight_version_to_prompt_num
  scaled,        \* one of the two replica_scaling_logs is not empty
  held,          \* tag of the prompts a rollout holds back, -1 for none
  inFlight       \* units a rollout is generating

processVars == <<proc, reduced>>
tableVars   == <<atoms, startTime, nInit>>
meshVars    == <<meshRanked, mesh, initDone, firstArrived, totalSteps>>
stepVars    == <<currentStep, remain, pending, sentTotal>>
promptVars  == <<promptsLeft, tagged, onTheFly>>
dataVars    == <<promptVars, scaled, held, inFlight>>
weightVars  == <<loaded, have, version, synced>>
vars == <<processVars, tableVars, meshVars, stepVars, dataVars, weightVars, status, monitor>>

Statuses == {"NONE", "UNINITIALIZED", "READY", "RUNNING", "REDUCED"}
Smaller(a, b) == IF a < b THEN a ELSE b

RoleOf(r)  == IF r \in Policies THEN "policy" ELSE "rollout"
Named(role) == IF role = "policy" THEN Policies ELSE Rollouts
AtomsOf(role) == IF role = "policy" THEN PolicyAtoms ELSE RolloutAtoms

\* The table of a role, and get_all_atoms_arrived_replicas.
Registered(at, role) == {r \in Named(role) : at[r] > 0}
Complete(at, role)   == {r \in Named(role) : at[r] = AtomsOf(role)}

\* The head of a list of replicas sorted by start_time.
Earliest(started, S) == CHOOSE r \in S : \A q \in S : started[r] <= started[q]

-----------------------------------------------------------------------------
(* Meshes and steps *)

TrainingFinished == currentStep >= totalSteps /\ totalSteps > 0

FaultyRecomputed(members) ==  \* computed for the first mesh only
  IF totalSteps > 0 \/ members = {}
    THEN totalSteps
    ELSE Smaller(currentStep + remain \div Cardinality(members), MaxNumSteps)

\* recompute_total_steps for a mesh of these policies.
Recomputed(members) ==
  IF TrainingFinished \/ members = {}
    THEN totalSteps
    ELSE Smaller(currentStep + remain \div Cardinality(members), MaxNumSteps)

\* trigger_rebuild_mesh of either status manager.
RebuildMesh(role, members) ==
  /\ mesh' = [mesh EXCEPT ![role] = members]
  /\ meshRanked' = meshRanked \cup members
  /\ totalSteps' = IF role = "policy" THEN Recomputed(members) ELSE totalSteps

KeepMesh == UNCHANGED <<mesh, meshRanked, totalSteps>>

AllIn(st, wanted) == \A p \in Policies : st[p] = "NONE" \/ st[p] \in wanted

FaultyMayStart(at, st, buffered) ==  \* the buffer must hold one unit, not one per policy
  /\ Complete(at, "policy") # {}
  /\ ~TrainingFinished
  /\ AllIn(st, {"READY", "REDUCED"})
  /\ buffered >= 1

MayStart(at, st, buffered) ==
  /\ Complete(at, "policy") # {}
  /\ ~TrainingFinished
  /\ AllIn(st, {"READY", "REDUCED"})
  /\ buffered >= Cardinality(Complete(at, "policy"))

\* try_trigger_data_fetch_and_training on the statuses and the buffer its caller leaves.
TryTrigger(st, buffered) ==
  LET arrived == Complete(atoms, "policy")
      start   == MayStart(atoms, st, buffered)
  IN  /\ currentStep' = currentStep + (IF start THEN 1 ELSE 0)
      /\ remain' = remain - (IF start THEN Cardinality(arrived) ELSE 0)
      /\ pending' = buffered - (IF start THEN Cardinality(arrived) ELSE 0)
      /\ sentTotal' = IF start THEN totalSteps ELSE sentTotal
      /\ status' = [p \in Policies |-> IF start /\ p \in arrived THEN "RUNNING" ELSE st[p]]
      /\ have' = [p \in Policies |-> IF start /\ p \in arrived THEN currentStep + 1 ELSE have[p]]

-----------------------------------------------------------------------------
(* Registration *)

\* What every registered atom does first: it joins the table of its role, and as
\* long as that role is not initialised it may raise n_init_replicas.
ArriveAtom(r) ==
  LET role == RoleOf(r)
      at   == [atoms EXCEPT ![r] = @ + 1]
  IN  /\ proc[r] \in {"new", "up"}
      /\ atoms[r] < AtomsOf(role)
      /\ atoms' = at
      /\ nInit' = [nInit EXCEPT ![role] =
                     IF ~initDone[role] /\ Cardinality(Registered(at, role)) > @
                       THEN Cardinality(Registered(at, role)) ELSE @]

\* The last atom is there: start_time is set.
ArriveLast(r) ==
  /\ atoms[r] + 1 = AtomsOf(RoleOf(r))
  /\ ArriveAtom(r)
  /\ startTime' = [startTime EXCEPT ![r] = Cardinality({q \in Replicas : startTime[q] > 0}) + 1]

RegisterAtom(r) ==
  /\ atoms[r] + 1 < AtomsOf(RoleOf(r))
  /\ ArriveAtom(r)
  /\ proc' = [proc EXCEPT ![r] = "up"]
  /\ UNCHANGED <<reduced, startTime, meshVars, stepVars, dataVars, weightVars, status, monitor>>

\* A RolloutToRolloutBroadcast with the given version: nothing is sent when the source is
\* in no mesh, and only members of the mesh are sent it.  From a source that has died
\* nothing arrives, which the controller cannot see.
Receivers(source, targets, ranked) == IF source \in ranked THEN targets \cap ranked ELSE {}
Broadcast(source, receivers, step) ==
  version' = [r \in Rollouts |-> IF r \in receivers /\ proc[source] # "gone" THEN step ELSE version[r]]

FaultyFirstWeights(ldd) ==  \* the broadcast is left to the first weight sync
  /\ loaded' = ldd
  /\ UNCHANGED version

\* The first policy of the run also hands its weights to the rollouts that wait.
FirstWeights(ldd) ==
  LET arrived   == Complete(atoms, "rollout")
      lead      == Earliest(startTime, arrived)
      receivers == IF Cardinality(arrived) >= nInit["rollout"]
                     THEN Receivers(lead, arrived, meshRanked) ELSE {}
  IN  IF arrived = {}
        THEN loaded' = ldd /\ UNCHANGED version
        ELSE /\ loaded' = ldd \cup {lead} \cup receivers
             /\ Broadcast(lead, receivers, currentStep)

\* A handler that raises: the client's retries fail as well and its process exits.
Refused(r) == proc' = [proc EXCEPT ![r] = "gone"]
Admitted(r) == proc' = [proc EXCEPT ![r] = "up"]

FaultyWeightSource(valid) ==  \* the latest replica, which may be the one that has just come
  CHOOSE p \in valid : \A q \in valid : startTime'[q] <= startTime'[p]

WeightSource(valid) == Earliest(startTime', valid \cap loaded)

\* PolicyStatusManager.register for the last atom of a policy.  The first policy that
\* is alone loads the weights; a later one that finds itself alone is refused.
RegisterFirstPolicy(p) ==
  LET valid == Complete(atoms', "policy")
  IN  /\ ArriveLast(p)
      /\ valid = {p}
      /\ \/ /\ firstArrived
            /\ Refused(p)
            /\ status' = [status EXCEPT ![p] = "UNINITIALIZED"]
            /\ KeepMesh
            /\ UNCHANGED <<firstArrived, initDone, weightVars>>
         \/ /\ ~firstArrived
            /\ firstArrived' = TRUE
            /\ Admitted(p)
            /\ FirstWeights(loaded \cup {p})
            /\ have' = [have EXCEPT ![p] = currentStep]
            /\ IF nInit'["policy"] <= 1
                 THEN /\ initDone' = [initDone EXCEPT !["policy"] = TRUE]
                      /\ RebuildMesh("policy", valid)
                      /\ status' = [status EXCEPT ![p] = "READY"]
                 ELSE /\ KeepMesh
                      /\ status' = [status EXCEPT ![p] = "UNINITIALIZED"]
                      /\ UNCHANGED initDone
            /\ UNCHANGED synced
      /\ UNCHANGED <<reduced, stepVars, dataVars, monitor>>

\* A policy that is not alone: it waits with the others, completes the initial group,
\* or joins a group that is running (post_register_hook).
RegisterPolicy(p) ==
  LET valid == Complete(atoms', "policy")
      source == WeightSource(valid)
  IN  /\ ArriveLast(p)
      /\ valid # {p}
      /\ \/ /\ ~initDone["policy"] /\ Cardinality(valid) < nInit'["policy"]
            /\ Admitted(p)
            /\ status' = [status EXCEPT ![p] = "UNINITIALIZED"]
            /\ KeepMesh
            /\ UNCHANGED <<initDone, loaded, have>>
         \/ /\ ~initDone["policy"] /\ Cardinality(valid) >= nInit'["policy"]
            /\ valid \cap loaded # {}
            /\ Admitted(p)
            /\ initDone' = [initDone EXCEPT !["policy"] = TRUE]
            /\ RebuildMesh("policy", valid)
            /\ loaded' = loaded \cup valid
            /\ have' = [q \in Policies |-> IF q \in valid THEN have[source] ELSE have[q]]
            /\ status' = [q \in Policies |-> IF q \in valid THEN "READY" ELSE status[q]]
         \/ /\ initDone["policy"] \/ Cardinality(valid) >= nInit'["policy"]
            /\ valid \cap loaded = {}
            /\ Refused(p)
            /\ initDone' = [initDone EXCEPT !["policy"] = TRUE]
            /\ IF initDone["policy"] THEN KeepMesh ELSE RebuildMesh("policy", valid)
            /\ status' = [status EXCEPT ![p] = "UNINITIALIZED"]
            /\ UNCHANGED <<loaded, have>>
         \/ /\ initDone["policy"] /\ valid \cap loaded # {}
            /\ Admitted(p)
            /\ RebuildMesh("policy", valid)
            /\ loaded' = loaded \cup {p}
            /\ have' = [have EXCEPT ![p] = have[source]]
            /\ status' = [status EXCEPT ![p] = "READY"]
            /\ UNCHANGED initDone
      /\ UNCHANGED <<firstArrived, version, synced, reduced, stepVars, dataVars, monitor>>

\* RolloutStatusManager.register for the last atom of a rollout.  It is sent weights
\* when no rollout has any; the mesh is built once the initial group is there, which is
\* also the only time a registration broadcasts, and again for each later replica.
RegisterRollout(r) ==
  LET valid == Complete(atoms', "rollout")
      lacking == valid \cap loaded = {}
      sources == Registered(atoms, "policy") \cap loaded
      ldd == IF lacking /\ sources # {} THEN loaded \cup {r} ELSE loaded
      lead == Earliest(startTime', valid \cap ldd)
      first == ~initDone["rollout"] /\ Cardinality(valid) = nInit'["rollout"]
      receivers == IF first /\ valid \cap ldd # {} THEN valid ELSE {}
  IN  /\ ArriveLast(r)
      /\ Admitted(r)
      /\ initDone' = [initDone EXCEPT !["rollout"] = @ \/ first]
      /\ IF first \/ initDone["rollout"] THEN RebuildMesh("rollout", valid) ELSE KeepMesh
      /\ loaded' = ldd \cup receivers
      /\ Broadcast(lead, receivers, currentStep)
      /\ UNCHANGED <<firstArrived, have, synced, status, reduced, stepVars, dataVars, monitor>>

-----------------------------------------------------------------------------
(* Unregistration *)

FaultyUnregister(r) ==  \* the mesh is rebuilt from the table before the replica leaves it
  LET role == RoleOf(r)
      left == Complete(atoms, role)
  IN  /\ atoms' = [atoms EXCEPT ![r] = 0]
      /\ status' = IF r \in Policies THEN [status EXCEPT ![r] = "NONE"] ELSE status
      /\ reduced' = reduced \ {r}
      /\ IF TrainingFinished \/ r \notin meshRanked \/ left = {}
           THEN KeepMesh
           ELSE RebuildMesh(role, left)
      /\ scaled' = TRUE
      /\ UNCHANGED <<startTime, nInit, initDone, firstArrived, stepVars, promptVars, weightVars>>

\* unregister of either status manager.  Nothing here looks at the barrier again.
Unregister(r) ==
  LET role == RoleOf(r)
      at   == [atoms EXCEPT ![r] = 0]
      left == IF role = "policy" THEN Complete(at, role) ELSE Registered(at, role)
  IN  /\ atoms' = at
      /\ status' = IF r \in Policies THEN [status EXCEPT ![r] = "NONE"] ELSE status
      /\ reduced' = reduced \ {r}
      /\ IF TrainingFinished \/ r \notin meshRanked \/ left = {}
           THEN KeepMesh
           ELSE RebuildMesh(role, Complete(at, role))
      /\ scaled' = TRUE
      /\ UNCHANGED <<startTime, nInit, initDone, firstArrived, stepVars, promptVars, weightVars>>

\* What a rollout holds or generates is lost with it.
Lose(r) ==
  /\ inFlight' = [q \in Rollouts |-> IF q = r THEN 0 ELSE inFlight[q]]
  /\ held' = [q \in Rollouts |-> IF q = r THEN -1 ELSE held[q]]

\* A replica that has been told to stop unregisters and exits.
Leave(r) ==
  /\ proc[r] = "done" /\ atoms[r] > 0
  /\ Unregister(r)
  /\ proc' = [proc EXCEPT ![r] = "gone"]
  /\ Lose(r)
  /\ UNCHANGED monitor

\* A replica exits on an error: atexit runs unregister_from_controller.
Exit(r) ==
  /\ r \in MayExit /\ proc[r] = "up" /\ atoms[r] = AtomsOf(RoleOf(r))
  /\ Unregister(r)
  /\ proc' = [proc EXCEPT ![r] = "gone"]
  /\ Lose(r)
  /\ UNCHANGED monitor

\* A replica dies without a word, possibly before all its atoms have registered.
Crash(r) ==
  /\ r \in MayCrash /\ proc[r] = "up"
  /\ proc' = [proc EXCEPT ![r] = "gone"]
  /\ Lose(r)
  /\ UNCHANGED <<reduced, tableVars, meshVars, stepVars, promptVars, scaled, weightVars, status,
                 monitor>>

\* No heartbeat for COSMOS_HEARTBEAT_TIMEOUT seconds.
Stale(r) == atoms[r] > 0 /\ proc[r] = "gone"

\* maintain_life_status for one dead replica.  A policy that never was complete has no
\* status to pop: the KeyError ends the thread, after the replica has left the table.
MonitorRemove(r) ==
  /\ monitor
  /\ Stale(r)
  /\ \/ /\ r \in Policies => status[r] # "NONE"
        /\ Unregister(r)
        /\ UNCHANGED monitor
     \/ /\ r \in Policies /\ status[r] = "NONE"
        /\ atoms' = [atoms EXCEPT ![r] = 0]
        /\ monitor' = FALSE
        /\ UNCHANGED <<startTime, nInit, meshVars, stepVars, promptVars, scaled, weightVars, status,
                       reduced>>
  /\ UNCHANGED <<proc, held, inFlight>>

-----------------------------------------------------------------------------
(* The training run: prompts, samples, steps and acknowledgements *)

\* Controller.get_batched_prompt for one unit of samples: nothing while as many samples
\* are on the fly as may be outdated.  Prompts are tagged with the step they are for; once
\* a replica has been unregistered all of them are tagged 0.
PerStep == Cardinality(Registered(atoms, "policy"))

Throttled == onTheFly >= (AllowedOutdated + 1) * PerStep

NextTag ==
  CHOOSE v \in DOMAIN tagged :
    /\ v >= currentStep + pending \div PerStep /\ tagged[v] < PerStep
    /\ \A u \in (currentStep + pending \div PerStep)..(v - 1) : tagged[u] >= PerStep

FaultyAllowed(r, tag) == tag < version[r] + AllowedOutdated

Allowed(r, tag) == tag <= version[r] + AllowedOutdated

\* A rollout that has weights and holds nothing back fetches, and generates at once if
\* its weights are recent enough.
Fetch(r) ==
  /\ proc[r] = "up" /\ version[r] >= 0 /\ held[r] = -1
  /\ promptsLeft > 0 /\ PerStep > 0 /\ ~Throttled
  /\ promptsLeft' = promptsLeft - 1
  /\ onTheFly' = onTheFly + 1
  /\ LET tag == IF scaled THEN 0 ELSE NextTag
     IN  /\ tagged' = IF scaled THEN tagged ELSE [tagged EXCEPT ![tag] = @ + 1]
         /\ IF Allowed(r, tag)
              THEN inFlight' = [inFlight EXCEPT ![r] = @ + 1] /\ UNCHANGED held
              ELSE held' = [held EXCEPT ![r] = tag] /\ UNCHANGED inFlight
  /\ UNCHANGED <<processVars, tableVars, meshVars, stepVars, weightVars, scaled, status, monitor>>

\* The prompts held back are generated once the weights allow it.
GenerateHeld(r) ==
  /\ proc[r] = "up" /\ held[r] >= 0 /\ Allowed(r, held[r])
  /\ held' = [held EXCEPT ![r] = -1]
  /\ inFlight' = [inFlight EXCEPT ![r] = @ + 1]
  /\ UNCHANGED <<processVars, tableVars, meshVars, stepVars, promptVars, weightVars, scaled, status,
                 monitor>>

\* put_rollouts for one unit of samples.
Report(r) ==
  /\ proc[r] \in {"up", "done"} /\ inFlight[r] > 0
  /\ inFlight' = [inFlight EXCEPT ![r] = @ - 1]
  /\ TryTrigger(status, pending + 1)
  /\ UNCHANGED <<processVars, tableVars, meshVars, loaded, version, synced, promptVars, scaled, held,
                 monitor>>

\* The policies that run the step all-reduce their gradients, which takes all of them.
AllReduce ==
  LET running == {p \in Policies : status[p] = "RUNNING"}
  IN  /\ running # {} /\ running \cap reduced = {}
      /\ \A p \in running : proc[p] = "up"
      /\ reduced' = running
      /\ UNCHANGED <<proc, tableVars, meshVars, stepVars, dataVars, weightVars, status, monitor>>

\* trigger_weight_sync: the earliest rollout is sent the weights, the others get them
\* from it.  A broadcast of the last step tells its receivers to stop.
SyncLead == Earliest(startTime, Complete(atoms, "rollout"))
SyncReceivers ==
  LET arrived == Complete(atoms, "rollout")
  IN  IF arrived = {} THEN {} ELSE Receivers(SyncLead, arrived, meshRanked)
SyncTargets ==
  IF Complete(atoms, "rollout") = {} THEN {} ELSE SyncReceivers \cup {SyncLead}

NeedsSync == currentStep % SyncInterval = 0 \/ currentStep = sentTotal

FaultyBarrier(st) == \E p \in Policies : st[p] = "REDUCED"

Barrier(st) == AllIn(st, {"REDUCED"})

\* train_ack: the last acknowledgement of a step sends the weights and may start the
\* next step.  A policy that has run the last step stops.
Ack(p) ==
  LET st   == [status EXCEPT ![p] = "REDUCED"]
      sync == Barrier(st) /\ NeedsSync
      last == currentStep >= sentTotal
      stop == (IF last THEN {p} ELSE {}) \cup
              (IF sync /\ last THEN SyncReceivers ELSE {})
  IN  /\ p \in reduced /\ proc[p] = "up" /\ atoms[p] > 0
      /\ reduced' = reduced \ {p}
      /\ proc' = [r \in Replicas |-> IF r \in stop /\ proc[r] = "up" THEN "done" ELSE proc[r]]
      /\ loaded' = IF sync THEN loaded \cup SyncTargets ELSE loaded
      /\ synced' = IF sync THEN currentStep ELSE synced
      /\ IF sync THEN Broadcast(SyncLead, SyncReceivers, currentStep) ELSE UNCHANGED version
      /\ IF Barrier(st)
           THEN /\ onTheFly' = onTheFly - Cardinality(Complete(atoms, "policy"))
                /\ TryTrigger([q \in Policies |-> IF st[q] = "NONE" THEN "NONE" ELSE "READY"], pending)
           ELSE /\ status' = st
                /\ UNCHANGED <<onTheFly, stepVars, have>>
      /\ UNCHANGED <<tableVars, meshVars, promptsLeft, tagged, scaled, held, inFlight, monitor>>

-----------------------------------------------------------------------------

Init ==
  /\ proc = [r \in Replicas |-> "new"]
  /\ reduced = {}
  /\ atoms = [r \in Replicas |-> 0]
  /\ startTime = [r \in Replicas |-> 0]
  /\ loaded = {} /\ meshRanked = {}
  /\ status = [p \in Policies |-> "NONE"]
  /\ nInit = [role \in Roles |-> IF role = "policy" THEN InitPolicies ELSE InitRollouts]
  /\ initDone = [role \in Roles |-> FALSE]
  /\ mesh = [role \in Roles |-> {}]
  /\ firstArrived = FALSE
  /\ monitor = TRUE
  /\ currentStep = 0 /\ totalSteps = 0 /\ sentTotal = 0 /\ synced = 0
  /\ remain = Prompts /\ pending = 0 /\ onTheFly = 0
  /\ have = [p \in Policies |-> -1]
  /\ version = [r \in Rollouts |-> -1]
  /\ promptsLeft = Prompts /\ tagged = [v \in 0..(Prompts + MaxNumSteps) |-> 0]
  /\ scaled = FALSE
  /\ held = [r \in Rollouts |-> -1]
  /\ inFlight = [r \in Rollouts |-> 0]

Register(r) ==
  \/ RegisterAtom(r)
  \/ r \in Policies /\ (RegisterFirstPolicy(r) \/ RegisterPolicy(r))
  \/ r \in Rollouts /\ RegisterRollout(r)

Next ==
  \/ \E r \in Replicas :
       Register(r) \/ Leave(r) \/ Exit(r) \/ Crash(r) \/ MonitorRemove(r)
  \/ \E r \in Rollouts : Fetch(r) \/ GenerateHeld(r) \/ Report(r)
  \/ \E p \in Policies : Ack(p)
  \/ AllReduce

Spec == Init /\ [][Next]_vars

\* Every replica is launched, the workers go on with what they have to do and the
\* monitor keeps scanning; nothing obliges a replica to fail.
Fairness ==
  /\ \A r \in Replicas : WF_vars(Register(r)) /\ WF_vars(Leave(r)) /\ WF_vars(MonitorRemove(r))
  /\ \A r \in Rollouts : WF_vars(Fetch(r)) /\ WF_vars(GenerateHeld(r)) /\ WF_vars(Report(r))
  /\ \A p \in Policies : WF_vars(Ack(p))
  /\ WF_vars(AllReduce)

FairSpec == Spec /\ Fairness

-----------------------------------------------------------------------------
(* Properties *)

TypeOK ==
  /\ proc \in [Replicas -> {"new", "up", "done", "gone"}]
  /\ reduced \subseteq Policies
  /\ atoms \in [Replicas -> Nat] /\ \A r \in Replicas : atoms[r] <= AtomsOf(RoleOf(r))
  /\ startTime \in [Replicas -> Nat]
  /\ loaded \subseteq Replicas /\ meshRanked \subseteq Replicas
  /\ status \in [Policies -> Statuses]
  /\ nInit \in [Roles -> Nat] /\ initDone \in [Roles -> BOOLEAN]
  /\ mesh \in [Roles -> SUBSET Replicas]
  /\ {firstArrived, monitor, scaled} \subseteq BOOLEAN
  /\ {currentStep, totalSteps, sentTotal, synced, promptsLeft} \subseteq Nat
  /\ {remain, pending, onTheFly} \subseteq Nat
  /\ have \in [Policies -> Nat \cup {-1}] /\ version \in [Rollouts -> Nat \cup {-1}]
  /\ held \in [Rollouts -> Nat \cup {-1}] /\ inFlight \in [Rollouts -> Nat]
  /\ tagged \in [0..(Prompts + MaxNumSteps) -> Nat]

\* The mesh the controller last asked for is the group that works: while the run goes
\* on every policy with a step to run, and every complete rollout once the rollouts are
\* initialised, is in it, and no replica that has left the table is, unless its whole
\* role has left.
MeshIsCurrent ==
  /\ \A p \in Policies : status[p] \in {"READY", "RUNNING", "REDUCED"} => p \in mesh["policy"]
  /\ initDone["rollout"] /\ ~TrainingFinished => Complete(atoms, "rollout") \subseteq mesh["rollout"]
  /\ \A role \in Roles :
       ~TrainingFinished /\ Complete(atoms, role) \cap meshRanked # {}
         => mesh[role] \subseteq Complete(atoms, role)

\* Policies that train together hold the same weights: a newcomer has been sent those of
\* the step the others have finished or are running, never older ones and never none.
PoliciesAgree ==
  \A p \in Policies :
    status[p] \in {"READY", "RUNNING", "REDUCED"} => p \in loaded /\ have[p] = currentStep

\* The steps that are promised can be fed: for every step left in total_steps there is
\* one unit of remaining samples for each policy of the mesh.
TotalIsReachable ==
  totalSteps > currentStep => remain >= (totalSteps - currentStep) * Cardinality(mesh["policy"])

\* samples_on_the_fly is at least what is being generated, waits in the buffer or is
\* trained on, so that the subtraction in train_ack cannot fail its assertion.
OnTheFlyCovers ==
  onTheFly >= SumFunction(inFlight) + Cardinality({r \in Rollouts : held[r] >= 0}) + pending
                + Cardinality({p \in Policies : status[p] \in {"RUNNING", "REDUCED"}})

Lost == {r \in Replicas : proc[r] = "gone"}

\* In whatever order the first replicas of both roles arrive, once the rollouts are
\* initialised and a policy has weights some rollout has been sent them and may generate,
\* as long as no rollout has been lost.
RolloutsAreServed ==
  /\ ~TrainingFinished /\ initDone["rollout"] /\ Complete(atoms, "policy") \cap loaded # {}
  /\ Rollouts \cap Lost = {}
  => \E r \in Complete(atoms, "rollout") : version[r] >= 0

\* The weights of a step go to the rollouts when every policy still in the table has
\* finished it and said so: none is in a step that has been broadcast.
SyncWaitsForAll ==
  synced = currentStep /\ currentStep > 0
    => reduced = {} /\ \A p \in Policies : status[p] # "RUNNING"

\* The policies with a step behind or before them train in lock-step, whoever registers,
\* dies or is removed in the meantime: see BulkSynchronous.
Active == {p \in Policies : status[p] \in {"READY", "RUNNING", "REDUCED"}}
Lockstep == INSTANCE BulkSynchronous WITH
  Workers <- Policies, step <- currentStep, group <- Active,
  busy <- {p \in Policies : status[p] = "RUNNING"}, published <- synced,
  weights <- [p \in Policies |-> IF p \in Active THEN have[p] ELSE -1]
TrainsInLockstep == Lockstep!Spec

\* The run has come to its last step, has told the policies that it is the last, and
\* has sent its weights.
Done == TrainingFinished /\ currentStep = sentTotal /\ synced = currentStep

\* When the policies have all arrived before the first prompt is taken and no replica is lost before
\* the end, the run comes to its end, whatever the order of arrival and whenever further
\* rollouts join.
Undisturbed ==
  /\ currentStep + onTheFly > 0 => \A p \in Policies : atoms[p] = PolicyAtoms
  /\ ~TrainingFinished => Lost = {}
RunCompletes == []Undisturbed => <>Done
=============================================================================
