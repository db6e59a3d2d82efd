-------------------------- MODULE Membership_proofs --------------------------
(***************************************************************************)
(* The meshes, the weights and the step barrier of the controller under    *)
(* registration and removal, for any number of replicas of either role,    *)
(* the lock-step that the policies keep (BulkSynchronous), the samples on  *)
(* the fly, and the first weights of the rollouts.                         *)
(***************************************************************************)
EXTENDS Membership, SumTheorems

\* The variables that the properties proved here are about.
MembersTyped ==
  /\ proc \in [Replicas -> {"new", "up", "done", "gone"}]
  /\ atoms \in [Replicas -> Nat] /\ \A r \in Replicas : atoms[r] <= AtomsOf(RoleOf(r))
  /\ startTime \in [Replicas -> Nat]
  /\ loaded \subseteq Replicas /\ meshRanked \subseteq Replicas /\ reduced \subseteq Policies
  /\ status \in [Policies -> Statuses]
  /\ initDone \in [Roles -> BOOLEAN] /\ mesh \in [Roles -> SUBSET Replicas]
  /\ currentStep \in Nat /\ synced \in Nat /\ totalSteps \in Int /\ remain \in Int
  /\ have \in [Policies -> Int]

Whole(r) == atoms[r] = AtomsOf(RoleOf(r))

\* How the controller's tables fit together.  A replica that once was in a mesh or was
\* sent weights is whole, or it has gone and cannot come back.
TablesAgree ==
  /\ \A p \in Active : Whole(p)
  /\ \A p \in Policies : Whole(p) => status[p] # "NONE"
  /\ \A role \in Roles : mesh[role] \subseteq meshRanked
  /\ \A r \in meshRanked \cup loaded : Whole(r) \/ proc[r] = "gone"
  /\ ~initDone["policy"] => Active = {}
  /\ \A p \in reduced : status[p] = "RUNNING"
  /\ synced <= currentStep

\* Whoever may hand its weights to a newcomer has those of the current step.
WeightsAgree ==
  /\ Active \subseteq loaded
  /\ \A p \in Policies \cap loaded : Whole(p) => have[p] = currentStep

\* The inductive invariant.
MembersInv ==
  /\ MembersTyped /\ TablesAgree /\ WeightsAgree
  /\ MeshIsCurrent /\ SyncWaitsForAll /\ TotalIsReachable

-----------------------------------------------------------------------------
(* The operators the model is built from *)

\* A list of replicas that is not empty has a first one.
LEMMA EarliestIn ==
  ASSUME NEW started \in [Replicas -> Nat], NEW S \in SUBSET Replicas, S # {}
  PROVE  Earliest(started, S) \in S
<1> DEFINE T == {started[r] : r \in S}
<1>1. T \subseteq Nat /\ T # {}
  OBVIOUS
<1>2. PICK x \in T : \A y \in T : ~ (<<y, x>> \in OpToRel(<, Nat))
  <2> HIDE DEF T
  <2>. QED  BY <1>1, NatLessThanWellFounded, WFMin
<1>3. \A y \in T : x <= y
  <2> SUFFICES ASSUME NEW y \in T PROVE x <= y
    OBVIOUS
  <2>1. ~ (<<y, x>> \in OpToRel(<, Nat))
    BY <1>2
  <2>2. x \in Nat /\ y \in Nat
    BY <1>1
  <2>3. ~ (y < x)
    BY <2>1, <2>2 DEF OpToRel
  <2>. QED  BY <2>2, <2>3
<1>4. \E r \in S : \A q \in S : started[r] <= started[q]
  BY <1>3
<1>. QED  BY <1>4 DEF Earliest

\* Whole steps out of what remains.
LEMMA QuotientFits ==
  ASSUME NEW a \in Int, NEW n \in Nat \ {0}, NEW k \in Int, k <= a \div n
  PROVE  k * n <= a
OBVIOUS

\* One step less for everybody.
LEMMA OneStepLess ==
  ASSUME NEW k \in Int, NEW n \in Nat, NEW a \in Int, a >= k * n
  PROVE  a - n >= (k - 1) * n
OBVIOUS

LEMMA FiniteReplicas ==
  /\ IsFiniteSet(Replicas)
  /\ \A S \in SUBSET Replicas :
       IsFiniteSet(S) /\ Cardinality(S) \in Nat /\ (Cardinality(S) = 0 <=> S = {})
<1>1. IsFiniteSet(Replicas)
  BY ConstantsAssumption, FS_Union DEF ConstantsAssumption, Replicas
<1>. QED  BY <1>1, FS_Subset, FS_CardinalityType, FS_EmptySet

\* A mesh of these policies is promised no step that cannot be fed.
LEMMA RecomputedFits ==
  ASSUME MembersTyped, NEW members \in SUBSET Replicas, members # {}
  PROVE  /\ Recomputed(members) \in Int
         /\ TrainingFinished => Recomputed(members) = totalSteps
         /\ Recomputed(members) > currentStep
              => remain >= (Recomputed(members) - currentStep) * Cardinality(members)
<1> DEFINE n == Cardinality(members)
           q == remain \div n
<1>1. n \in Nat \ {0} /\ remain \in Int /\ currentStep \in Nat /\ totalSteps \in Int
  BY FiniteReplicas DEF MembersTyped
<1>2. q \in Int /\ MaxNumSteps \in Nat
  BY <1>1, ConstantsAssumption DEF ConstantsAssumption
<1>3. CASE TrainingFinished
  BY <1>1, <1>3 DEF TrainingFinished, Recomputed
<1>4. CASE ~TrainingFinished
  <2> DEFINE t == Recomputed(members)
  <2>1. t = Smaller(currentStep + q, MaxNumSteps)
    BY <1>4 DEF Recomputed
  <2> HIDE DEF q, t
  <2>2. t \in Int /\ t - currentStep \in Int /\ t - currentStep <= q
    BY <1>1, <1>2, <2>1 DEF Smaller
  <2>3. (t - currentStep) * n <= remain
    BY <1>1, <2>2, QuotientFits DEF q
  <2>4. t \in Int /\ (t > currentStep => remain >= (t - currentStep) * n)
    <3>1. (t - currentStep) * n \in Int
      BY <1>1, <2>2
    <3>. QED  BY <1>1, <2>2, <2>3, <3>1
  <2>. QED  BY <1>4, <2>4 DEF t
<1>. QED  BY <1>3, <1>4

\* Which table a replica is in.
LEMMA RoleFacts ==
  /\ \A p \in Policies : p \in Replicas /\ RoleOf(p) = "policy" /\ p \notin Rollouts
  /\ \A r \in Rollouts : r \in Replicas /\ RoleOf(r) = "rollout" /\ r \notin Policies
  /\ Named("policy") = Policies /\ Named("rollout") = Rollouts
  /\ AtomsOf("policy") \in Nat \ {0} /\ AtomsOf("rollout") \in Nat \ {0}
BY ConstantsAssumption DEF ConstantsAssumption, Replicas, RoleOf, Named, AtomsOf

\* The last atom of a replica that has not been whole: it joins its table.
LEMMA ArriveLastEffect ==
  ASSUME MembersInv, NEW r \in Replicas, ArriveLast(r)
  PROVE  /\ atoms' \in [Replicas -> Nat] /\ \A q \in Replicas : atoms'[q] <= AtomsOf(RoleOf(q))
         /\ startTime' \in [Replicas -> Nat]
         /\ proc[r] \in {"new", "up"} /\ ~Whole(r) /\ Whole(r)'
         /\ r \notin meshRanked \cup loaded \cup Active
         /\ \A q \in Replicas : q # r => (Whole(q)' <=> Whole(q))
         /\ Complete(atoms', RoleOf(r)) = Complete(atoms, RoleOf(r)) \cup {r}
         /\ \A role \in Roles : role # RoleOf(r) => Complete(atoms', role) = Complete(atoms, role)
<1> USE DEF MembersInv, MembersTyped
<1>1. /\ atoms' = [atoms EXCEPT ![r] = @ + 1] /\ atoms[r] + 1 = AtomsOf(RoleOf(r))
      /\ proc[r] \in {"new", "up"}
  BY DEF ArriveLast, ArriveAtom
<1>2. /\ atoms' \in [Replicas -> Nat] /\ \A q \in Replicas : atoms'[q] <= AtomsOf(RoleOf(q))
      /\ ~Whole(r) /\ Whole(r)' /\ \A q \in Replicas : q # r => atoms'[q] = atoms[q]
  BY <1>1 DEF Whole
<1>3. startTime' \in [Replicas -> Nat]
  <2>1. Cardinality({q \in Replicas : startTime[q] > 0}) \in Nat
    BY FiniteReplicas
  <2>. QED  BY <2>1 DEF ArriveLast
<1>4. r \notin meshRanked \cup loaded \cup Active
  BY <1>1, <1>2, RoleFacts DEF TablesAgree, WeightsAgree
<1>5. \A q \in Replicas : q # r => (Whole(q)' <=> Whole(q))
  BY <1>2 DEF Whole
<1>6. Complete(atoms', RoleOf(r)) = Complete(atoms, RoleOf(r)) \cup {r}
  BY <1>1, <1>2, RoleFacts DEF Complete, Whole, Named, RoleOf, Replicas
<1>7. \A role \in Roles : role # RoleOf(r) => Complete(atoms', role) = Complete(atoms, role)
  BY <1>2, RoleFacts DEF Complete, Named, RoleOf, Roles
<1>. QED  BY <1>1, <1>2, <1>3, <1>4, <1>5, <1>6, <1>7

\* Either nothing starts, or every whole policy does.
LEMMA TryTriggerSplit ==
  ASSUME MembersTyped, NEW st \in [Policies -> Statuses], NEW buffered, TryTrigger(st, buffered)
  PROVE  \/ UNCHANGED <<currentStep, remain, have>> /\ status' = st
         \/ /\ AllIn(st, {"READY", "REDUCED"}) /\ ~TrainingFinished
            /\ Complete(atoms, "policy") # {}
            /\ currentStep' = currentStep + 1
            /\ remain' = remain - Cardinality(Complete(atoms, "policy"))
            /\ status' = [p \in Policies |-> IF p \in Complete(atoms, "policy")
                                               THEN "RUNNING" ELSE st[p]]
            /\ have' = [p \in Policies |-> IF p \in Complete(atoms, "policy")
                                             THEN currentStep + 1 ELSE have[p]]
<1> DEFINE start == MayStart(atoms, st, buffered)
<1>1. CASE start
  BY <1>1 DEF TryTrigger, MayStart, MembersTyped
<1>2. CASE ~start
  <2>1. status' = [p \in Policies |-> st[p]] /\ have' = [p \in Policies |-> have[p]]
    BY <1>2 DEF TryTrigger
  <2>2. currentStep' = currentStep + 0 /\ remain' = remain - 0
    BY <1>2 DEF TryTrigger
  <2>. QED  BY <2>1, <2>2 DEF MembersTyped
<1>. QED  BY <1>1, <1>2

\* Once the training has finished it stays so.
LEMMA FinishedStays ==
  ASSUME TrainingFinished, totalSteps' = totalSteps, currentStep' = currentStep
  PROVE  TrainingFinished'
BY DEF TrainingFinished

\* What training started now is trained by: the mesh is the group of the whole policies.
LEMMA GroupIsMesh ==
  ASSUME MembersInv, ~TrainingFinished, Complete(atoms, "policy") # {},
         Complete(atoms, "policy") \subseteq Active
  PROVE  mesh["policy"] = Complete(atoms, "policy") /\ Active = Complete(atoms, "policy")
<1>1. Active \subseteq Complete(atoms, "policy")
  BY RoleFacts DEF MembersInv, TablesAgree, Active, Whole, Complete
<1>2. Active \subseteq mesh["policy"]
  BY DEF MembersInv, MeshIsCurrent, Active
<1>3. mesh["policy"] \subseteq Complete(atoms, "policy")
  BY <1>2 DEF MembersInv, TablesAgree, MeshIsCurrent, Roles
<1>. QED  BY <1>1, <1>2, <1>3

\* The mesh that was asked for last is the whole of one role.
LEMMA RebuildEffect ==
  ASSUME MembersTyped, NEW role \in Roles, NEW members \in SUBSET Replicas,
         role = "policy" => members # {}, RebuildMesh(role, members), UNCHANGED <<currentStep, remain>>
  PROVE  /\ mesh' = [mesh EXCEPT ![role] = members] /\ mesh' \in [Roles -> SUBSET Replicas]
         /\ meshRanked' = meshRanked \cup members /\ meshRanked' \subseteq Replicas
         /\ totalSteps' \in Int
         /\ TrainingFinished => TrainingFinished'
         /\ role # "policy" => totalSteps' = totalSteps
         /\ role = "policy" /\ totalSteps' > currentStep
              => remain >= (totalSteps' - currentStep) * Cardinality(members)
<1>1. totalSteps' = IF role = "policy" THEN Recomputed(members) ELSE totalSteps
  BY DEF RebuildMesh
<1>2. TrainingFinished => totalSteps' = totalSteps
  BY <1>1, RecomputedFits
<1>. QED  BY <1>1, <1>2, RecomputedFits, FinishedStays DEF RebuildMesh, MembersTyped

LEMMA CompleteIsWhole ==
  \A role \in Roles :
    /\ Complete(atoms, role) = {r \in Named(role) : Whole(r)}
    /\ Complete(atoms', role) = {r \in Named(role) : Whole(r)'}
BY RoleFacts DEF Complete, Whole, Named, Roles

-----------------------------------------------------------------------------
(* One lemma for each kind of step *)

\* Steps that leave the tables alone: what a worker does on its own, and an atom that is
\* not the last of its replica.
LEMMA QuietStep ==
  ASSUME MembersInv, MembersTyped', \A r \in Replicas : Whole(r)' <=> Whole(r),
         \A r \in Replicas : proc[r] = "gone" => proc'[r] = "gone",
         UNCHANGED <<loaded, meshRanked, reduced, status, initDone, mesh, currentStep,
                     synced, totalSteps, remain, have>>
  PROVE  MembersInv'
<1> USE DEF MembersInv
<1>1. \A role \in Roles : Complete(atoms', role) = Complete(atoms, role)
  <2>1. Named("policy") \subseteq Replicas /\ Named("rollout") \subseteq Replicas
    BY RoleFacts
  <2>. QED  BY <2>1, CompleteIsWhole DEF Roles
<1>2. TrainingFinished' <=> TrainingFinished
  BY DEF TrainingFinished
<1>3. TablesAgree'
  <2>1. \A p \in Policies : p \in Replicas
    BY RoleFacts
  <2>2. Active \subseteq Policies /\ Active' = Active
    BY DEF Active
  <2>. QED  BY <2>1, <2>2 DEF TablesAgree, MembersTyped
<1>4. WeightsAgree'
  <2>1. \A p \in Policies : p \in Replicas
    BY RoleFacts
  <2>. QED  BY <2>1 DEF WeightsAgree, Active
<1>5. MeshIsCurrent'
  BY <1>1, <1>2 DEF MeshIsCurrent, Roles
<1>6. SyncWaitsForAll' /\ TotalIsReachable'
  BY DEF SyncWaitsForAll, TotalIsReachable
<1>. QED  BY <1>3, <1>4, <1>5, <1>6

LEMMA RegisterAtomStep ==
  ASSUME MembersInv, NEW r \in Replicas, RegisterAtom(r)
  PROVE  MembersInv'
<1>1. /\ atoms' = [atoms EXCEPT ![r] = @ + 1] /\ atoms[r] + 1 < AtomsOf(RoleOf(r))
      /\ proc' = [proc EXCEPT ![r] = "up"] /\ proc[r] \in {"new", "up"}
      /\ UNCHANGED <<startTime, loaded, meshRanked, reduced, status, initDone, mesh,
                     currentStep, synced, totalSteps, remain, have>>
  BY DEF RegisterAtom, ArriveAtom, meshVars, stepVars, weightVars
<1>2. MembersTyped'
  BY <1>1, RoleFacts DEF MembersInv, MembersTyped, RoleOf
<1>3. \A q \in Replicas : (Whole(q)' <=> Whole(q)) /\ (proc[q] = "gone" => proc'[q] = "gone")
  BY <1>1, RoleFacts DEF MembersInv, MembersTyped, Whole, RoleOf
<1>. QED  BY <1>1, <1>2, <1>3, QuietStep

LEMMA WorkerStep ==
  ASSUME MembersInv, NEW r \in Replicas,
         Crash(r) \/ (r \in Rollouts /\ (Fetch(r) \/ GenerateHeld(r)))
  PROVE  MembersInv'
<1>1. /\ UNCHANGED <<atoms, startTime, loaded, meshRanked, reduced, status, initDone, mesh,
                     currentStep, synced, totalSteps, remain, have>>
      /\ proc' = proc \/ proc' = [proc EXCEPT ![r] = "gone"]
  BY DEF Crash, Fetch, GenerateHeld, processVars, tableVars, meshVars, stepVars, weightVars
<1>2. MembersTyped'
  BY <1>1 DEF MembersInv, MembersTyped
<1>3. \A q \in Replicas : (Whole(q)' <=> Whole(q)) /\ (proc[q] = "gone" => proc'[q] = "gone")
  BY <1>1 DEF MembersInv, MembersTyped, Whole
<1>. QED  BY <1>1, <1>2, <1>3, QuietStep

LEMMA AllReduceStep ==
  ASSUME MembersInv, AllReduce
  PROVE  MembersInv'
<1> USE DEF MembersInv
<1>1. /\ UNCHANGED <<proc, atoms, startTime, loaded, meshRanked, status, initDone, mesh,
                     currentStep, synced, totalSteps, remain, have>>
      /\ reduced' = {p \in Policies : status[p] = "RUNNING"} /\ reduced' # {}
  BY DEF AllReduce, tableVars, meshVars, stepVars, weightVars
<1>2. MembersTyped'
  BY <1>1 DEF MembersTyped
<1>3. TablesAgree' /\ WeightsAgree'
  BY <1>1 DEF TablesAgree, WeightsAgree, Active, Whole
<1>4. MeshIsCurrent' /\ TotalIsReachable'
  BY <1>1 DEF MeshIsCurrent, TotalIsReachable, TrainingFinished
<1>5. SyncWaitsForAll'
  BY <1>1 DEF SyncWaitsForAll
<1>. QED  BY <1>2, <1>3, <1>4, <1>5

\* The removal of a replica whose process has gone, or goes with it.
LEMMA UnregisterStep ==
  ASSUME MembersInv, NEW r \in Replicas, Unregister(r),
         proc' \in [Replicas -> {"new", "up", "done", "gone"}], proc'[r] = "gone",
         \A q \in Replicas : proc[q] = "gone" => proc'[q] = "gone"
  PROVE  MembersInv'
<1> USE DEF MembersInv
<1> DEFINE role == RoleOf(r)
           rebuilt == ~TrainingFinished /\ r \in meshRanked /\ Complete(atoms', role) # {}
<1>1. /\ atoms' = [atoms EXCEPT ![r] = 0]
      /\ status' = IF r \in Policies THEN [status EXCEPT ![r] = "NONE"] ELSE status
      /\ reduced' = reduced \ {r}
      /\ UNCHANGED <<startTime, initDone, currentStep, remain, loaded, have, synced>>
  BY DEF Unregister, stepVars, weightVars
<1>2. \/ KeepMesh /\ (TrainingFinished \/ r \notin meshRanked \/ Complete(atoms', role) = {})
      \/ RebuildMesh(role, Complete(atoms', role)) /\ (role = "policy" => Complete(atoms', role) # {})
  <2>1. RoleOf(r) # "policy" /\ Registered(atoms', role) = {} => Complete(atoms', role) = {}
    BY RoleFacts DEF Registered, Complete, RoleOf, Named
  <2>. QED  BY <1>1, <2>1 DEF Unregister
<1>3. /\ ~Whole(r)' /\ \A q \in Replicas : q # r => (Whole(q)' <=> Whole(q))
      /\ atoms' \in [Replicas -> Nat] /\ \A q \in Replicas : atoms'[q] <= AtomsOf(RoleOf(q))
      /\ role \in Roles
  BY <1>1, RoleFacts DEF MembersTyped, Whole, RoleOf, Roles
<1>4. /\ Complete(atoms', role) = Complete(atoms, role) \ {r}
      /\ \A other \in Roles : other # role => Complete(atoms', other) = Complete(atoms, other)
      /\ Complete(atoms', role) \subseteq Replicas
  <2>1. \A other \in Roles : other # role => r \notin Named(other)
    BY RoleFacts DEF Roles, RoleOf, Named
  <2>2. \A other \in Roles : Named(other) \subseteq Replicas
    BY RoleFacts DEF Roles
  <2>. QED  BY <1>3, <2>1, <2>2, CompleteIsWhole
<1>5. /\ mesh' \in [Roles -> SUBSET Replicas] /\ meshRanked' \subseteq Replicas /\ totalSteps' \in Int
      /\ TrainingFinished => TrainingFinished'
      /\ meshRanked \subseteq meshRanked' /\ meshRanked' \subseteq meshRanked \cup Complete(atoms', role)
      /\ \A other \in Roles : other # role => mesh'[other] = mesh[other]
      /\ (mesh' = mesh /\ meshRanked' = meshRanked /\ totalSteps' = totalSteps
            /\ (TrainingFinished \/ r \notin meshRanked \/ Complete(atoms', role) = {}))
         \/ (mesh'[role] = Complete(atoms', role) /\ mesh'[role] \subseteq meshRanked')
  <2> DEFINE left == Complete(atoms', role)
  <2>1. CASE KeepMesh /\ (TrainingFinished \/ r \notin meshRanked \/ left = {})
    BY <1>1, <2>1, FinishedStays DEF KeepMesh, MembersTyped
  <2>2. CASE RebuildMesh(role, left) /\ (role = "policy" => left # {})
    <3>1. left \in SUBSET Replicas /\ role \in Roles
      BY <1>3, <1>4
    <3> HIDE DEF left, role
    <3>2. /\ mesh' = [mesh EXCEPT ![role] = left] /\ mesh' \in [Roles -> SUBSET Replicas]
          /\ meshRanked' = meshRanked \cup left /\ meshRanked' \subseteq Replicas
          /\ totalSteps' \in Int /\ (TrainingFinished => TrainingFinished')
      BY <1>1, <2>2, <3>1, RebuildEffect
    <3>. QED  BY <3>1, <3>2 DEF MembersTyped, left
  <2>. QED  BY <1>2, <2>1, <2>2
<1>6. Active' = Active \ {r}
  BY <1>1 DEF Active, MembersTyped
<1>7. MembersTyped'
  BY <1>1, <1>3, <1>5 DEF MembersTyped, Statuses
<1>8. TablesAgree'
  <2>1. \A p \in Active' : Whole(p)'
    BY <1>3, <1>6, RoleFacts DEF TablesAgree, Active
  <2>2. \A p \in Policies : Whole(p)' => status'[p] # "NONE"
    BY <1>1, <1>3, RoleFacts DEF TablesAgree, MembersTyped
  <2>3. \A other \in Roles : mesh'[other] \subseteq meshRanked'
    BY <1>5 DEF TablesAgree
  <2>4. \A q \in meshRanked' \cup loaded' : Whole(q)' \/ proc'[q] = "gone"
    <3>1. \A q \in Complete(atoms', role) : q \in Replicas /\ Whole(q)'
      BY <1>3, <1>4, CompleteIsWhole
    <3>2. \A q \in meshRanked \cup loaded : q \in Replicas /\ (Whole(q) \/ proc[q] = "gone")
      BY DEF TablesAgree, MembersTyped
    <3>. QED  BY <1>1, <1>3, <1>5, <3>1, <3>2
  <2>5. ~initDone'["policy"] => Active' = {}
    BY <1>1, <1>6 DEF TablesAgree
  <2>6. \A p \in reduced' : status'[p] = "RUNNING"
    BY <1>1 DEF TablesAgree, MembersTyped
  <2>. QED  BY <1>1, <2>1, <2>2, <2>3, <2>4, <2>5, <2>6 DEF TablesAgree
<1>9. WeightsAgree'
  BY <1>1, <1>3, <1>6, RoleFacts DEF WeightsAgree
<1>10. MeshIsCurrent'
  <2>1. \A p \in Policies : status'[p] \in {"READY", "RUNNING", "REDUCED"} => p \in mesh'["policy"]
    <3> SUFFICES ASSUME NEW p \in Policies, p \in Active' PROVE p \in mesh'["policy"]
      BY DEF Active
    <3>1. p # r /\ p \in Active /\ Whole(p) /\ p \in Replicas /\ RoleOf(p) = "policy"
      BY <1>6, RoleFacts DEF TablesAgree
    <3>2. p \in mesh["policy"]
      BY <3>1 DEF MeshIsCurrent, Active
    <3>3. role = "policy" => p \in Complete(atoms', role)
      BY <1>3, <3>1, RoleFacts, CompleteIsWhole
    <3>. QED  BY <1>5, <3>2, <3>3 DEF Roles
  <2>2. initDone'["rollout"] /\ ~TrainingFinished' => Complete(atoms', "rollout") \subseteq mesh'["rollout"]
    BY <1>1, <1>4, <1>5 DEF MeshIsCurrent, Roles
  <2>3. ASSUME NEW other \in Roles, ~TrainingFinished', Complete(atoms', other) \cap meshRanked' # {}
        PROVE  mesh'[other] \subseteq Complete(atoms', other)
    <3>1. CASE other = role /\ mesh'[role] = Complete(atoms', role)
      BY <3>1
    <3>2. CASE other = role /\ mesh' = mesh /\ meshRanked' = meshRanked /\ r \notin meshRanked
      <4>1. Complete(atoms, other) \cap meshRanked # {}
        BY <1>4, <2>3, <3>2
      <4>2. mesh[other] \subseteq Complete(atoms, other) /\ r \notin mesh[other]
        BY <1>5, <2>3, <3>2, <4>1 DEF MeshIsCurrent, TablesAgree
      <4>. QED  BY <1>4, <3>2, <4>2
    <3>3. CASE other # role
      <4>1. Complete(atoms, role) \cap Complete(atoms, other) = {}
        BY <1>3, <3>3, RoleFacts, CompleteIsWhole DEF Roles
      <4>2. Complete(atoms, other) \cap meshRanked # {}
        BY <1>4, <1>5, <2>3, <3>3, <4>1
      <4>. QED  BY <1>4, <1>5, <2>3, <3>3, <4>2 DEF MeshIsCurrent
    <3>. QED  BY <1>5, <2>3, <3>1, <3>2, <3>3
  <2>. QED  BY <2>1, <2>2, <2>3 DEF MeshIsCurrent
<1>11. SyncWaitsForAll'
  BY <1>1 DEF SyncWaitsForAll, MembersTyped
<1>12. TotalIsReachable'
  <2>1. CASE mesh' = mesh /\ totalSteps' = totalSteps
    BY <1>1, <2>1 DEF TotalIsReachable
  <2>2. CASE RebuildMesh(role, Complete(atoms', role)) /\ (role = "policy" => Complete(atoms', role) # {})
    <3>1. CASE role = "policy"
      <4> DEFINE left == Complete(atoms', role)
      <4>1. left \in SUBSET Replicas /\ role \in Roles /\ left # {} /\ RebuildMesh(role, left)
        BY <1>3, <1>4, <2>2, <3>1
      <4> HIDE DEF left, role
      <4>2. /\ mesh' = [mesh EXCEPT ![role] = left]
            /\ totalSteps' > currentStep => remain >= (totalSteps' - currentStep) * Cardinality(left)
        BY <1>1, <3>1, <4>1, RebuildEffect
      <4>3. mesh'["policy"] = left
        BY <3>1, <4>1, <4>2 DEF MembersTyped
      <4>. QED  BY <1>1, <4>2, <4>3 DEF TotalIsReachable
    <3>2. CASE role # "policy"
      <4>1. totalSteps' = totalSteps /\ mesh'["policy"] = mesh["policy"]
        BY <1>1, <1>3, <1>4, <1>5, <2>2, <3>2, RebuildEffect DEF Roles
      <4>. QED  BY <1>1, <4>1 DEF TotalIsReachable
    <3>. QED  BY <3>1, <3>2
  <2>. QED  BY <1>2, <2>1, <2>2 DEF KeepMesh
<1>. QED  BY <1>7, <1>8, <1>9, <1>10, <1>11, <1>12

LEMMA RemovalStep ==
  ASSUME MembersInv, NEW r \in Replicas, Leave(r) \/ Exit(r) \/ MonitorRemove(r)
  PROVE  MembersInv'
<1>1. CASE Unregister(r) /\ (proc' = [proc EXCEPT ![r] = "gone"] \/ (proc' = proc /\ proc[r] = "gone"))
  BY <1>1, UnregisterStep DEF MembersInv, MembersTyped
<1>2. CASE /\ r \in Policies /\ status[r] = "NONE" /\ atoms' = [atoms EXCEPT ![r] = 0]
           /\ UNCHANGED <<proc, startTime, loaded, meshRanked, reduced, status, initDone, mesh,
                          currentStep, synced, totalSteps, remain, have>>
  <2>1. MembersTyped'
    BY <1>2, RoleFacts DEF MembersInv, MembersTyped, RoleOf
  <2>2. \A q \in Replicas : Whole(q)' <=> Whole(q)
    BY <1>2, RoleFacts DEF MembersInv, MembersTyped, TablesAgree, Whole
  <2>. QED  BY <1>2, <2>1, <2>2, QuietStep
<1>. QED
  BY <1>1, <1>2 DEF Leave, Exit, MonitorRemove, Stale, meshVars, stepVars, weightVars

\* The meshes after the arrival of a replica, whether or not it leads to a new one.
LEMMA ArrivalMesh ==
  ASSUME MembersInv, NEW r \in Replicas, ArriveLast(r), UNCHANGED <<currentStep, remain>>,
         KeepMesh \/ RebuildMesh(RoleOf(r), Complete(atoms', RoleOf(r)))
  PROVE  /\ mesh' \in [Roles -> SUBSET Replicas] /\ meshRanked' \subseteq Replicas
         /\ totalSteps' \in Int /\ (TrainingFinished => TrainingFinished')
         /\ \A role \in Roles : mesh'[role] \subseteq meshRanked'
         /\ \A q \in meshRanked' : q \in meshRanked \/ (q \in Replicas /\ Whole(q)')
         /\ \A role \in Roles : role # RoleOf(r) => mesh'[role] = mesh[role]
         /\ mesh'[RoleOf(r)] = Complete(atoms', RoleOf(r)) \/ mesh'[RoleOf(r)] = mesh[RoleOf(r)]
         /\ RebuildMesh(RoleOf(r), Complete(atoms', RoleOf(r)))
              => mesh'[RoleOf(r)] = Complete(atoms', RoleOf(r))
         /\ \A role \in Roles :
              ~TrainingFinished' /\ Complete(atoms', role) \cap meshRanked' # {}
                => mesh'[role] \subseteq Complete(atoms', role)
         /\ TotalIsReachable'
<1> USE DEF MembersInv
<1> DEFINE role == RoleOf(r)
           all == Complete(atoms', role)
<1>1. /\ role \in Roles /\ all = Complete(atoms, role) \cup {r} /\ r \notin meshRanked
      /\ \A other \in Roles : other # role => Complete(atoms', other) = Complete(atoms, other)
  BY ArriveLastEffect DEF RoleOf, Roles
<1>2. /\ all \in SUBSET Replicas /\ all # {} /\ \A q \in all : q \in Replicas /\ Whole(q)'
      /\ \A other \in Roles : other # role => all \cap Complete(atoms', other) = {}
  <2>1. Named(role) \subseteq Replicas /\ \A other \in Roles : other # role => Named(role) \cap Named(other) = {}
    BY <1>1, RoleFacts DEF Roles
  <2>. QED  BY <1>1, <2>1, CompleteIsWhole
<1> HIDE DEF role, all
<1>3. CASE KeepMesh
  <2>1. ASSUME NEW other \in Roles, ~TrainingFinished', Complete(atoms', other) \cap meshRanked' # {}
        PROVE  mesh'[other] \subseteq Complete(atoms', other)
    <3>1. ~TrainingFinished /\ mesh' = mesh /\ meshRanked' = meshRanked
      BY <1>3, <2>1 DEF KeepMesh, TrainingFinished
    <3>2. Complete(atoms, other) \cap meshRanked # {}
      BY <1>1, <2>1, <3>1 DEF all
    <3>3. mesh[other] \subseteq Complete(atoms, other)
      BY <3>1, <3>2 DEF MeshIsCurrent
    <3>. QED  BY <1>1, <3>1, <3>3 DEF all
  <2>2. TotalIsReachable'
    BY <1>3 DEF KeepMesh, TotalIsReachable
  <2>3. RebuildMesh(role, all) => mesh'[role] = all
    BY <1>1 DEF RebuildMesh, MembersTyped
  <2>. QED
    BY <1>1, <1>3, <2>1, <2>2, <2>3, FinishedStays
    DEF KeepMesh, MembersTyped, TablesAgree, role, all
<1>4. CASE RebuildMesh(role, all)
  <2>1. /\ mesh' = [mesh EXCEPT ![role] = all] /\ mesh' \in [Roles -> SUBSET Replicas]
        /\ meshRanked' = meshRanked \cup all /\ meshRanked' \subseteq Replicas
        /\ totalSteps' \in Int /\ (TrainingFinished => TrainingFinished')
        /\ role # "policy" => totalSteps' = totalSteps
        /\ role = "policy" /\ totalSteps' > currentStep
             => remain >= (totalSteps' - currentStep) * Cardinality(all)
    BY <1>1, <1>2, <1>4, RebuildEffect
  <2>2. mesh'[role] = all /\ \A other \in Roles : other # role => mesh'[other] = mesh[other]
    BY <1>1, <2>1 DEF MembersTyped
  <2>3. ASSUME NEW other \in Roles, ~TrainingFinished', Complete(atoms', other) \cap meshRanked' # {}
        PROVE  mesh'[other] \subseteq Complete(atoms', other)
    <3>1. CASE other = role
      BY <2>2, <3>1 DEF all
    <3>2. CASE other # role
      BY <1>1, <1>2, <2>1, <2>2, <2>3, <3>2 DEF MeshIsCurrent
    <3>. QED  BY <3>1, <3>2
  <2>4. TotalIsReachable'
    <3>1. CASE role = "policy"
      BY <2>1, <2>2, <3>1 DEF TotalIsReachable
    <3>2. CASE role # "policy"
      BY <2>1, <2>2, <3>2 DEF TotalIsReachable, Roles
    <3>. QED  BY <3>1, <3>2
  <2>5. \A other \in Roles : mesh'[other] \subseteq meshRanked'
    BY <2>1, <2>2 DEF TablesAgree
  <2>. QED  BY <1>2, <2>1, <2>2, <2>3, <2>4, <2>5 DEF role, all
<1>. QED  BY <1>3, <1>4 DEF role, all

LEMMA RegisterRolloutStep ==
  ASSUME MembersInv, NEW r \in Rollouts, RegisterRollout(r)
  PROVE  MembersInv'
<1> USE DEF MembersInv
<1> DEFINE valid == Complete(atoms', "rollout")
<1>1. /\ r \in Replicas /\ RoleOf(r) = "rollout" /\ r \notin Policies
      /\ ArriveLast(r) /\ proc' = [proc EXCEPT ![r] = "up"]
      /\ UNCHANGED <<have, synced, status, reduced, currentStep, remain>>
  BY RoleFacts DEF RegisterRollout, Admitted, stepVars
<1>2. /\ KeepMesh \/ RebuildMesh("rollout", valid)
      /\ initDone' \in [Roles -> BOOLEAN] /\ initDone'["policy"] = initDone["policy"]
      /\ initDone'["rollout"] => RebuildMesh("rollout", valid)
      /\ loaded \subseteq loaded' /\ loaded' \subseteq loaded \cup {r} \cup valid
  BY DEF RegisterRollout, MembersTyped, Roles
<1>3. /\ atoms' \in [Replicas -> Nat] /\ \A q \in Replicas : atoms'[q] <= AtomsOf(RoleOf(q))
      /\ startTime' \in [Replicas -> Nat] /\ proc[r] \in {"new", "up"} /\ Whole(r)'
      /\ \A q \in Replicas : q # r => (Whole(q)' <=> Whole(q))
      /\ valid = Complete(atoms, "rollout") \cup {r} /\ valid \subseteq Rollouts
      /\ \A q \in valid : Whole(q)'
  BY <1>1, ArriveLastEffect, RoleFacts, CompleteIsWhole DEF Roles
<1>4. /\ mesh' \in [Roles -> SUBSET Replicas] /\ meshRanked' \subseteq Replicas
      /\ totalSteps' \in Int /\ (TrainingFinished => TrainingFinished')
      /\ \A role \in Roles : mesh'[role] \subseteq meshRanked'
      /\ \A q \in meshRanked' : q \in meshRanked \/ (q \in Replicas /\ Whole(q)')
      /\ mesh'["policy"] = mesh["policy"]
      /\ RebuildMesh("rollout", valid) => mesh'["rollout"] = valid
      /\ \A role \in Roles :
           ~TrainingFinished' /\ Complete(atoms', role) \cap meshRanked' # {}
             => mesh'[role] \subseteq Complete(atoms', role)
      /\ TotalIsReachable'
  BY <1>1, <1>2, ArrivalMesh DEF Roles
<1>5. Active' = Active
  BY <1>1 DEF Active
<1>6. MembersTyped'
  <2>1. \A q \in Rollouts : q \in Replicas
    BY RoleFacts
  <2>. QED  BY <1>1, <1>2, <1>3, <1>4, <2>1 DEF MembersTyped
<1>7. TablesAgree'
  <2>1. /\ \A p \in Active' : Whole(p)'
        /\ \A p \in Policies : Whole(p)' => status'[p] # "NONE"
    BY <1>1, <1>3, <1>5, RoleFacts DEF TablesAgree, Active
  <2>2. \A q \in meshRanked' \cup loaded' : Whole(q)' \/ proc'[q] = "gone"
    BY <1>1, <1>2, <1>3, <1>4 DEF TablesAgree, MembersTyped
  <2>. QED  BY <1>1, <1>2, <1>4, <1>5, <2>1, <2>2 DEF TablesAgree
<1>8. WeightsAgree'
  BY <1>1, <1>2, <1>3, <1>5, RoleFacts DEF WeightsAgree
<1>9. MeshIsCurrent'
  BY <1>1, <1>2, <1>4 DEF MeshIsCurrent
<1>10. SyncWaitsForAll'
  BY <1>1 DEF SyncWaitsForAll
<1>. QED  BY <1>4, <1>6, <1>7, <1>8, <1>9, <1>10

\* What every arrival of a policy has in common.
LEMMA PolicyArrival ==
  ASSUME MembersInv, NEW p \in Policies, ArriveLast(p),
         UNCHANGED <<currentStep, remain, synced, reduced>>,
         proc' = [proc EXCEPT ![p] = "up"] \/ proc' = [proc EXCEPT ![p] = "gone"],
         KeepMesh \/ RebuildMesh("policy", Complete(atoms', "policy")),
         status' \in [Policies -> Statuses], status'[p] # "NONE",
         \A q \in Policies : /\ status[q] # "NONE" => status'[q] # "NONE"
                             /\ status'[q] = "RUNNING" <=> status[q] = "RUNNING",
         Active' \subseteq Complete(atoms', "policy"),
         Active' = Active \/ RebuildMesh("policy", Complete(atoms', "policy")),
         initDone' \in [Roles -> BOOLEAN], initDone'["rollout"] = initDone["rollout"],
         Active' # {} => initDone'["policy"],
         loaded' \subseteq Replicas, \A q \in loaded' : q \in loaded \/ Whole(q)',
         have' \in [Policies -> Int], WeightsAgree'
  PROVE  MembersInv'
<1> USE DEF MembersInv
<1> DEFINE valid == Complete(atoms', "policy")
<1>1. /\ p \in Replicas /\ RoleOf(p) = "policy" /\ valid \subseteq Policies
      /\ \A q \in valid : Whole(q)'
      /\ atoms' \in [Replicas -> Nat] /\ \A q \in Replicas : atoms'[q] <= AtomsOf(RoleOf(q))
      /\ startTime' \in [Replicas -> Nat] /\ proc[p] \in {"new", "up"} /\ Whole(p)'
      /\ \A q \in Replicas : q # p => (Whole(q)' <=> Whole(q))
      /\ Complete(atoms', "rollout") = Complete(atoms, "rollout")
  BY ArriveLastEffect, RoleFacts, CompleteIsWhole DEF Roles
<1>2. /\ mesh' \in [Roles -> SUBSET Replicas] /\ meshRanked' \subseteq Replicas
      /\ totalSteps' \in Int /\ (TrainingFinished => TrainingFinished')
      /\ \A role \in Roles : mesh'[role] \subseteq meshRanked'
      /\ \A q \in meshRanked' : q \in meshRanked \/ (q \in Replicas /\ Whole(q)')
      /\ mesh'["rollout"] = mesh["rollout"]
      /\ mesh'["policy"] = valid \/ mesh'["policy"] = mesh["policy"]
      /\ RebuildMesh("policy", valid) => mesh'["policy"] = valid
      /\ \A role \in Roles :
           ~TrainingFinished' /\ Complete(atoms', role) \cap meshRanked' # {}
             => mesh'[role] \subseteq Complete(atoms', role)
      /\ TotalIsReachable'
  BY <1>1, ArrivalMesh DEF Roles
<1>3. MembersTyped'
  BY <1>1, <1>2 DEF MembersTyped
<1>4. TablesAgree'
  <2>1. \A q \in Active' : Whole(q)'
    BY <1>1
  <2>2. \A q \in Policies : Whole(q)' => status'[q] # "NONE"
    BY <1>1, RoleFacts DEF TablesAgree
  <2>3. \A q \in meshRanked' \cup loaded' : Whole(q)' \/ proc'[q] = "gone"
    BY <1>1, <1>2 DEF TablesAgree, MembersTyped
  <2>4. \A q \in reduced' : status'[q] = "RUNNING"
    BY DEF TablesAgree, MembersTyped
  <2>. QED  BY <1>2, <2>1, <2>2, <2>3, <2>4 DEF TablesAgree
<1>5. MeshIsCurrent'
  <2>1. \A q \in Active' : q \in mesh'["policy"]
    <3> SUFFICES ASSUME NEW q \in Active' PROVE q \in mesh'["policy"]
      OBVIOUS
    <3>1. CASE RebuildMesh("policy", valid)
      BY <1>2, <3>1
    <3>2. CASE Active' = Active
      BY <1>2, <3>2 DEF MeshIsCurrent, Active
    <3>. QED  BY <3>1, <3>2
  <2>2. initDone'["rollout"] /\ ~TrainingFinished' => Complete(atoms', "rollout") \subseteq mesh'["rollout"]
    BY <1>1, <1>2 DEF MeshIsCurrent
  <2>. QED  BY <1>2, <2>1, <2>2 DEF MeshIsCurrent, Active
<1>6. SyncWaitsForAll'
  BY DEF SyncWaitsForAll
<1>. QED  BY <1>2, <1>3, <1>4, <1>5, <1>6

\* The first policy hands its weights to whole rollouts only.
LEMMA FirstWeightsEffect ==
  ASSUME MembersTyped, NEW ldd \in SUBSET Replicas, FirstWeights(ldd)
  PROVE  ldd \subseteq loaded' /\ loaded' \subseteq ldd \cup Complete(atoms, "rollout")
<1> DEFINE arrived == Complete(atoms, "rollout")
<1>1. arrived \subseteq Replicas
  BY RoleFacts DEF Complete
<1>2. arrived # {} => Earliest(startTime, arrived) \in arrived
  BY <1>1, EarliestIn DEF MembersTyped
<1>. QED  BY <1>2 DEF FirstWeights, Receivers

LEMMA RegisterFirstPolicyStep ==
  ASSUME MembersInv, NEW p \in Policies, RegisterFirstPolicy(p)
  PROVE  MembersInv'
<1> USE DEF MembersInv
<1> DEFINE valid == Complete(atoms', "policy")
<1>1. /\ p \in Replicas /\ RoleOf(p) = "policy" /\ ArriveLast(p) /\ valid = {p}
      /\ UNCHANGED <<currentStep, remain, synced, reduced>>
  BY RoleFacts DEF RegisterFirstPolicy, stepVars, weightVars
<1>2. /\ p \notin Active \cup loaded /\ Whole(p)'
      /\ \A q \in Replicas : q # p => (Whole(q)' <=> Whole(q))
      /\ Complete(atoms, "policy") = {} /\ Active = {}
  <2>1. /\ p \notin Active \cup loaded /\ ~Whole(p) /\ Whole(p)'
        /\ \A q \in Replicas : q # p => (Whole(q)' <=> Whole(q))
        /\ valid = Complete(atoms, "policy") \cup {p}
    BY <1>1, ArriveLastEffect
  <2>2. Complete(atoms, "policy") = {}
    BY <1>1, <2>1, CompleteIsWhole DEF Roles
  <2>3. Active = {}
    BY <2>2, RoleFacts, CompleteIsWhole DEF TablesAgree, Active, Roles
  <2>. QED  BY <2>1, <2>2, <2>3
<1>3. \A q \in Policies : q # p => ~Whole(q)'
  BY <1>1, RoleFacts, CompleteIsWhole DEF Roles
<1>4. CASE firstArrived
  <2>1. /\ proc' = [proc EXCEPT ![p] = "gone"] /\ status' = [status EXCEPT ![p] = "UNINITIALIZED"]
        /\ KeepMesh /\ UNCHANGED <<initDone, loaded, have>>
    BY <1>4 DEF RegisterFirstPolicy, Refused, weightVars
  <2>2. Active' = Active
    BY <1>2, <2>1 DEF Active, MembersTyped
  <2>3. WeightsAgree'
    BY <1>1, <1>2, <2>1, <2>2, RoleFacts DEF WeightsAgree
  <2>4. /\ status' \in [Policies -> Statuses] /\ status'[p] # "NONE"
        /\ status'[p] # "RUNNING" /\ status[p] # "RUNNING"
        /\ \A q \in Policies : q # p => status'[q] = status[q]
    BY <1>2, <2>1 DEF Active, MembersTyped, Statuses
  <2>5. /\ Active' = {} /\ initDone' \in [Roles -> BOOLEAN]
        /\ loaded' \subseteq Replicas /\ have' \in [Policies -> Int]
    BY <1>2, <2>1, <2>2 DEF MembersTyped
  <2>. QED
    BY <1>1, <1>2, <2>1, <2>2, <2>3, <2>4, <2>5, PolicyArrival
<1>5. CASE ~firstArrived
  <2>1. /\ proc' = [proc EXCEPT ![p] = "up"] /\ have' = [have EXCEPT ![p] = currentStep]
        /\ FirstWeights(loaded \cup {p})
        /\ \/ /\ initDone' = [initDone EXCEPT !["policy"] = TRUE]
              /\ RebuildMesh("policy", valid) /\ status' = [status EXCEPT ![p] = "READY"]
           \/ /\ initDone' = initDone /\ KeepMesh
              /\ status' = [status EXCEPT ![p] = "UNINITIALIZED"]
    BY <1>5 DEF RegisterFirstPolicy, Admitted
  <2>2. /\ loaded \cup {p} \subseteq loaded'
        /\ loaded' \subseteq loaded \cup {p} \cup Complete(atoms, "rollout")
    BY <1>1, <2>1, FirstWeightsEffect DEF MembersTyped
  <2>3. \A q \in Complete(atoms, "rollout") : q \in Rollouts /\ q # p /\ q \in Replicas /\ Whole(q)'
    BY <1>2, RoleFacts, CompleteIsWhole DEF Roles
  <2>4. Active' \subseteq {p} /\ (status'[p] # "READY" => Active' = Active)
        /\ status' \in [Policies -> Statuses] /\ status'[p] # "NONE"
        /\ status'[p] # "RUNNING" /\ status[p] # "RUNNING"
        /\ \A q \in Policies : q # p => status'[q] = status[q]
    BY <1>2, <2>1 DEF Active, MembersTyped, Statuses
  <2>5. WeightsAgree'
    BY <1>1, <1>2, <1>3, <2>1, <2>2, <2>4, RoleFacts DEF WeightsAgree, MembersTyped
  <2>6. /\ initDone' \in [Roles -> BOOLEAN] /\ initDone'["rollout"] = initDone["rollout"]
        /\ Active' # {} => initDone'["policy"]
        /\ Active' = Active \/ RebuildMesh("policy", valid)
    BY <1>2, <2>1, <2>4 DEF MembersTyped, Roles
  <2>7. have' \in [Policies -> Int] /\ loaded' \subseteq Replicas /\ \A q \in loaded' : q \in loaded \/ Whole(q)'
    BY <1>1, <1>2, <2>1, <2>2, <2>3 DEF MembersTyped
  <2>8. /\ KeepMesh \/ RebuildMesh("policy", valid)
        /\ proc' = [proc EXCEPT ![p] = "up"] \/ proc' = [proc EXCEPT ![p] = "gone"]
        /\ Active' \subseteq valid
    BY <1>1, <2>1, <2>4
  <2>9. \A q \in Policies : /\ status[q] # "NONE" => status'[q] # "NONE"
                            /\ status'[q] = "RUNNING" <=> status[q] = "RUNNING"
    BY <2>4
  <2> HIDE DEF valid, MembersInv
  <2>. QED
    BY <1>1, <2>4, <2>5, <2>6, <2>7, <2>8, <2>9, PolicyArrival DEF valid
<1>. QED  BY <1>4, <1>5

LEMMA RegisterPolicyStep ==
  ASSUME MembersInv, NEW p \in Policies, RegisterPolicy(p)
  PROVE  MembersInv'
<1> USE DEF MembersInv
<1> DEFINE valid == Complete(atoms', "policy")
           source == WeightSource(valid)
<1>1. /\ p \in Replicas /\ RoleOf(p) = "policy" /\ ArriveLast(p)
      /\ UNCHANGED <<currentStep, remain, synced, reduced>>
  BY RoleFacts DEF RegisterPolicy, stepVars, weightVars
<1>2. /\ p \notin Active \cup loaded /\ ~Whole(p) /\ Whole(p)' /\ p \in valid
      /\ valid \subseteq Policies /\ valid \subseteq Replicas /\ \A q \in valid : Whole(q)'
      /\ \A q \in Replicas : q # p => (Whole(q)' <=> Whole(q))
      /\ Active \subseteq valid /\ startTime' \in [Replicas -> Nat]
  <2>1. /\ p \notin Active \cup loaded /\ ~Whole(p) /\ Whole(p)' /\ startTime' \in [Replicas -> Nat]
        /\ \A q \in Replicas : q # p => (Whole(q)' <=> Whole(q))
        /\ valid = Complete(atoms, "policy") \cup {p}
    BY <1>1, ArriveLastEffect
  <2>2. valid \subseteq Policies /\ valid \subseteq Replicas /\ \A q \in valid : Whole(q)'
    BY RoleFacts, CompleteIsWhole DEF Roles
  <2>3. Active \subseteq Complete(atoms, "policy")
    BY RoleFacts, CompleteIsWhole DEF TablesAgree, Active, Roles
  <2>. QED  BY <2>1, <2>2, <2>3
<1>3. valid \cap loaded # {} =>
        source \in valid /\ source \in loaded /\ source \in Policies /\ have[source] = currentStep
  <2>1. valid \cap loaded # {} => source \in valid \cap loaded
    BY <1>2, EarliestIn DEF WeightSource
  <2>2. \A q \in valid \cap loaded : q \in Policies /\ Whole(q) /\ have[q] = currentStep
    BY <1>2, RoleFacts DEF WeightsAgree
  <2>. QED  BY <2>1, <2>2
<1>4. \A q \in Policies : Whole(q)' => q = p \/ Whole(q)
  BY <1>2, RoleFacts
<1> HIDE DEF source, valid
\* The replica waits for the others.
<1>5. CASE /\ ~initDone["policy"] /\ proc' = [proc EXCEPT ![p] = "up"]
           /\ status' = [status EXCEPT ![p] = "UNINITIALIZED"]
           /\ KeepMesh /\ UNCHANGED <<initDone, loaded, have>>
  <2>1. Active' = Active /\ Active = {}
    BY <1>2, <1>5 DEF Active, MembersTyped, TablesAgree
  <2>2. WeightsAgree'
    BY <1>1, <1>2, <1>4, <1>5, <2>1 DEF WeightsAgree
  <2>3. /\ status' \in [Policies -> Statuses] /\ status'[p] # "NONE"
        /\ \A q \in Policies : /\ status[q] # "NONE" => status'[q] # "NONE"
                               /\ status'[q] = "RUNNING" <=> status[q] = "RUNNING"
    BY <1>2, <1>5 DEF MembersTyped, Statuses, Active
  <2>4. initDone' \in [Roles -> BOOLEAN] /\ loaded' \subseteq Replicas /\ have' \in [Policies -> Int]
    BY <1>5 DEF MembersTyped
  <2>. QED
    BY <1>1, <1>5, <2>1, <2>2, <2>3, <2>4, PolicyArrival
\* It completes the initial group.
<1>6. CASE /\ ~initDone["policy"] /\ valid \cap loaded # {} /\ proc' = [proc EXCEPT ![p] = "up"]
           /\ initDone' = [initDone EXCEPT !["policy"] = TRUE]
           /\ RebuildMesh("policy", valid) /\ loaded' = loaded \cup valid
           /\ have' = [q \in Policies |-> IF q \in valid THEN have[source] ELSE have[q]]
           /\ status' = [q \in Policies |-> IF q \in valid THEN "READY" ELSE status[q]]
  <2>1. Active = {} /\ Active' = valid
    BY <1>2, <1>6 DEF Active, MembersTyped, TablesAgree
  <2>2. WeightsAgree'
    <3>1. \A q \in valid : have'[q] = currentStep
      BY <1>2, <1>3, <1>6
    <3>2. \A q \in Policies : q \notin valid => ~Whole(q)'
      BY CompleteIsWhole, RoleFacts DEF valid, Roles
    <3>. QED  BY <1>1, <1>6, <2>1, <3>1, <3>2 DEF WeightsAgree
  <2>3. /\ status' \in [Policies -> Statuses] /\ status'[p] # "NONE"
        /\ \A q \in Policies : /\ status[q] # "NONE" => status'[q] # "NONE"
                               /\ status'[q] = "RUNNING" <=> status[q] = "RUNNING"
    BY <1>2, <1>6, <2>1 DEF MembersTyped, Statuses, Active
  <2>4. /\ initDone' \in [Roles -> BOOLEAN] /\ initDone'["rollout"] = initDone["rollout"]
        /\ initDone'["policy"]
        /\ loaded' \subseteq Replicas /\ \A q \in loaded' : q \in loaded \/ Whole(q)'
        /\ have' \in [Policies -> Int]
    BY <1>2, <1>3, <1>6 DEF MembersTyped, Roles
  <2>. QED
    BY <1>1, <1>6, <2>1, <2>2, <2>3, <2>4, PolicyArrival DEF valid
\* Nobody has weights to hand over.
<1>7. CASE /\ proc' = [proc EXCEPT ![p] = "gone"]
           /\ initDone' = [initDone EXCEPT !["policy"] = TRUE]
           /\ KeepMesh \/ RebuildMesh("policy", valid)
           /\ status' = [status EXCEPT ![p] = "UNINITIALIZED"] /\ UNCHANGED <<loaded, have>>
  <2>1. Active' = Active
    BY <1>2, <1>7 DEF Active, MembersTyped
  <2>2. WeightsAgree'
    BY <1>1, <1>2, <1>4, <1>7, <2>1 DEF WeightsAgree
  <2>3. /\ status' \in [Policies -> Statuses] /\ status'[p] # "NONE"
        /\ \A q \in Policies : /\ status[q] # "NONE" => status'[q] # "NONE"
                               /\ status'[q] = "RUNNING" <=> status[q] = "RUNNING"
    BY <1>2, <1>7 DEF MembersTyped, Statuses, Active
  <2>4. /\ initDone' \in [Roles -> BOOLEAN] /\ initDone'["rollout"] = initDone["rollout"]
        /\ initDone'["policy"] /\ loaded' \subseteq Replicas /\ have' \in [Policies -> Int]
    BY <1>7 DEF MembersTyped, Roles
  <2>. QED
    BY <1>1, <1>2, <1>7, <2>1, <2>2, <2>3, <2>4, PolicyArrival DEF valid
\* It joins the group.
<1>8. CASE /\ initDone["policy"] /\ valid \cap loaded # {} /\ proc' = [proc EXCEPT ![p] = "up"]
           /\ RebuildMesh("policy", valid) /\ loaded' = loaded \cup {p}
           /\ have' = [have EXCEPT ![p] = have[source]]
           /\ status' = [status EXCEPT ![p] = "READY"] /\ UNCHANGED initDone
  <2>1. Active' = Active \cup {p}
    BY <1>2, <1>8 DEF Active, MembersTyped
  <2>2. WeightsAgree'
    BY <1>1, <1>2, <1>3, <1>4, <1>8, <2>1 DEF WeightsAgree, MembersTyped
  <2>3. /\ status' \in [Policies -> Statuses] /\ status'[p] # "NONE"
        /\ \A q \in Policies : /\ status[q] # "NONE" => status'[q] # "NONE"
                               /\ status'[q] = "RUNNING" <=> status[q] = "RUNNING"
    BY <1>2, <1>8 DEF MembersTyped, Statuses, Active
  <2>4. /\ initDone' \in [Roles -> BOOLEAN]
        /\ loaded' \subseteq Replicas /\ \A q \in loaded' : q \in loaded \/ Whole(q)'
        /\ have' \in [Policies -> Int] /\ Active' \subseteq valid
    BY <1>1, <1>2, <1>3, <1>8, <2>1 DEF MembersTyped
  <2>. QED
    BY <1>1, <1>8, <2>1, <2>2, <2>3, <2>4, PolicyArrival DEF valid
<1>. QED
  BY <1>5, <1>6, <1>7, <1>8 DEF RegisterPolicy, Admitted, Refused, valid, source

\* The controller's counters and statuses move on: to the next step, which every whole
\* policy is told to run, or not.
LEMMA MoveOn ==
  ASSUME MembersInv, NEW st \in [Policies -> Statuses],
         \A p \in Policies : /\ st[p] = "NONE" <=> status[p] = "NONE"
                             /\ st[p] \in {"READY", "RUNNING", "REDUCED"} <=> p \in Active,
         UNCHANGED <<atoms, startTime, meshRanked, initDone, mesh, totalSteps>>,
         proc' \in [Replicas -> {"new", "up", "done", "gone"}],
         \A r \in Replicas : proc[r] = "gone" => proc'[r] = "gone",
         loaded \subseteq loaded', loaded' \subseteq loaded \cup Complete(atoms, "rollout"),
         synced' \in Nat, synced' <= currentStep,
         reduced' \subseteq {p \in Policies : st[p] = "RUNNING"},
         \/ /\ UNCHANGED <<currentStep, remain, have>> /\ status' = st /\ SyncWaitsForAll'
         \/ /\ AllIn(st, {"READY", "REDUCED"}) /\ ~TrainingFinished
            /\ Complete(atoms, "policy") # {}
            /\ currentStep' = currentStep + 1
            /\ remain' = remain - Cardinality(Complete(atoms, "policy"))
            /\ status' = [p \in Policies |-> IF p \in Complete(atoms, "policy")
                                               THEN "RUNNING" ELSE st[p]]
            /\ have' = [p \in Policies |-> IF p \in Complete(atoms, "policy")
                                             THEN currentStep + 1 ELSE have[p]]
  PROVE  MembersInv'
<1> USE DEF MembersInv
<1> DEFINE whole == Complete(atoms, "policy")
<1>1. /\ \A q \in Complete(atoms, "rollout") : q \in Replicas /\ q \notin Policies /\ Whole(q)
      /\ \A q \in Policies : q \in Replicas /\ (q \in whole <=> Whole(q)) /\ (Whole(q) <=> Whole(q)')
      /\ whole \subseteq Policies /\ \A q \in Replicas : Whole(q)' <=> Whole(q)
      /\ \A role \in Roles : Complete(atoms', role) = Complete(atoms, role)
  BY RoleFacts, CompleteIsWhole DEF Roles, Whole
<1>2. Active' = Active
  <2>1. CASE status' = st
    BY <2>1 DEF Active
  <2>2. CASE /\ AllIn(st, {"READY", "REDUCED"})
             /\ status' = [p \in Policies |-> IF p \in whole THEN "RUNNING" ELSE st[p]]
    <3>1. \A q \in whole : q \in Active
      BY <1>1, <2>2 DEF AllIn, TablesAgree
    <3>. QED  BY <1>1, <2>2, <3>1 DEF Active
  <2>. QED  BY <2>1, <2>2
<1>3. currentStep' \in Nat /\ currentStep <= currentStep' /\ remain' \in Int
      /\ (TrainingFinished => TrainingFinished')
  <2>1. Cardinality(whole) \in Nat
    BY <1>1, FiniteReplicas
  <2>. QED  BY <2>1 DEF MembersTyped, TrainingFinished
<1>4. MembersTyped'
  BY <1>1, <1>3 DEF MembersTyped, Statuses
<1>5. TablesAgree'
  <2>1. \A q \in reduced' : status'[q] = "RUNNING"
    BY DEF AllIn
  <2>2. \A q \in meshRanked' \cup loaded' : Whole(q)' \/ proc'[q] = "gone"
    BY <1>1 DEF TablesAgree, MembersTyped
  <2>3. \A q \in Policies : Whole(q)' => status'[q] # "NONE"
    BY <1>1 DEF TablesAgree, MembersTyped
  <2>4. \A q \in Active' : Whole(q)'
    BY <1>1, <1>2 DEF TablesAgree, Active
  <2>5. synced' <= currentStep'
    BY <1>3 DEF MembersTyped
  <2>. QED  BY <1>2, <2>1, <2>2, <2>3, <2>4, <2>5 DEF TablesAgree
<1>6. WeightsAgree'
  BY <1>1, <1>2 DEF WeightsAgree, MembersTyped
<1>7. MeshIsCurrent'
  BY <1>1, <1>2, <1>3 DEF MeshIsCurrent, Active
<1>8. CASE UNCHANGED <<currentStep, remain, have>> /\ status' = st /\ SyncWaitsForAll'
  <2>1. TotalIsReachable'
    BY <1>8 DEF TotalIsReachable
  <2>. QED  BY <1>4, <1>5, <1>6, <1>7, <1>8, <2>1
<1>9. CASE /\ AllIn(st, {"READY", "REDUCED"}) /\ ~TrainingFinished /\ whole # {}
           /\ currentStep' = currentStep + 1 /\ remain' = remain - Cardinality(whole)
  <2>1. SyncWaitsForAll'
    BY <1>9 DEF SyncWaitsForAll, MembersTyped
  <2>2. mesh["policy"] = whole
    <3>1. whole \subseteq Active
      BY <1>1, <1>9 DEF AllIn, TablesAgree
    <3>. QED  BY <1>9, <3>1, GroupIsMesh
  <2>3. TotalIsReachable'
    <3> SUFFICES ASSUME totalSteps > currentStep + 1
                 PROVE  remain - Cardinality(whole) >= (totalSteps - (currentStep + 1)) * Cardinality(whole)
      BY <1>9, <2>2 DEF TotalIsReachable
    <3>1. /\ Cardinality(whole) \in Nat /\ remain \in Int /\ totalSteps - currentStep \in Int
          /\ totalSteps - (currentStep + 1) = (totalSteps - currentStep) - 1 /\ totalSteps > currentStep
      BY <1>1, FiniteReplicas DEF MembersTyped
    <3>2. remain >= (totalSteps - currentStep) * Cardinality(whole)
      BY <2>2, <3>1 DEF TotalIsReachable
    <3>3. remain - Cardinality(whole) >= ((totalSteps - currentStep) - 1) * Cardinality(whole)
      BY <3>1, <3>2, OneStepLess
    <3>. QED  BY <3>1, <3>3
  <2>. QED  BY <1>4, <1>5, <1>6, <1>7, <2>1, <2>3
<1>. QED  BY <1>8, <1>9

LEMMA ReportStep ==
  ASSUME MembersInv, NEW r \in Rollouts, Report(r)
  PROVE  MembersInv'
<1>1. /\ TryTrigger(status, pending + 1)
      /\ UNCHANGED <<proc, reduced, atoms, startTime, meshRanked, initDone, mesh, totalSteps,
                     loaded, synced>>
  BY DEF Report, processVars, tableVars, meshVars
<1>2. status \in [Policies -> Statuses] /\ MembersTyped
  BY DEF MembersInv, MembersTyped
<1>3. UNCHANGED <<currentStep, remain, have>> /\ status' = status => SyncWaitsForAll'
  BY <1>1 DEF MembersInv, SyncWaitsForAll
<1>4. /\ synced' \in Nat /\ synced' <= currentStep /\ proc' \in [Replicas -> {"new", "up", "done", "gone"}]
      /\ reduced' \subseteq {p \in Policies : status[p] = "RUNNING"}
  BY <1>1 DEF MembersInv, MembersTyped, TablesAgree
<1>5. \A p \in Policies : status[p] \in {"READY", "RUNNING", "REDUCED"} <=> p \in Active
  BY DEF Active
<1>. QED  BY <1>1, <1>2, <1>3, <1>4, <1>5, TryTriggerSplit, MoveOn

\* What an acknowledgement does to the statuses: the step goes on, or all are ready for
\* the next one, which may begin at once.
LEMMA AckEffect ==
  ASSUME MembersInv, NEW p \in Policies, Ack(p),
         NEW st, st = [status EXCEPT ![p] = "REDUCED"],
         NEW ready, ready = [q \in Policies |-> IF st[q] = "NONE" THEN "NONE" ELSE "READY"]
  PROVE  /\ status[p] = "RUNNING" /\ p \in Active /\ currentStep \in Nat
         /\ st \in [Policies -> Statuses] /\ ready \in [Policies -> Statuses]
         /\ \/ /\ ~Barrier(st) /\ status' = st
               /\ UNCHANGED <<currentStep, remain, have, synced, loaded>>
            \/ /\ Barrier(st) /\ TryTrigger(ready, pending)
               /\ synced' \in {synced, currentStep}
               /\ loaded' \in {loaded, loaded \cup SyncTargets}
<1>1. status[p] = "RUNNING" /\ status \in [Policies -> Statuses] /\ currentStep \in Nat
  BY DEF Ack, MembersInv, MembersTyped, TablesAgree
<1>2. st \in [Policies -> Statuses] /\ ready \in [Policies -> Statuses] /\ p \in Active
  BY <1>1 DEF Statuses, Active
<1>3. CASE Barrier(st)
  BY <1>1, <1>2, <1>3 DEF Ack
<1>4. CASE ~Barrier(st)
  BY <1>1, <1>2, <1>4 DEF Ack, stepVars
<1>. QED  BY <1>1, <1>2, <1>3, <1>4

LEMMA AckStep ==
  ASSUME MembersInv, NEW p \in Policies, Ack(p)
  PROVE  MembersInv'
<1> DEFINE st == [status EXCEPT ![p] = "REDUCED"]
           ready == [q \in Policies |-> IF st[q] = "NONE" THEN "NONE" ELSE "READY"]
<1>1. /\ status[p] = "RUNNING" /\ p \in Active /\ currentStep \in Nat
      /\ st \in [Policies -> Statuses] /\ ready \in [Policies -> Statuses]
      /\ \/ /\ ~Barrier(st) /\ status' = st
            /\ UNCHANGED <<currentStep, remain, have, synced, loaded>>
         \/ /\ Barrier(st) /\ TryTrigger(ready, pending)
            /\ synced' \in {synced, currentStep}
            /\ loaded' \in {loaded, loaded \cup SyncTargets}
  BY AckEffect
<1>2. /\ UNCHANGED <<atoms, startTime, meshRanked, initDone, mesh, totalSteps>>
      /\ proc' \in [Replicas -> {"new", "up", "done", "gone"}]
      /\ \A r \in Replicas : proc[r] = "gone" => proc'[r] = "gone"
      /\ reduced' = reduced \ {p}
  <2>1. /\ UNCHANGED <<atoms, startTime, meshRanked, initDone, mesh, totalSteps>>
        /\ reduced' = reduced \ {p}
    BY DEF Ack, tableVars, meshVars
  <2>2. PICK stop : proc' = [r \in Replicas |-> IF r \in stop /\ proc[r] = "up" THEN "done" ELSE proc[r]]
    BY DEF Ack
  <2>. QED  BY <2>1, <2>2 DEF MembersInv, MembersTyped
<1>3. /\ \A q \in Policies : /\ st[q] = "NONE" <=> status[q] = "NONE"
                             /\ st[q] \in {"READY", "RUNNING", "REDUCED"} <=> q \in Active
      /\ reduced' \subseteq {q \in Policies : st[q] = "RUNNING"}
  BY <1>1, <1>2 DEF MembersInv, MembersTyped, TablesAgree, Active
<1>4. CASE ~Barrier(st)
  <2>1. UNCHANGED <<currentStep, remain, have, synced, loaded>> /\ status' = st
    BY <1>1, <1>4
  <2>2. SyncWaitsForAll'
    BY <1>1, <2>1 DEF MembersInv, SyncWaitsForAll
  <2>3. synced' \in Nat /\ synced' <= currentStep
    BY <2>1 DEF MembersInv, MembersTyped, TablesAgree
  <2> HIDE DEF st, ready
  <2>. QED  BY <1>1, <1>2, <1>3, <2>1, <2>2, <2>3, MoveOn
<1>5. CASE Barrier(st)
  <2>1. \A q \in Policies : st[q] = "NONE" \/ st[q] = "REDUCED"
    BY <1>5 DEF Barrier, AllIn
  <2>2. /\ \A q \in Policies : /\ ready[q] = "NONE" <=> status[q] = "NONE"
                               /\ ready[q] \in {"READY", "RUNNING", "REDUCED"} <=> q \in Active
        /\ reduced' \subseteq {q \in Policies : ready[q] = "RUNNING"}
        /\ reduced' = {}
    BY <1>2, <1>3, <2>1
  <2>3. synced' \in Nat /\ synced' <= currentStep
    BY <1>1, <1>5 DEF MembersInv, MembersTyped, TablesAgree
  <2>4. loaded \subseteq loaded' /\ loaded' \subseteq loaded \cup Complete(atoms, "rollout")
    <3>1. Complete(atoms, "rollout") # {} => SyncLead \in Complete(atoms, "rollout")
      BY RoleFacts, EarliestIn DEF SyncLead, Complete, MembersInv, MembersTyped
    <3>2. SyncTargets \subseteq Complete(atoms, "rollout")
      BY <3>1 DEF SyncTargets, SyncReceivers, Receivers
    <3>. QED  BY <1>1, <1>5, <3>2
  <2>5. status' = ready => SyncWaitsForAll'
    BY <2>2 DEF SyncWaitsForAll
  <2>6. TryTrigger(ready, pending) /\ MembersTyped
    BY <1>1, <1>5 DEF MembersInv
  <2>7. \/ UNCHANGED <<currentStep, remain, have>> /\ status' = ready
        \/ /\ AllIn(ready, {"READY", "REDUCED"}) /\ ~TrainingFinished
           /\ Complete(atoms, "policy") # {}
           /\ currentStep' = currentStep + 1
           /\ remain' = remain - Cardinality(Complete(atoms, "policy"))
           /\ status' = [q \in Policies |-> IF q \in Complete(atoms, "policy")
                                              THEN "RUNNING" ELSE ready[q]]
           /\ have' = [q \in Policies |-> IF q \in Complete(atoms, "policy")
                                            THEN currentStep + 1 ELSE have[q]]
    <3> HIDE DEF ready
    <3>. QED  BY <1>1, <2>6, TryTriggerSplit
  <2> HIDE DEF st, ready
  <2>. QED  BY <1>1, <1>2, <2>2, <2>3, <2>4, <2>5, <2>7, MoveOn
<1>. QED  BY <1>4, <1>5

-----------------------------------------------------------------------------
(* The invariant and what follows from it *)

LEMMA InitStep ==
  ASSUME Init
  PROVE  MembersInv
<1>1. MembersTyped
  BY RoleFacts, ConstantsAssumption DEF Init, MembersTyped, Statuses, ConstantsAssumption, RoleOf
<1>2. Active = {} /\ \A r \in Replicas : ~Whole(r)
  BY RoleFacts DEF Init, Active, Whole, RoleOf
<1>3. \A p \in Policies : p \in Replicas
  BY RoleFacts
<1>4. TablesAgree /\ WeightsAgree
  BY <1>2, <1>3 DEF Init, TablesAgree, WeightsAgree
<1>5. MeshIsCurrent /\ SyncWaitsForAll /\ TotalIsReachable
  BY DEF Init, MeshIsCurrent, SyncWaitsForAll, TotalIsReachable, Roles
<1>. QED  BY <1>1, <1>4, <1>5 DEF MembersInv

LEMMA MembersStep ==
  ASSUME MembersInv, [Next]_vars
  PROVE  MembersInv'
<1>1. CASE UNCHANGED vars
  <2>1. UNCHANGED <<proc, atoms, startTime, loaded, meshRanked, reduced, status, initDone, mesh,
                    currentStep, synced, totalSteps, remain, have>>
    BY <1>1 DEF vars, processVars, tableVars, meshVars, stepVars, weightVars
  <2>2. MembersTyped' /\ \A r \in Replicas : Whole(r)' <=> Whole(r)
    BY <2>1 DEF MembersInv, MembersTyped, Whole
  <2>. QED  BY <2>1, <2>2, QuietStep
<1>2. ASSUME NEW r \in Replicas, Register(r) PROVE MembersInv'
  BY <1>2, RegisterAtomStep, RegisterFirstPolicyStep, RegisterPolicyStep, RegisterRolloutStep
     DEF Register
<1>3. ASSUME NEW r \in Replicas, Leave(r) \/ Exit(r) \/ MonitorRemove(r) PROVE MembersInv'
  BY <1>3, RemovalStep
<1>4. ASSUME NEW r \in Replicas, Crash(r) PROVE MembersInv'
  BY <1>4, WorkerStep
<1>5. ASSUME NEW r \in Rollouts, Fetch(r) \/ GenerateHeld(r) \/ Report(r) PROVE MembersInv'
  BY <1>5, RoleFacts, WorkerStep, ReportStep
<1>6. ASSUME NEW p \in Policies, Ack(p) PROVE MembersInv'
  BY <1>6, AckStep
<1>7. CASE AllReduce
  BY <1>7, AllReduceStep
<1>. QED  BY <1>1, <1>2, <1>3, <1>4, <1>5, <1>6, <1>7 DEF Next

LEMMA MembersAlways == Spec => []MembersInv
<1>1. Init => MembersInv
  BY InitStep
<1>2. MembersInv /\ [Next]_vars => MembersInv'
  BY MembersStep
<1>. QED  BY <1>1, <1>2, PTL DEF Spec

\* The members of the mesh last asked for are the replicas that work, whoever registers,
\* exits, dies or is removed (trigger_rebuild_mesh and its callers).
THEOREM MeshAlwaysCurrent == Spec => []MeshIsCurrent
<1>1. MembersInv => MeshIsCurrent
  BY DEF MembersInv
<1>. QED  BY <1>1, MembersAlways, PTL

\* A newcomer is given the weights of the step that the others train with or have
\* finished (register for the first of them, post_register_hook for the others).
THEOREM PoliciesAlwaysAgree == Spec => []PoliciesAgree
<1>1. MembersInv => PoliciesAgree
  BY RoleFacts DEF MembersInv, TablesAgree, WeightsAgree, PoliciesAgree, Active
<1>. QED  BY <1>1, MembersAlways, PTL

\* What recompute_total_steps promises stays reachable through every change of the mesh.
THEOREM TotalAlwaysReachable == Spec => []TotalIsReachable
<1>1. MembersInv => TotalIsReachable
  BY DEF MembersInv
<1>. QED  BY <1>1, MembersAlways, PTL

\* train_ack sends the weights of a step when nobody is in it, also when policies were
\* removed or joined while it ran.
THEOREM SyncAlwaysWaits == Spec => []SyncWaitsForAll
<1>1. MembersInv => SyncWaitsForAll
  BY DEF MembersInv
<1>. QED  BY <1>1, MembersAlways, PTL

-----------------------------------------------------------------------------
(* The policies train in lock-step *)

Running == {p \in Policies : status[p] = "RUNNING"}

\* The weights of the group are those of the step.
WeightsOf(group) == [p \in Policies |-> IF p \in group THEN currentStep ELSE -1]
GroupWeights == [p \in Policies |-> IF p \in Active THEN have[p] ELSE -1]

LEMMA WeightsOfStep ==
  /\ MembersInv => GroupWeights = WeightsOf(Active)
  /\ MembersInv' => GroupWeights' = WeightsOf(Active)'
<1>1. MembersInv => \A p \in Active : p \in Policies \cap loaded /\ Whole(p)
  BY DEF MembersInv, TablesAgree, WeightsAgree, Active
<1>2. MembersInv' => \A p \in Active' : p \in Policies \cap loaded' /\ Whole(p)'
  BY DEF MembersInv, TablesAgree, WeightsAgree, Active
<1>. QED  BY <1>1, <1>2 DEF MembersInv, WeightsAgree, WeightsOf, GroupWeights

LEMMA JoinsOrStutters ==
  ASSUME MembersInv, MembersInv', UNCHANGED <<currentStep, synced>>,
         Active \subseteq Active', Running' = Running
  PROVE  [Lockstep!Next]_(Lockstep!vars)
<1>1. GroupWeights = WeightsOf(Active) /\ GroupWeights' = WeightsOf(Active)'
  BY WeightsOfStep
<1>2. Active \subseteq Policies /\ Active' \subseteq Policies
  BY DEF Active
<1>3. CASE Active' = Active
  <2>1. GroupWeights' = GroupWeights
    BY <1>1, <1>3 DEF WeightsOf
  <2>. QED  BY <1>3, <2>1 DEF Lockstep!vars, Running, GroupWeights
<1>4. CASE Active' # Active
  <2>1. PICK new \in SUBSET Policies : new = Active' \ Active
    BY <1>2
  <2>2. new # {} /\ new \cap Active = {} /\ Active' = Active \cup new
    BY <1>4, <2>1
  <2>3. currentStep \in IF Active = {} THEN {currentStep} ELSE {GroupWeights[w] : w \in Active}
    BY <1>1, <1>2 DEF WeightsOf
  <2>4. GroupWeights' = [w \in Policies |-> IF w \in new THEN currentStep ELSE GroupWeights[w]]
    BY <1>1, <1>2, <2>1 DEF WeightsOf
  <2>5. Lockstep!Join(new)
    BY <2>2, <2>3, <2>4 DEF Lockstep!Join, Running, GroupWeights
  <2>. QED  BY <2>5 DEF Lockstep!Next
<1>. QED  BY <1>3, <1>4

LEMMA LeavesOrStutters ==
  ASSUME MembersInv, MembersInv', UNCHANGED <<currentStep, synced>>, NEW r,
         \A p \in Policies : status'[p] = IF p = r THEN "NONE" ELSE status[p]
  PROVE  [Lockstep!Next]_(Lockstep!vars)
<1>1. GroupWeights = WeightsOf(Active) /\ GroupWeights' = WeightsOf(Active)'
  BY WeightsOfStep
<1>2. Active' = Active \ {r} /\ Running' = Running \ {r} /\ Running \subseteq Active
  BY DEF Active, Running
<1>3. CASE r \in Active
  <2>1. GroupWeights' = [GroupWeights EXCEPT ![r] = -1]
    BY <1>1, <1>2 DEF WeightsOf
  <2>2. Lockstep!Leave(r)
    BY <1>2, <1>3, <2>1 DEF Lockstep!Leave, Running, GroupWeights
  <2>. QED  BY <1>3, <2>2 DEF Lockstep!Next, Active
<1>4. CASE r \notin Active
  BY <1>2, <1>4, JoinsOrStutters
<1>. QED  BY <1>3, <1>4

\* The next step, if there is one, is begun by all that are ready for it.
LEMMA NextStepOfAll ==
  ASSUME MembersInv, NEW st \in [Policies -> Statuses], NEW buffered, TryTrigger(st, buffered),
         \A p \in Policies : /\ st[p] = "NONE" <=> status[p] = "NONE"
                             /\ st[p] \in {"READY", "RUNNING", "REDUCED"} <=> p \in Active
  PROVE  \/ UNCHANGED currentStep /\ status' = st /\ Active' = Active
         \/ /\ AllIn(st, {"READY", "REDUCED"}) /\ Active # {} /\ Active' = Active
            /\ Running' = Active /\ currentStep' = currentStep + 1
<1>1. MembersTyped
  BY DEF MembersInv
<1>2. CASE UNCHANGED <<currentStep, remain, have>> /\ status' = st
  BY <1>2 DEF Active
<1>3. CASE /\ AllIn(st, {"READY", "REDUCED"}) /\ Complete(atoms, "policy") # {}
           /\ currentStep' = currentStep + 1
           /\ status' = [p \in Policies |-> IF p \in Complete(atoms, "policy")
                                              THEN "RUNNING" ELSE st[p]]
  <2>1. Active \subseteq Complete(atoms, "policy") /\ Complete(atoms, "policy") \subseteq Policies
    BY RoleFacts DEF MembersInv, TablesAgree, Active, Whole, Complete
  <2>2. \A p \in Complete(atoms, "policy") : st[p] # "NONE"
    BY <2>1, RoleFacts DEF MembersInv, TablesAgree, Complete, Whole
  <2>. QED  BY <1>3, <2>1, <2>2 DEF AllIn, Active, Running
<1>. QED  BY <1>1, <1>2, <1>3, TryTriggerSplit

LEMMA ReportBegins ==
  ASSUME MembersInv, MembersInv', NEW r \in Rollouts, Report(r)
  PROVE  [Lockstep!Next]_(Lockstep!vars)
<1>1. TryTrigger(status, pending + 1) /\ UNCHANGED synced
  BY DEF Report
<1>2. /\ status \in [Policies -> Statuses]
      /\ \A p \in Policies : status[p] \in {"READY", "RUNNING", "REDUCED"} <=> p \in Active
  BY DEF MembersInv, MembersTyped, Active
<1>3. CASE UNCHANGED <<currentStep, status>> /\ Active' = Active
  BY <1>1, <1>3, JoinsOrStutters DEF Running
<1>4. CASE /\ AllIn(status, {"READY", "REDUCED"}) /\ Active # {} /\ Active' = Active
           /\ Running' = Active /\ currentStep' = currentStep + 1
  <2>1. Running = {}
    BY <1>4 DEF AllIn, Running
  <2>2. GroupWeights' = [p \in Policies |-> IF p \in Active THEN currentStep + 1 ELSE GroupWeights[p]]
    BY <1>4, WeightsOfStep DEF WeightsOf
  <2>3. Lockstep!Begin
    BY <1>1, <1>4, <2>1, <2>2 DEF Lockstep!Begin, Lockstep!Advance, Running, GroupWeights
  <2>. QED  BY <2>3 DEF Lockstep!Next
<1>. QED  BY <1>1, <1>2, <1>3, <1>4, NextStepOfAll

LEMMA AckFinishes ==
  ASSUME MembersInv, MembersInv', NEW p \in Policies, Ack(p)
  PROVE  [Lockstep!Next]_(Lockstep!vars)
<1> DEFINE st == [status EXCEPT ![p] = "REDUCED"]
           ready == [q \in Policies |-> IF st[q] = "NONE" THEN "NONE" ELSE "READY"]
<1>1. /\ status[p] = "RUNNING" /\ p \in Active
      /\ st \in [Policies -> Statuses] /\ ready \in [Policies -> Statuses]
      /\ \/ ~Barrier(st) /\ status' = st /\ UNCHANGED <<currentStep, synced>>
         \/ Barrier(st) /\ TryTrigger(ready, pending) /\ synced' \in {synced, currentStep}
  BY AckEffect
<1>2. GroupWeights = WeightsOf(Active) /\ GroupWeights' = WeightsOf(Active)'
  BY WeightsOfStep
<1>3. p \in Running /\ status \in [Policies -> Statuses]
  BY <1>1 DEF Running, MembersInv, MembersTyped
<1>4. CASE ~Barrier(st)
  <2>1. Active' = Active /\ Running' = Running \ {p}
    BY <1>1, <1>3, <1>4 DEF Active, Running
  <2>2. Lockstep!Finish(p)
    BY <1>1, <1>2, <1>3, <1>4, <2>1 DEF Lockstep!Finish, Running, GroupWeights, WeightsOf
  <2>. QED  BY <2>2 DEF Lockstep!Next
<1>5. CASE Barrier(st)
  <2>1. Running = {p}
    BY <1>3, <1>5 DEF Barrier, AllIn, Running
  <2>2. \A q \in Policies : /\ ready[q] = "NONE" <=> status[q] = "NONE"
                            /\ ready[q] \in {"READY", "RUNNING", "REDUCED"} <=> q \in Active
    <3>1. \A q \in Policies : st[q] = "NONE" \/ st[q] = "REDUCED"
      BY <1>5 DEF Barrier, AllIn
    <3>. QED  BY <1>1, <1>3, <3>1 DEF Active
  <2>3. \A q \in Policies : ready[q] # "RUNNING"
    OBVIOUS
  <2> HIDE DEF ready
  <2>4. \/ UNCHANGED currentStep /\ status' = ready /\ Active' = Active
        \/ Active # {} /\ Active' = Active /\ Running' = Active /\ currentStep' = currentStep + 1
    BY <1>1, <1>5, <2>2, NextStepOfAll
  <2>5. CASE UNCHANGED currentStep /\ status' = ready /\ Active' = Active
    <3>1. Running' = {}
      BY <2>3, <2>5 DEF Running
    <3>2. Lockstep!Finish(p)
      BY <1>1, <1>2, <1>5, <2>1, <2>5, <3>1 DEF Lockstep!Finish, Running, GroupWeights, WeightsOf
    <3>. QED  BY <3>2 DEF Lockstep!Next
  <2>6. CASE Active # {} /\ Active' = Active /\ Running' = Active /\ currentStep' = currentStep + 1
    <3>1. GroupWeights' = [q \in Policies |-> IF q \in Active THEN currentStep + 1 ELSE GroupWeights[q]]
      BY <1>2, <2>6 DEF WeightsOf
    <3>2. Lockstep!Advance
      BY <2>6, <3>1 DEF Lockstep!Advance, Running, GroupWeights
    <3>3. Lockstep!Finish(p)
      BY <1>1, <1>5, <2>1, <2>6, <3>2 DEF Lockstep!Finish, Running
    <3>. QED  BY <3>3 DEF Lockstep!Next
  <2>. QED  BY <2>4, <2>5, <2>6
<1>. QED  BY <1>4, <1>5

\* A replica that registers joins the group with what it needs, waits, or is refused.
LEMMA RegisterJoins ==
  ASSUME MembersInv, MembersInv', NEW r \in Replicas, Register(r)
  PROVE  [Lockstep!Next]_(Lockstep!vars)
<1> SUFFICES UNCHANGED <<currentStep, synced>> /\ Active \subseteq Active' /\ Running' = Running
  BY JoinsOrStutters
<1>1. /\ status \in [Policies -> Statuses]
      /\ ~initDone["policy"] => Active = {}
      /\ \A p \in Policies : ArriveLast(p) => p \notin Active
  BY RoleFacts, ArriveLastEffect DEF MembersInv, MembersTyped, TablesAgree
<1>2. CASE RegisterAtom(r) \/ (r \in Rollouts /\ RegisterRollout(r))
  BY <1>2 DEF RegisterAtom, RegisterRollout, stepVars, weightVars, Active, Running
<1>3. ASSUME r \in Policies, RegisterFirstPolicy(r)
      PROVE  UNCHANGED <<currentStep, synced>> /\ Active \subseteq Active' /\ Running' = Running
  <2>1. /\ UNCHANGED <<currentStep, synced>> /\ r \notin Active
        /\ \/ status' = [status EXCEPT ![r] = "UNINITIALIZED"]
           \/ status' = [status EXCEPT ![r] = "READY"]
    BY <1>1, <1>3 DEF RegisterFirstPolicy, stepVars, weightVars
  <2>. QED  BY <1>1, <2>1 DEF Active, Running
<1>4. ASSUME r \in Policies, RegisterPolicy(r)
      PROVE  UNCHANGED <<currentStep, synced>> /\ Active \subseteq Active' /\ Running' = Running
  <2>1. /\ UNCHANGED <<currentStep, synced>> /\ r \notin Active
        /\ \/ status' = [status EXCEPT ![r] = "UNINITIALIZED"]
           \/ status' = [status EXCEPT ![r] = "READY"]
           \/ /\ ~initDone["policy"]
              /\ \E ready : status' = [q \in Policies |-> IF q \in ready THEN "READY" ELSE status[q]]
    BY <1>1, <1>4 DEF RegisterPolicy, stepVars
  <2>2. CASE \/ status' = [status EXCEPT ![r] = "UNINITIALIZED"]
             \/ status' = [status EXCEPT ![r] = "READY"]
    BY <1>1, <2>1, <2>2 DEF Active, Running
  <2>3. CASE /\ ~initDone["policy"]
             /\ \E ready : status' = [q \in Policies |-> IF q \in ready THEN "READY" ELSE status[q]]
    BY <1>1, <2>1, <2>3 DEF Active, Running
  <2>. QED  BY <2>1, <2>2, <2>3
<1>. QED  BY <1>2, <1>3, <1>4, RoleFacts DEF Register

LEMMA RemovalLeaves ==
  ASSUME MembersInv, MembersInv', NEW r \in Replicas, Leave(r) \/ Exit(r) \/ MonitorRemove(r)
  PROVE  [Lockstep!Next]_(Lockstep!vars)
<1>1. status \in [Policies -> Statuses]
  BY DEF MembersInv, MembersTyped
<1>2. CASE Unregister(r)
  <2>1. /\ UNCHANGED <<currentStep, synced>>
        /\ status' = IF r \in Policies THEN [status EXCEPT ![r] = "NONE"] ELSE status
    BY <1>2 DEF Unregister, stepVars, weightVars
  <2>2. \A p \in Policies : status'[p] = IF p = r THEN "NONE" ELSE status[p]
    BY <1>1, <2>1
  <2>. QED  BY <2>1, <2>2, LeavesOrStutters
<1>3. CASE UNCHANGED <<status, stepVars, weightVars>>
  <2>1. UNCHANGED <<currentStep, synced>> /\ Active \subseteq Active' /\ Running' = Running
    BY <1>3 DEF stepVars, weightVars, Active, Running
  <2>. QED  BY <2>1, JoinsOrStutters
<1>. QED  BY <1>2, <1>3 DEF Leave, Exit, MonitorRemove

LEMMA LockstepStep ==
  ASSUME MembersInv, MembersInv', [Next]_vars
  PROVE  [Lockstep!Next]_(Lockstep!vars)
<1>1. ASSUME UNCHANGED <<status, stepVars, weightVars>> PROVE [Lockstep!Next]_(Lockstep!vars)
  <2>1. UNCHANGED <<currentStep, synced>> /\ Active \subseteq Active' /\ Running' = Running
    BY <1>1 DEF stepVars, weightVars, Active, Running
  <2>. QED  BY <2>1, JoinsOrStutters
<1>2. CASE UNCHANGED vars
  BY <1>1, <1>2 DEF vars
<1>3. ASSUME NEW r \in Replicas, Register(r) PROVE [Lockstep!Next]_(Lockstep!vars)
  BY <1>3, RegisterJoins
<1>4. ASSUME NEW r \in Replicas, Leave(r) \/ Exit(r) \/ MonitorRemove(r)
      PROVE  [Lockstep!Next]_(Lockstep!vars)
  BY <1>4, RemovalLeaves
<1>5. ASSUME NEW r \in Replicas, Crash(r) PROVE [Lockstep!Next]_(Lockstep!vars)
  BY <1>1, <1>5 DEF Crash
<1>6. ASSUME NEW r \in Rollouts, Fetch(r) \/ GenerateHeld(r) PROVE [Lockstep!Next]_(Lockstep!vars)
  BY <1>1, <1>6 DEF Fetch, GenerateHeld
<1>7. ASSUME NEW r \in Rollouts, Report(r) PROVE [Lockstep!Next]_(Lockstep!vars)
  BY <1>7, ReportBegins
<1>8. ASSUME NEW p \in Policies, Ack(p) PROVE [Lockstep!Next]_(Lockstep!vars)
  BY <1>8, AckFinishes
<1>9. CASE AllReduce
  BY <1>1, <1>9 DEF AllReduce
<1> HIDE DEF Lockstep!Next
<1>. QED  BY <1>2, <1>3, <1>4, <1>5, <1>6, <1>7, <1>8, <1>9 DEF Next

\* The controller keeps the policies in lock-step: whoever registers, exits, dies or is
\* removed, a step is taken by all of the group with the same weights and published when
\* nobody is in it (PolicyStatusManager as a whole).
THEOREM PoliciesTrainInLockstep == Spec => TrainsInLockstep
<1>1. Init => Lockstep!Init
  <2> SUFFICES ASSUME Init PROVE Lockstep!Init
    OBVIOUS
  <2>1. Active = {} /\ Running = {}
    BY DEF Init, Active, Running
  <2>2. GroupWeights \in [Policies -> {-1}]
    BY <2>1 DEF GroupWeights
  <2>. QED  BY <2>1, <2>2 DEF Init, Lockstep!Init, Running, GroupWeights
<1>2. MembersInv /\ MembersInv' /\ [Next]_vars => [Lockstep!Next]_(Lockstep!vars)
  BY LockstepStep
<1>. QED  BY <1>1, <1>2, MembersAlways, PTL DEF Spec, TrainsInLockstep, Lockstep!Spec

-----------------------------------------------------------------------------
(* Samples on the fly, and the types of all variables *)

\* The policies whose samples of the current step are still counted as on the fly.
Taking  == {p \in Policies : status[p] \in {"RUNNING", "REDUCED"}}
Holding == {r \in Rollouts : held[r] >= 0}

\* Units of samples that are under way before they are trained on.
UnderWay == SumFunction(inFlight) + Cardinality(Holding) + pending

\* The variables that MembersTyped leaves out, and the counters that may not fall below 0.
CountsTyped ==
  /\ nInit \in [Roles -> Nat \ {0}] /\ {firstArrived, monitor, scaled} \subseteq BOOLEAN
  /\ totalSteps \in Nat /\ sentTotal \in Nat /\ promptsLeft \in Nat /\ pending \in Nat
  /\ onTheFly \in Int
  /\ have \in [Policies -> Nat \cup {-1}] /\ version \in [Rollouts -> Nat \cup {-1}]
  /\ held \in [Rollouts -> Nat \cup {-1}] /\ inFlight \in [Rollouts -> Nat]
  /\ tagged \in [0..(Prompts + MaxNumSteps) -> Nat]

\* What remains to be trained on is fed by the prompts and by what is under way.
Fed == remain >= promptsLeft + UnderWay /\ remain <= Prompts

\* A total of 0 is that of a mesh for which not even one step remains.
StepsAreLimited ==
  /\ currentStep <= MaxNumSteps /\ totalSteps <= MaxNumSteps
  /\ totalSteps = 0 =>
       currentStep = 0 /\ (mesh["policy"] = {} \/ remain < Cardinality(mesh["policy"]))

\* Every prompt moves the last tag in use by at most one.
TagsAreLimited ==
  \A v \in 0..(Prompts + MaxNumSteps) :
    tagged[v] > 0 => v < MaxNumSteps + (Prompts - promptsLeft)

CountsInv ==
  /\ CountsTyped /\ Fed /\ StepsAreLimited /\ TagsAreLimited
  /\ onTheFly >= UnderWay + Cardinality(Taking)


LEMMA FiniteRoles ==
  /\ IsFiniteSet(Policies) /\ IsFiniteSet(Rollouts)
  /\ \A S \in SUBSET Policies : IsFiniteSet(S) /\ Cardinality(S) \in Nat
  /\ \A S \in SUBSET Rollouts : IsFiniteSet(S) /\ Cardinality(S) \in Nat
  /\ Prompts \in Nat \ {0} /\ MaxNumSteps \in Nat \ {0}
  /\ \A at : \A role \in Roles :
       /\ Complete(at, role) \subseteq Named(role)
       /\ Registered(at, role) \subseteq Named(role)
       /\ Named(role) \subseteq Replicas
<1>1. IsFiniteSet(Policies) /\ IsFiniteSet(Rollouts)
  BY ConstantsAssumption DEF ConstantsAssumption
<1>2. Prompts \in Nat \ {0} /\ MaxNumSteps \in Nat \ {0}
  BY ConstantsAssumption DEF ConstantsAssumption
<1>3. \A at : \A role \in Roles :
       /\ Complete(at, role) \subseteq Named(role)
       /\ Registered(at, role) \subseteq Named(role)
       /\ Named(role) \subseteq Replicas
  BY RoleFacts DEF Complete, Registered, Roles
<1>. QED  BY <1>1, <1>2, <1>3, FS_Subset, FS_CardinalityType

\* A part of a set of replicas has at most as many members.
LEMMA FewerMembers ==
  ASSUME NEW S \in SUBSET Replicas, NEW T \in SUBSET S
  PROVE  Cardinality(T) \in Nat /\ Cardinality(S) \in Nat /\ Cardinality(T) <= Cardinality(S)
<1>1. IsFiniteSet(S) /\ IsFiniteSet(T)
  BY FiniteReplicas
<1>. QED  BY <1>1, FS_Subset, FS_CardinalityType

LEMMA CountTypes ==
  ASSUME CountsTyped
  PROVE  /\ SumFunction(inFlight) \in Nat /\ \A r \in Rollouts : inFlight[r] <= SumFunction(inFlight)
         /\ Cardinality(Holding) \in Nat /\ Cardinality(Taking) \in Nat /\ UnderWay \in Nat
<1>1. inFlight \in [Rollouts -> Nat] /\ pending \in Nat
  BY DEF CountsTyped
<1>2. SumFunction(inFlight) \in Nat /\ \A r \in Rollouts : inFlight[r] <= SumFunction(inFlight)
  BY <1>1, FiniteRoles, SumNat
<1>3. Cardinality(Holding) \in Nat /\ Cardinality(Taking) \in Nat
  BY FiniteRoles DEF Holding, Taking
<1>. QED  BY <1>1, <1>2, <1>3 DEF UnderWay

\* One generation more or less.
LEMMA InFlightDiffers ==
  ASSUME CountsTyped, NEW r \in Rollouts, NEW v \in Nat, inFlight' = [inFlight EXCEPT ![r] = v]
  PROVE  /\ inFlight' \in [Rollouts -> Nat]
         /\ SumFunction(inFlight') = SumFunction(inFlight) - inFlight[r] + v
<1>1. inFlight \in [Rollouts -> Int] /\ v \in Int
  BY DEF CountsTyped
<1>2. SumFunction([inFlight EXCEPT ![r] = v]) = SumFunction(inFlight) - inFlight[r] + v
  BY <1>1, FiniteRoles, SumUpdate
<1>. QED  BY <1>2 DEF CountsTyped

\* What is lost with a replica makes nothing more.
LEMMA LoseEffect ==
  ASSUME CountsTyped, NEW r \in Replicas, Lose(r)
  PROVE  /\ inFlight' \in [Rollouts -> Nat] /\ held' \in [Rollouts -> Nat \cup {-1}]
         /\ SumFunction(inFlight') \in Nat /\ SumFunction(inFlight') <= SumFunction(inFlight)
         /\ Cardinality(Holding') \in Nat /\ Cardinality(Holding') <= Cardinality(Holding)
<1>1. /\ inFlight' \in [Rollouts -> Nat] /\ held' \in [Rollouts -> Nat \cup {-1}]
      /\ Holding' \subseteq Holding
  BY DEF Lose, CountsTyped, Holding
<1>2. Cardinality(Holding') \in Nat /\ Cardinality(Holding') <= Cardinality(Holding)
  BY <1>1, FewerMembers, RoleFacts DEF Holding
<1>3. CASE r \in Rollouts
  <2>1. inFlight' = [inFlight EXCEPT ![r] = 0]
    BY <1>3 DEF Lose, CountsTyped
  <2>2. SumFunction(inFlight') = SumFunction(inFlight) - inFlight[r] + 0
    BY <1>3, <2>1, InFlightDiffers
  <2>3. SumFunction(inFlight) \in Nat /\ inFlight[r] \in Nat /\ inFlight[r] <= SumFunction(inFlight)
    BY <1>3, CountTypes DEF CountsTyped
  <2>. QED  BY <1>1, <1>2, <2>2, <2>3
<1>4. CASE r \notin Rollouts
  <2>1. inFlight' = inFlight
    BY <1>4 DEF Lose, CountsTyped
  <2>. QED  BY <1>1, <1>2, <2>1, CountTypes
<1>. QED  BY <1>3, <1>4

\* A mesh of these policies is promised no more steps than configured, and at least the
\* current one.
LEMMA RecomputedLimits ==
  ASSUME MembersTyped, CountsInv, NEW members \in SUBSET Replicas, members # {}
  PROVE  /\ Recomputed(members) \in Nat /\ Recomputed(members) <= MaxNumSteps
         /\ Recomputed(members) = 0 => currentStep = 0 /\ remain < Cardinality(members)
<1> DEFINE n == Cardinality(members)
           q == remain \div n
<1>1. /\ n \in Nat \ {0} /\ currentStep \in Nat /\ totalSteps \in Nat /\ MaxNumSteps \in Nat \ {0}
      /\ remain \in Int /\ promptsLeft \in Nat /\ UnderWay \in Nat
  BY FiniteReplicas, FiniteRoles, CountTypes DEF MembersTyped, CountsInv, CountsTyped
<1>2. remain \in Nat /\ currentStep <= MaxNumSteps /\ totalSteps <= MaxNumSteps
  BY <1>1 DEF CountsInv, Fed, StepsAreLimited
<1>3. CASE TrainingFinished
  BY <1>1, <1>2, <1>3 DEF TrainingFinished, Recomputed
<1>4. CASE ~TrainingFinished
  <2>1. Recomputed(members) = Smaller(currentStep + q, MaxNumSteps)
    BY <1>4 DEF Recomputed
  <2>2. q \in Nat /\ (q = 0 => remain < n)
    <3>1. \A a \in Nat, b \in Nat \ {0} : a \div b \in Nat /\ (a \div b = 0 => a < b)
      OBVIOUS
    <3>. QED  BY <1>1, <1>2, <3>1
  <2> HIDE DEF q, n
  <2>. QED  BY <1>1, <1>2, <2>1, <2>2 DEF Smaller, n
<1>. QED  BY <1>3, <1>4

\* Steps of the tables and the meshes, and losses: no sample is made, and a total is kept or
\* computed for the mesh there is.
LEMMA MembersChange ==
  ASSUME MembersInv, CountsInv, NEW r \in Replicas,
         UNCHANGED <<currentStep, remain, pending, sentTotal, promptsLeft, tagged, onTheFly>>,
         UNCHANGED <<inFlight, held>> \/ Lose(r),
         nInit' \in [Roles -> Nat \ {0}], {firstArrived', monitor', scaled'} \subseteq BOOLEAN,
         have' \in [Policies -> Nat \cup {-1}], version' \in [Rollouts -> Nat \cup {-1}],
         Taking' \subseteq Taking,
         \/ totalSteps' = totalSteps /\ mesh'["policy"] = mesh["policy"]
         \/ /\ Complete(atoms', "policy") # {}
            /\ RebuildMesh("policy", Complete(atoms', "policy"))
  PROVE  CountsInv'
<1>. DEFINE valid == Complete(atoms', "policy")
<1>1. MembersTyped /\ CountsTyped
  BY DEF MembersInv, CountsInv
<1>2. /\ inFlight' \in [Rollouts -> Nat] /\ held' \in [Rollouts -> Nat \cup {-1}]
      /\ SumFunction(inFlight') \in Nat /\ SumFunction(inFlight') <= SumFunction(inFlight)
      /\ Cardinality(Holding') \in Nat /\ Cardinality(Holding') <= Cardinality(Holding)
  <2>1. CASE UNCHANGED <<inFlight, held>>
    BY <1>1, <2>1, CountTypes DEF CountsTyped, Holding
  <2>2. CASE Lose(r)
    BY <1>1, <2>2, LoseEffect
  <2>. QED  BY <2>1, <2>2
<1>3. /\ totalSteps' \in Nat /\ totalSteps' <= MaxNumSteps
      /\ totalSteps' = 0 =>
           currentStep = 0 /\ (mesh'["policy"] = {} \/ remain < Cardinality(mesh'["policy"]))
  <2>1. CASE totalSteps' = totalSteps /\ mesh'["policy"] = mesh["policy"]
    BY <1>1, <2>1 DEF CountsTyped, CountsInv, StepsAreLimited
  <2>2. CASE valid # {} /\ RebuildMesh("policy", valid)
    <3>1. valid \in SUBSET Replicas
      BY FiniteRoles DEF Roles
    <3>. HIDE DEF valid
    <3>2. mesh'["policy"] = valid /\ totalSteps' = Recomputed(valid)
      BY <1>1, <2>2 DEF RebuildMesh, MembersTyped, Roles
    <3>. QED  BY <1>1, <2>2, <3>1, <3>2, RecomputedLimits
  <2>. QED  BY <2>1, <2>2
<1>4. CountsTyped'
  BY <1>1, <1>2, <1>3 DEF CountsTyped
<1>5. UnderWay \in Nat /\ UnderWay' \in Nat /\ UnderWay' <= UnderWay
  BY <1>1, <1>2, CountTypes DEF CountsTyped, UnderWay
<1>6. Cardinality(Taking') \in Nat /\ Cardinality(Taking) \in Nat
      /\ Cardinality(Taking') <= Cardinality(Taking)
  BY FewerMembers, RoleFacts DEF Taking
<1>7. Fed'
  BY <1>1, <1>5 DEF CountsInv, Fed, CountsTyped, MembersTyped
<1>8. StepsAreLimited' /\ TagsAreLimited'
  BY <1>3 DEF CountsInv, StepsAreLimited, TagsAreLimited
<1>9. onTheFly' >= UnderWay' + Cardinality(Taking')
  BY <1>1, <1>5, <1>6 DEF CountsInv, CountsTyped
<1>. QED  BY <1>4, <1>7, <1>8, <1>9 DEF CountsInv

\* What arrival does to n_init_replicas.
LEMMA ArriveAtomCounts ==
  ASSUME CountsTyped, NEW r \in Replicas, ArriveAtom(r)
  PROVE  /\ nInit' \in [Roles -> Nat \ {0}]
         /\ \A role \in Roles : role # RoleOf(r) \/ initDone[role] => nInit'[role] = nInit[role]
<1>. DEFINE role == RoleOf(r)
            n == Cardinality(Registered(atoms', role))
<1>1. role \in Roles /\ nInit \in [Roles -> Nat \ {0}]
  BY DEF CountsTyped, RoleOf, Roles
<1>2. nInit' = [nInit EXCEPT ![role] = IF ~initDone[role] /\ n > @ THEN n ELSE @]
  BY DEF ArriveAtom
<1>3. n \in Nat
  <2>1. Registered(atoms', role) \in SUBSET Replicas
    BY <1>1, FiniteRoles
  <2>. QED  BY <2>1, FiniteReplicas
<1>. HIDE DEF n, role
<1>4. nInit[role] \in Nat \ {0} /\ (n > nInit[role] => n \in Nat \ {0})
  BY <1>1, <1>3
<1>. QED  BY <1>1, <1>2, <1>4 DEF role

LEMMA BroadcastTyped ==
  ASSUME CountsTyped, NEW step \in Nat, NEW source, NEW receivers, Broadcast(source, receivers, step)
  PROVE  version' \in [Rollouts -> Nat \cup {-1}]
BY DEF Broadcast, CountsTyped

\* A handler that starts a step has a unit of samples for each policy, and the step is one of
\* those promised: a total of 0 promises none, since there is no unit for each.
LEMMA TriggerCounts ==
  ASSUME MembersInv, CountsTyped, StepsAreLimited, NEW st \in [Policies -> Statuses],
         \A p \in Policies : (st[p] = "NONE" => status[p] = "NONE")
                             /\ (st[p] \in {"READY", "REDUCED"} => p \in Active),
         NEW buffered \in Nat, buffered <= remain, TryTrigger(st, buffered),
         NEW n, n = Cardinality(Complete(atoms, "policy")),
         NEW taking, taking = {p \in Policies : st[p] \in {"RUNNING", "REDUCED"}}
  PROVE  \/ /\ UNCHANGED <<currentStep, remain, sentTotal, have>>
            /\ pending' = buffered /\ Taking' = taking
         \/ /\ n <= buffered /\ currentStep' = currentStep + 1 /\ currentStep < totalSteps
            /\ remain' = remain - n /\ pending' = buffered - n /\ sentTotal' = totalSteps
            /\ have' \in [Policies -> Nat \cup {-1}]
            /\ Cardinality(Taking') <= Cardinality(taking) + n
<1>. DEFINE arrived == Complete(atoms, "policy")
            start == MayStart(atoms, st, buffered)
<1>1. /\ MembersTyped /\ currentStep \in Nat /\ totalSteps \in Nat /\ remain \in Int
      /\ n \in Nat /\ arrived \in SUBSET Policies
  BY FiniteRoles, FiniteReplicas, RoleFacts DEF MembersInv, MembersTyped, CountsTyped, Roles
<1>2. CASE ~start
  <2>1. /\ currentStep' = currentStep + 0 /\ remain' = remain - 0 /\ pending' = buffered - 0
        /\ sentTotal' = sentTotal /\ status' = [p \in Policies |-> st[p]]
        /\ have' = [p \in Policies |-> have[p]]
    BY <1>2 DEF TryTrigger
  <2>2. status' = st /\ have' = have
    BY <2>1 DEF CountsTyped
  <2>. QED  BY <1>1, <2>1, <2>2 DEF Taking
<1>3. CASE start
  <2>1. /\ currentStep' = currentStep + 1 /\ remain' = remain - n /\ pending' = buffered - n
        /\ sentTotal' = totalSteps
        /\ status' = [p \in Policies |-> IF p \in arrived THEN "RUNNING" ELSE st[p]]
        /\ have' = [p \in Policies |-> IF p \in arrived THEN currentStep + 1 ELSE have[p]]
    BY <1>3 DEF TryTrigger
  <2>2. n <= buffered /\ arrived # {} /\ ~TrainingFinished /\ AllIn(st, {"READY", "REDUCED"})
    BY <1>1, <1>3 DEF MayStart
  <2>3. have' \in [Policies -> Nat \cup {-1}]
    BY <1>1, <2>1 DEF CountsTyped
  <2>4. Cardinality(Taking') <= Cardinality(taking) + n
    <3>1. Taking' \subseteq taking \cup arrived
      BY <2>1 DEF Taking
    <3>2. IsFiniteSet(taking) /\ IsFiniteSet(arrived) /\ taking \cup arrived \in SUBSET Replicas
      BY <1>1, FiniteRoles, RoleFacts
    <3>3. Cardinality(Taking') <= Cardinality(taking \cup arrived)
          /\ Cardinality(Taking') \in Nat /\ Cardinality(taking \cup arrived) \in Nat
      BY <3>1, <3>2, FewerMembers
    <3>4. Cardinality(taking \cup arrived)
            = Cardinality(taking) + Cardinality(arrived) - Cardinality(taking \cap arrived)
      BY <3>2, FS_Union
    <3>5. Cardinality(taking) \in Nat /\ Cardinality(taking \cap arrived) \in Nat
      BY <1>1, FiniteRoles
    <3>. QED  BY <1>1, <3>3, <3>4, <3>5
  <2>5. ASSUME totalSteps = 0 PROVE FALSE
    <3>1. arrived \subseteq Active
      BY <2>2, RoleFacts, CompleteIsWhole DEF AllIn, MembersInv, TablesAgree, Roles
    <3>2. mesh["policy"] = arrived
      BY <2>2, <3>1, GroupIsMesh
    <3>3. remain < n
      BY <2>2, <2>5, <3>2 DEF StepsAreLimited
    <3>. QED  BY <1>1, <2>2, <3>3
  <2>6. currentStep < totalSteps
    BY <1>1, <2>2, <2>5 DEF TrainingFinished
  <2>. QED  BY <2>1, <2>2, <2>3, <2>4, <2>6
<1>. QED  BY <1>2, <1>3

-----------------------------------------------------------------------------
(* One lemma for each kind of step *)

LEMMA InitCounts ==
  ASSUME Init
  PROVE  CountsInv
<1>1. CountsTyped
  <2>1. {PolicyAtoms, RolloutAtoms, InitPolicies, InitRollouts, Prompts, MaxNumSteps}
          \subseteq Nat \ {0}
    BY ConstantsAssumption DEF ConstantsAssumption
  <2>2. nInit \in [Roles -> Nat \ {0}]
    BY <2>1 DEF Init
  <2>3. {firstArrived, monitor, scaled} \subseteq BOOLEAN
    BY DEF Init
  <2>4. /\ have \in [Policies -> Nat \cup {-1}] /\ version \in [Rollouts -> Nat \cup {-1}]
        /\ held \in [Rollouts -> Nat \cup {-1}] /\ inFlight \in [Rollouts -> Nat]
        /\ tagged \in [0..(Prompts + MaxNumSteps) -> Nat]
    BY DEF Init
  <2>5. /\ totalSteps \in Nat /\ sentTotal \in Nat /\ promptsLeft \in Nat /\ pending \in Nat
        /\ onTheFly \in Int
    BY <2>1 DEF Init
  <2>. QED  BY <2>2, <2>3, <2>4, <2>5 DEF CountsTyped
<1>2. inFlight \in [Rollouts -> Int] /\ SumFunction(inFlight) = 0
  <2>1. inFlight \in [Rollouts -> Int] /\ \A r \in Rollouts : inFlight[r] = 0
    BY DEF Init
  <2>. QED  BY <2>1, FiniteRoles, SumZero
<1>3. Holding = {} /\ Taking = {} /\ Cardinality({}) = 0
  BY FS_EmptySet DEF Init, Holding, Taking
<1>4. UnderWay = 0 /\ Cardinality(Taking) = 0
  BY <1>2, <1>3 DEF Init, UnderWay
<1>5. Fed /\ onTheFly >= UnderWay + Cardinality(Taking)
  BY <1>4, FiniteRoles DEF Init, Fed
<1>6. StepsAreLimited /\ TagsAreLimited
  BY FiniteRoles DEF Init, StepsAreLimited, TagsAreLimited, Roles
<1>. QED  BY <1>1, <1>5, <1>6 DEF CountsInv

LEMMA QuietCounts ==
  ASSUME MembersInv, CountsInv, NEW r \in Replicas,
         RegisterAtom(r) \/ Crash(r) \/ Leave(r) \/ Exit(r) \/ MonitorRemove(r) \/ AllReduce
  PROVE  CountsInv'
<1>1. MembersTyped /\ CountsTyped
  BY DEF MembersInv, CountsInv
<1>2. CASE RegisterAtom(r)
  <2>1. /\ ArriveAtom(r)
        /\ UNCHANGED <<meshVars, stepVars, dataVars, weightVars, status, monitor>>
    BY <1>2 DEF RegisterAtom
  <2>2. nInit' \in [Roles -> Nat \ {0}]
    BY <1>1, <2>1, ArriveAtomCounts
  <2>. QED
    BY <1>1, <2>1, <2>2, MembersChange
       DEF meshVars, stepVars, dataVars, promptVars, weightVars, CountsTyped, Taking
<1>3. CASE Crash(r)
  <2>1. /\ Lose(r)
        /\ UNCHANGED <<tableVars, meshVars, stepVars, promptVars, scaled, weightVars, status, monitor>>
    BY <1>3 DEF Crash
  <2>. QED
    BY <1>1, <2>1, MembersChange
       DEF tableVars, meshVars, stepVars, promptVars, weightVars, CountsTyped, Taking
<1>4. CASE AllReduce
  <2>1. UNCHANGED <<tableVars, meshVars, stepVars, dataVars, weightVars, status, monitor>>
    BY <1>4 DEF AllReduce
  <2>. QED
    BY <1>1, <2>1, MembersChange
       DEF tableVars, meshVars, stepVars, dataVars, promptVars, weightVars, CountsTyped, Taking
<1>5. ASSUME Unregister(r), UNCHANGED monitor, UNCHANGED <<inFlight, held>> \/ Lose(r)
      PROVE  CountsInv'
  <2>. DEFINE role == RoleOf(r)
  <2>1. /\ UNCHANGED <<nInit, firstArrived, stepVars, promptVars, weightVars>> /\ scaled' = TRUE
        /\ status' = IF r \in Policies THEN [status EXCEPT ![r] = "NONE"] ELSE status
        /\ \/ KeepMesh
           \/ /\ RebuildMesh(role, Complete(atoms', role))
              /\ role = "policy" => Complete(atoms', role) # {}
    BY <1>5 DEF Unregister
  <2>2. Taking' \subseteq Taking
    BY <1>1, <2>1 DEF MembersTyped, Taking
  <2>3. role \in Roles /\ mesh \in [Roles -> SUBSET Replicas]
    BY <1>1 DEF RoleOf, Roles, MembersTyped
  <2>4. \/ totalSteps' = totalSteps /\ mesh'["policy"] = mesh["policy"]
        \/ /\ Complete(atoms', "policy") # {}
           /\ RebuildMesh("policy", Complete(atoms', "policy"))
    BY <2>1, <2>3 DEF KeepMesh, RebuildMesh, Roles
  <2>. QED
    BY <1>1, <1>5, <2>1, <2>2, <2>4, MembersChange
       DEF stepVars, promptVars, weightVars, CountsTyped
<1>6. CASE Leave(r) \/ Exit(r)
  BY <1>5, <1>6 DEF Leave, Exit
<1>7. CASE MonitorRemove(r)
  <2>1. CASE Unregister(r) /\ UNCHANGED monitor
    BY <1>5, <1>7, <2>1 DEF MonitorRemove
  <2>2. CASE ~(Unregister(r) /\ UNCHANGED monitor)
    <3>1. /\ monitor' = FALSE /\ UNCHANGED <<held, inFlight>>
          /\ UNCHANGED <<nInit, meshVars, stepVars, promptVars, scaled, weightVars, status>>
      BY <1>7, <2>2 DEF MonitorRemove
    <3>. QED
      BY <1>1, <3>1, MembersChange
         DEF meshVars, stepVars, promptVars, weightVars, CountsTyped, Taking
  <2>. QED  BY <2>1, <2>2
<1>. QED  BY <1>2, <1>3, <1>4, <1>6, <1>7

LEMMA RegisterFirstPolicyCounts ==
  ASSUME MembersInv, CountsInv, NEW p \in Policies, RegisterFirstPolicy(p)
  PROVE  CountsInv'
<1>. DEFINE valid == Complete(atoms', "policy")
<1>1. /\ MembersTyped /\ CountsTyped /\ p \in Replicas /\ currentStep \in Nat
      /\ ArriveLast(p) /\ valid = {p} /\ UNCHANGED <<stepVars, dataVars, monitor>>
  BY RoleFacts DEF MembersInv, MembersTyped, CountsInv, RegisterFirstPolicy
<1>2. nInit' \in [Roles -> Nat \ {0}]
  BY <1>1, ArriveAtomCounts DEF ArriveLast
<1>3. /\ firstArrived' = firstArrived \/ firstArrived' = TRUE
      /\ KeepMesh \/ RebuildMesh("policy", valid)
      /\ have' = have \/ have' = [have EXCEPT ![p] = currentStep]
      /\ version' = version \/ \E ldd : FirstWeights(ldd)
      /\ status' = [status EXCEPT ![p] = "UNINITIALIZED"] \/ status' = [status EXCEPT ![p] = "READY"]
  BY <1>1 DEF RegisterFirstPolicy, weightVars, CountsTyped
<1>4. have' \in [Policies -> Nat \cup {-1}]
  BY <1>1, <1>3 DEF CountsTyped
<1>5. version' \in [Rollouts -> Nat \cup {-1}]
  <2>1. ASSUME NEW ldd, FirstWeights(ldd) PROVE version' \in [Rollouts -> Nat \cup {-1}]
    <3>1. version' = version \/ \E source, receivers : Broadcast(source, receivers, currentStep)
      BY <2>1 DEF FirstWeights
    <3>. QED  BY <1>1, <3>1, BroadcastTyped DEF CountsTyped
  <2>. QED  BY <1>1, <1>3, <2>1 DEF CountsTyped
<1>6. Taking' \subseteq Taking
  BY <1>1, <1>3 DEF Taking, MembersTyped
<1>7. valid # {}
  BY <1>1
<1>. HIDE DEF valid
<1>8. \/ totalSteps' = totalSteps /\ mesh'["policy"] = mesh["policy"]
      \/ valid # {} /\ RebuildMesh("policy", valid)
  BY <1>3, <1>7 DEF KeepMesh
<1>9. /\ {firstArrived', monitor', scaled'} \subseteq BOOLEAN
      /\ UNCHANGED <<currentStep, remain, pending, sentTotal, promptsLeft, tagged, onTheFly>>
      /\ UNCHANGED <<inFlight, held>>
  <2>1. monitor' = monitor /\ scaled' = scaled
    BY <1>1 DEF dataVars
  <2>2. {firstArrived, monitor, scaled} \subseteq BOOLEAN
    BY <1>1 DEF CountsTyped
  <2>3. {firstArrived', monitor', scaled'} \subseteq BOOLEAN
    BY <1>3, <2>1, <2>2, Zenon
  <2>. QED  BY <1>1, <2>3 DEF stepVars, dataVars, promptVars
<1>. QED
  BY <1>1, <1>2, <1>4, <1>5, <1>6, <1>8, <1>9, MembersChange DEF valid

LEMMA RegisterPolicyCounts ==
  ASSUME MembersInv, CountsInv, NEW p \in Policies, RegisterPolicy(p)
  PROVE  CountsInv'
<1>. DEFINE valid == Complete(atoms', "policy")
            source == WeightSource(valid)
<1>1. /\ MembersTyped /\ CountsTyped /\ p \in Replicas /\ currentStep \in Nat
      /\ ArriveLast(p) /\ UNCHANGED <<firstArrived, version, stepVars, dataVars, monitor>>
  BY RoleFacts DEF MembersInv, MembersTyped, CountsInv, RegisterPolicy
<1>2. nInit' \in [Roles -> Nat \ {0}]
  BY <1>1, ArriveAtomCounts DEF ArriveLast
<1>3. valid # {} /\ valid \subseteq Policies
  <2>1. valid = Complete(atoms, "policy") \cup {p}
    BY <1>1, ArriveLastEffect, RoleFacts
  <2>. QED  BY <2>1, RoleFacts DEF Complete
<1>4. valid \cap loaded # {} => source \in Policies
  <2>1. startTime' \in [Replicas -> Nat] /\ valid \cap loaded \in SUBSET Replicas
    BY <1>1, <1>3, ArriveLastEffect, RoleFacts
  <2>2. valid \cap loaded # {} => source \in valid \cap loaded
    BY <2>1, EarliestIn DEF WeightSource
  <2>. QED  BY <1>3, <2>2
<1>. HIDE DEF source, valid
<1>5. /\ KeepMesh \/ RebuildMesh("policy", valid)
      /\ \/ have' = have /\ status' = [status EXCEPT ![p] = "UNINITIALIZED"]
         \/ /\ valid \cap loaded # {}
            /\ have' = [q \in Policies |-> IF q \in valid THEN have[source] ELSE have[q]]
            /\ status' = [q \in Policies |-> IF q \in valid THEN "READY" ELSE status[q]]
         \/ /\ valid \cap loaded # {} /\ have' = [have EXCEPT ![p] = have[source]]
            /\ status' = [status EXCEPT ![p] = "READY"]
  BY DEF RegisterPolicy, valid, source
<1>6. have' \in [Policies -> Nat \cup {-1}]
  BY <1>1, <1>4, <1>5 DEF CountsTyped
<1>7. Taking' \subseteq Taking
  BY <1>1, <1>5 DEF Taking, MembersTyped
<1>8. \/ totalSteps' = totalSteps /\ mesh'["policy"] = mesh["policy"]
      \/ valid # {} /\ RebuildMesh("policy", valid)
  BY <1>3, <1>5 DEF KeepMesh
<1>. QED
  BY <1>1, <1>2, <1>6, <1>7, <1>8, MembersChange
     DEF stepVars, dataVars, promptVars, valid, CountsTyped

LEMMA RegisterRolloutCounts ==
  ASSUME MembersInv, CountsInv, NEW r \in Rollouts, RegisterRollout(r)
  PROVE  CountsInv'
<1>. DEFINE valid == Complete(atoms', "rollout")
<1>1. /\ MembersTyped /\ CountsTyped /\ r \in Replicas /\ currentStep \in Nat
      /\ ArriveLast(r) /\ UNCHANGED <<firstArrived, have, status, stepVars, dataVars, monitor>>
  BY RoleFacts DEF MembersInv, MembersTyped, CountsInv, RegisterRollout
<1>2. nInit' \in [Roles -> Nat \ {0}]
  BY <1>1, ArriveAtomCounts DEF ArriveLast
<1>3. /\ KeepMesh \/ RebuildMesh("rollout", valid)
      /\ \E source, receivers : Broadcast(source, receivers, currentStep)
  BY DEF RegisterRollout
<1>4. version' \in [Rollouts -> Nat \cup {-1}]
  BY <1>1, <1>3, BroadcastTyped
<1>5. totalSteps' = totalSteps /\ mesh'["policy"] = mesh["policy"]
  BY <1>1, <1>3 DEF KeepMesh, RebuildMesh, MembersTyped, Roles
<1>6. Taking' = Taking
  BY <1>1 DEF Taking
<1>. QED
  BY <1>1, <1>2, <1>4, <1>5, <1>6, MembersChange DEF stepVars, dataVars, promptVars, CountsTyped

LEMMA GenerateHeldCounts ==
  ASSUME MembersInv, CountsInv, NEW r \in Rollouts, GenerateHeld(r)
  PROVE  CountsInv'
<1>1. /\ CountsTyped /\ held[r] >= 0 /\ held' = [held EXCEPT ![r] = -1]
      /\ inFlight' = [inFlight EXCEPT ![r] = inFlight[r] + 1] /\ inFlight[r] \in Nat
      /\ UNCHANGED <<processVars, tableVars, meshVars, stepVars, promptVars, weightVars, scaled, status,
                     monitor>>
  BY DEF CountsInv, CountsTyped, GenerateHeld
<1>2. inFlight' \in [Rollouts -> Nat] /\ SumFunction(inFlight') = SumFunction(inFlight) + 1
  <2>1. /\ inFlight' \in [Rollouts -> Nat]
        /\ SumFunction(inFlight') = SumFunction(inFlight) - inFlight[r] + (inFlight[r] + 1)
    <3>1. \A v \in Nat : inFlight' = [inFlight EXCEPT ![r] = v] =>
            /\ inFlight' \in [Rollouts -> Nat]
            /\ SumFunction(inFlight') = SumFunction(inFlight) - inFlight[r] + v
      BY <1>1, InFlightDiffers
    <3>2. inFlight[r] + 1 \in Nat
      BY <1>1
    <3>. QED  BY <1>1, <3>1, <3>2
  <2>2. SumFunction(inFlight) \in Nat
    BY <1>1, CountTypes
  <2>. QED  BY <1>1, <2>1, <2>2
<1>3. Cardinality(Holding') = Cardinality(Holding) - 1
  <2>1. r \in Holding /\ Holding' = Holding \ {r}
    BY <1>1 DEF Holding, CountsTyped
  <2>2. IsFiniteSet(Holding)
    BY FiniteRoles DEF Holding
  <2>. QED  BY <2>1, <2>2, FS_RemoveElement
<1>4. UnderWay' = UnderWay /\ Taking' = Taking
  <2>1. SumFunction(inFlight) \in Nat /\ Cardinality(Holding) \in Nat /\ pending \in Nat
    BY <1>1, CountTypes DEF CountsTyped
  <2>2. pending' = pending /\ Taking' = Taking
    BY <1>1 DEF stepVars, Taking
  <2>. QED  BY <1>2, <1>3, <2>1, <2>2 DEF UnderWay
<1>5. CountsTyped'
  BY <1>1, <1>2
     DEF CountsTyped, tableVars, meshVars, stepVars, promptVars, weightVars
<1>. QED
  BY <1>1, <1>4, <1>5
     DEF CountsInv, Fed, StepsAreLimited, TagsAreLimited, meshVars, stepVars, promptVars

\* The first tag from the current step on that still has room: there is one, since every
\* prompt taken so far has moved the last tag by one at most.
LEMMA NextTagFits ==
  ASSUME MembersInv, CountsInv, PerStep > 0, promptsLeft > 0
  PROVE  NextTag \in 0..(Prompts + MaxNumSteps) /\ NextTag <= MaxNumSteps + (Prompts - promptsLeft)
<1>. DEFINE top == MaxNumSteps + (Prompts - promptsLeft)
            all == 0..(Prompts + MaxNumSteps)
            start == currentStep + pending \div PerStep
            full(v) == \A u \in start..(v - 1) : tagged[u] >= PerStep
            B == {v \in all : v >= start /\ tagged[v] < PerStep}
<1>1. PerStep \in Nat \ {0}
  <2>1. Registered(atoms, "policy") \in SUBSET Policies
    BY FiniteRoles, RoleFacts DEF Roles
  <2>2. PerStep \in Nat
    BY <2>1, FiniteRoles DEF PerStep
  <2>. QED  BY <2>2
<1>2. /\ promptsLeft \in Nat \ {0} /\ promptsLeft + pending <= Prompts /\ pending \in Nat
      /\ currentStep \in Nat /\ currentStep <= MaxNumSteps
      /\ Prompts \in Nat /\ MaxNumSteps \in Nat /\ tagged \in [all -> Nat]
  <2>1. SumFunction(inFlight) \in Nat /\ Cardinality(Holding) \in Nat
    BY CountTypes DEF CountsInv
  <2>2. remain >= promptsLeft + (SumFunction(inFlight) + Cardinality(Holding) + pending)
        /\ remain <= Prompts /\ remain \in Int
    BY DEF CountsInv, Fed, UnderWay, MembersInv, MembersTyped
  <2>. QED
    BY <2>1, <2>2, FiniteRoles
       DEF CountsInv, CountsTyped, StepsAreLimited, MembersInv, MembersTyped
<1>3. start \in Nat /\ start <= top
  <2>1. \A a \in Nat, b \in Nat \ {0} : a \div b \in Nat /\ a \div b <= a
    OBVIOUS
  <2>2. pending \div PerStep \in Nat /\ pending \div PerStep <= pending
    BY <1>1, <1>2, <2>1
  <2>. QED  BY <1>2, <2>2
<1>4. top \in all /\ tagged[top] = 0
  <2>1. top \in all /\ tagged[top] \in Nat
    BY <1>2
  <2>2. ~(top < MaxNumSteps + (Prompts - promptsLeft))
    BY <1>2
  <2>. QED  BY <2>1, <2>2 DEF CountsInv, TagsAreLimited
<1>. HIDE DEF start
<1>5. \E v \in all : v >= start /\ tagged[v] < PerStep /\ full(v)
  <2>1. top \in B
    BY <1>1, <1>3, <1>4
  <2>2. PICK v \in B : \A u \in B : v <= u
    <3>1. B \subseteq Nat /\ B # {}
      BY <2>1
    <3>. HIDE DEF B
    <3>. QED  BY <3>1, LeastElement
  <2>3. ASSUME NEW u \in start..(v - 1) PROVE tagged[u] >= PerStep
    <3>1. u \in all /\ u >= start /\ u < v
      BY <1>2, <1>3, <2>2
    <3>2. u \notin B /\ tagged[u] \in Nat
      BY <1>2, <2>2, <3>1
    <3>. QED  BY <1>1, <3>1, <3>2
  <2>. QED  BY <2>2, <2>3
<1>6. DOMAIN tagged = all
  BY <1>2
<1>7. NextTag = CHOOSE v \in all : v >= start /\ tagged[v] < PerStep /\ full(v)
  BY <1>6 DEF NextTag, start
<1>8. NextTag \in all /\ full(NextTag)
  BY <1>5, <1>7
<1>. HIDE DEF NextTag
<1>9. ASSUME NextTag > top PROVE FALSE
  <2>1. top \in start..(NextTag - 1)
    BY <1>2, <1>3, <1>8, <1>9
  <2>. QED  BY <1>1, <1>4, <1>8, <2>1
<1>. QED  BY <1>2, <1>8, <1>9

LEMMA FetchCounts ==
  ASSUME MembersInv, CountsInv, NEW r \in Rollouts, Fetch(r)
  PROVE  CountsInv'
<1>. DEFINE tag == IF scaled THEN 0 ELSE NextTag
<1>1. /\ CountsTyped /\ held[r] = -1 /\ promptsLeft > 0 /\ PerStep > 0
      /\ promptsLeft' = promptsLeft - 1 /\ onTheFly' = onTheFly + 1
      /\ tagged' = IF scaled THEN tagged ELSE [tagged EXCEPT ![NextTag] = tagged[NextTag] + 1]
      /\ \/ inFlight' = [inFlight EXCEPT ![r] = inFlight[r] + 1] /\ held' = held
         \/ held' = [held EXCEPT ![r] = tag] /\ inFlight' = inFlight
      /\ UNCHANGED <<processVars, tableVars, meshVars, stepVars, weightVars, scaled, status, monitor>>
  BY DEF CountsInv, CountsTyped, Fetch
<1>2. NextTag \in 0..(Prompts + MaxNumSteps) /\ NextTag <= MaxNumSteps + (Prompts - promptsLeft)
  BY <1>1, NextTagFits
<1>. HIDE DEF NextTag
<1>3. /\ inFlight[r] \in Nat /\ inFlight[r] + 1 \in Nat /\ tag \in Nat /\ IsFiniteSet(Holding)
      /\ SumFunction(inFlight) \in Nat /\ Cardinality(Holding) \in Nat /\ pending \in Nat
  <2>1. inFlight[r] \in Nat /\ pending \in Nat
    BY <1>1 DEF CountsTyped
  <2>2. tag \in Nat
    BY <1>2, FiniteRoles
  <2>3. IsFiniteSet(Holding)
    BY FiniteRoles DEF Holding
  <2>. QED  BY <1>1, <2>1, <2>2, <2>3, CountTypes
<1>. HIDE DEF tag
<1>4. /\ UnderWay' = UnderWay + 1
      /\ inFlight' \in [Rollouts -> Nat] /\ held' \in [Rollouts -> Nat \cup {-1}]
  <2>1. CASE inFlight' = [inFlight EXCEPT ![r] = inFlight[r] + 1] /\ held' = held
    <3>1. \A v \in Nat : inFlight' = [inFlight EXCEPT ![r] = v] =>
            /\ inFlight' \in [Rollouts -> Nat]
            /\ SumFunction(inFlight') = SumFunction(inFlight) - inFlight[r] + v
      BY <1>1, InFlightDiffers
    <3>2. /\ inFlight' \in [Rollouts -> Nat]
          /\ SumFunction(inFlight') = SumFunction(inFlight) - inFlight[r] + (inFlight[r] + 1)
      BY <1>3, <2>1, <3>1
    <3>3. Holding' = Holding /\ pending' = pending
      BY <1>1, <2>1 DEF Holding, stepVars
    <3>. QED  BY <1>1, <1>3, <2>1, <3>2, <3>3 DEF UnderWay, CountsTyped
  <2>2. CASE held' = [held EXCEPT ![r] = tag] /\ inFlight' = inFlight
    <3>1. r \notin Holding /\ Holding' = Holding \cup {r}
      BY <1>1, <1>3, <2>2 DEF Holding, CountsTyped
    <3>2. Cardinality(Holding') = Cardinality(Holding) + 1
      BY <1>3, <3>1, FS_AddElement
    <3>3. SumFunction(inFlight') = SumFunction(inFlight) /\ pending' = pending
      BY <1>1, <2>2 DEF stepVars
    <3>4. UnderWay' = UnderWay + 1
      BY <1>3, <3>2, <3>3 DEF UnderWay
    <3>5. inFlight' \in [Rollouts -> Nat] /\ held' \in [Rollouts -> Nat \cup {-1}]
      BY <1>1, <1>3, <2>2 DEF CountsTyped
    <3>. QED  BY <3>4, <3>5
  <2>. QED  BY <1>1, <2>1, <2>2
<1>5. /\ promptsLeft \in Nat \ {0} /\ promptsLeft' \in Nat /\ onTheFly \in Int
      /\ tagged \in [0..(Prompts + MaxNumSteps) -> Nat]
      /\ tagged' \in [0..(Prompts + MaxNumSteps) -> Nat]
  <2>1. /\ promptsLeft \in Nat /\ onTheFly \in Int
        /\ tagged \in [0..(Prompts + MaxNumSteps) -> Nat]
    BY <1>1 DEF CountsTyped
  <2>2. promptsLeft \in Nat \ {0} /\ promptsLeft' \in Nat
    BY <1>1, <2>1
  <2>3. tagged[NextTag] + 1 \in Nat
    BY <1>2, <2>1
  <2>4. tagged' \in [0..(Prompts + MaxNumSteps) -> Nat]
    BY <1>1, <1>2, <2>1, <2>3
  <2>. QED  BY <2>1, <2>2, <2>4
<1>6. CountsTyped'
  BY <1>1, <1>4, <1>5 DEF CountsTyped, tableVars, meshVars, stepVars, weightVars
<1>7. UnderWay \in Nat /\ Cardinality(Taking) \in Nat /\ Taking' = Taking
  BY <1>1, CountTypes DEF Taking
<1>8. Fed' /\ onTheFly' >= UnderWay' + Cardinality(Taking')
  BY <1>1, <1>4, <1>5, <1>7 DEF CountsInv, Fed, stepVars, MembersInv, MembersTyped
<1>9. StepsAreLimited'
  BY <1>1 DEF CountsInv, StepsAreLimited, meshVars, stepVars
<1>10. TagsAreLimited'
  <2>1. \A v \in 0..(Prompts + MaxNumSteps) :
          tagged[v] > 0 => v < MaxNumSteps + (Prompts - promptsLeft)
    BY DEF CountsInv, TagsAreLimited
  <2>2. \A v \in 0..(Prompts + MaxNumSteps) : tagged'[v] = tagged[v] \/ v = NextTag
    BY <1>1, <1>5
  <2>3. MaxNumSteps \in Nat /\ Prompts \in Nat
    BY FiniteRoles
  <2>. QED  BY <1>1, <1>2, <1>5, <2>1, <2>2, <2>3 DEF TagsAreLimited
<1>. QED  BY <1>6, <1>8, <1>9, <1>10 DEF CountsInv

\* The parts that a report and an acknowledgement have in common, once the trigger attempt
\* has been made with the samples and statuses that they leave.
LEMMA TriggeredCounts ==
  ASSUME MembersInv, CountsInv, NEW st \in [Policies -> Statuses],
         \A p \in Policies : (st[p] = "NONE" => status[p] = "NONE")
                             /\ (st[p] \in {"READY", "REDUCED"} => p \in Active),
         NEW buffered \in Nat, TryTrigger(st, buffered),
         NEW n, n = Cardinality(Complete(atoms, "policy")),
         NEW taking, taking = {p \in Policies : st[p] \in {"RUNNING", "REDUCED"}},
         inFlight' \in [Rollouts -> Nat], version' \in [Rollouts -> Nat \cup {-1}],
         onTheFly' \in Int,
         SumFunction(inFlight') + Cardinality(Holding) + buffered <= UnderWay,
         onTheFly' >= UnderWay + Cardinality(taking),
         UNCHANGED <<nInit, mesh, totalSteps, firstArrived, promptsLeft, tagged, scaled, held, monitor>>
  PROVE  CountsInv'
<1>1. /\ CountsTyped /\ MembersTyped /\ StepsAreLimited /\ Fed
      /\ currentStep \in Nat /\ totalSteps \in Nat /\ remain \in Int /\ promptsLeft \in Nat
      /\ currentStep <= MaxNumSteps /\ totalSteps <= MaxNumSteps /\ MaxNumSteps \in Nat
  BY FiniteRoles DEF MembersInv, CountsInv, MembersTyped, CountsTyped, StepsAreLimited
<1>2. /\ UnderWay \in Nat /\ SumFunction(inFlight') \in Nat /\ Cardinality(Holding) \in Nat
      /\ Holding' = Holding /\ n \in Nat /\ Cardinality(taking) \in Nat
      /\ Cardinality(Taking') \in Nat
  <2>1. SumFunction(inFlight') \in Nat
    BY FiniteRoles, SumNat
  <2>2. Complete(atoms, "policy") \in SUBSET Policies
    BY FiniteRoles, RoleFacts DEF Roles
  <2>. QED  BY <1>1, <2>1, <2>2, FiniteRoles, CountTypes DEF Holding, Taking
<1>3. buffered <= remain
  BY <1>1, <1>2 DEF Fed
<1>4. \/ /\ UNCHANGED <<currentStep, remain, sentTotal, have>>
         /\ pending' = buffered /\ Taking' = taking
      \/ /\ n <= buffered /\ currentStep' = currentStep + 1 /\ currentStep < totalSteps
         /\ remain' = remain - n /\ pending' = buffered - n /\ sentTotal' = totalSteps
         /\ have' \in [Policies -> Nat \cup {-1}]
         /\ Cardinality(Taking') <= Cardinality(taking) + n
  BY <1>1, <1>3, TriggerCounts
<1>5. CountsTyped'
  <2>1. /\ pending' \in Nat /\ sentTotal' \in Nat /\ have' \in [Policies -> Nat \cup {-1}]
    <3>1. CASE pending' = buffered /\ UNCHANGED <<sentTotal, have>>
      BY <1>1, <3>1 DEF CountsTyped
    <3>2. CASE /\ n <= buffered /\ pending' = buffered - n /\ sentTotal' = totalSteps
               /\ have' \in [Policies -> Nat \cup {-1}]
      BY <1>1, <1>2, <3>2
    <3>. QED  BY <1>4, <3>1, <3>2
  <2>. QED  BY <1>1, <2>1 DEF CountsTyped
<1>6. Fed' /\ onTheFly' >= UnderWay' + Cardinality(Taking')
  <2>1. UnderWay' = SumFunction(inFlight') + Cardinality(Holding) + pending'
    BY <1>2 DEF UnderWay
  <2>2. remain >= promptsLeft + UnderWay /\ remain <= Prompts /\ Prompts \in Nat
    BY <1>1, FiniteRoles DEF Fed
  <2>3. CASE pending' = buffered /\ remain' = remain /\ Taking' = taking
    BY <1>1, <1>2, <2>1, <2>2, <2>3 DEF Fed
  <2>4. CASE /\ n <= buffered /\ remain' = remain - n /\ pending' = buffered - n
             /\ Cardinality(Taking') <= Cardinality(taking) + n
    BY <1>1, <1>2, <2>1, <2>2, <2>4 DEF Fed
  <2>. QED  BY <1>4, <2>3, <2>4
<1>7. StepsAreLimited'
  BY <1>1, <1>4 DEF StepsAreLimited
<1>8. TagsAreLimited'
  BY DEF CountsInv, TagsAreLimited
<1>. QED  BY <1>5, <1>6, <1>7, <1>8 DEF CountsInv

LEMMA ReportCounts ==
  ASSUME MembersInv, CountsInv, NEW r \in Rollouts, Report(r)
  PROVE  CountsInv'
<1>1. /\ CountsTyped /\ inFlight[r] \in Nat /\ inFlight[r] > 0 /\ pending \in Nat
      /\ inFlight' = [inFlight EXCEPT ![r] = inFlight[r] - 1]
      /\ TryTrigger(status, pending + 1)
      /\ UNCHANGED <<processVars, tableVars, meshVars, loaded, version, synced, promptVars, scaled, held,
                     monitor>>
  BY DEF CountsInv, CountsTyped, Report
<1>2. inFlight[r] - 1 \in Nat /\ pending + 1 \in Nat
  BY <1>1
<1>3. /\ inFlight' \in [Rollouts -> Nat]
      /\ SumFunction(inFlight') = SumFunction(inFlight) - inFlight[r] + (inFlight[r] - 1)
  <2>1. \A v \in Nat : inFlight' = [inFlight EXCEPT ![r] = v] =>
          /\ inFlight' \in [Rollouts -> Nat]
          /\ SumFunction(inFlight') = SumFunction(inFlight) - inFlight[r] + v
    BY <1>1, InFlightDiffers
  <2>. QED  BY <1>1, <1>2, <2>1
<1>4. SumFunction(inFlight') + Cardinality(Holding) + (pending + 1) <= UnderWay
  <2>1. SumFunction(inFlight) \in Nat /\ Cardinality(Holding) \in Nat
    BY <1>1, CountTypes
  <2>. QED  BY <1>1, <1>3, <2>1 DEF UnderWay
<1>5. /\ status \in [Policies -> Statuses]
      /\ \A p \in Policies : (status[p] = "NONE" => status[p] = "NONE")
                             /\ (status[p] \in {"READY", "REDUCED"} => p \in Active)
      /\ {p \in Policies : status[p] \in {"RUNNING", "REDUCED"}} = Taking
  BY DEF MembersInv, MembersTyped, Active, Taking
<1>6. /\ UNCHANGED <<nInit, mesh, totalSteps, firstArrived, promptsLeft, tagged, scaled, held, monitor>>
      /\ version' \in [Rollouts -> Nat \cup {-1}]
      /\ onTheFly' \in Int /\ onTheFly' >= UnderWay + Cardinality(Taking)
  BY <1>1 DEF tableVars, meshVars, promptVars, CountsTyped, CountsInv
<1>. QED  BY <1>1, <1>2, <1>3, <1>4, <1>5, <1>6, TriggeredCounts

LEMMA AckCounts ==
  ASSUME MembersInv, CountsInv, NEW p \in Policies, Ack(p)
  PROVE  CountsInv'
<1>. DEFINE st == [status EXCEPT ![p] = "REDUCED"]
            ready == [q \in Policies |-> IF st[q] = "NONE" THEN "NONE" ELSE "READY"]
            n == Cardinality(Complete(atoms, "policy"))
<1>1. /\ CountsTyped /\ MembersTyped /\ currentStep \in Nat /\ pending \in Nat
      /\ status[p] = "RUNNING" /\ p \in Active
      /\ st \in [Policies -> Statuses] /\ ready \in [Policies -> Statuses]
  <2>1. CountsTyped /\ MembersTyped /\ currentStep \in Nat /\ pending \in Nat
    BY DEF CountsInv, CountsTyped, MembersInv, MembersTyped
  <2>2. status[p] = "RUNNING" /\ status \in [Policies -> Statuses]
    BY DEF Ack, MembersInv, MembersTyped, TablesAgree
  <2>3. st \in [Policies -> Statuses] /\ ready \in [Policies -> Statuses] /\ p \in Active
    BY <2>2 DEF Statuses, Active
  <2>. QED  BY <2>1, <2>2, <2>3
<1>2. /\ UNCHANGED <<nInit, mesh, totalSteps, firstArrived, promptsLeft, tagged, scaled, held,
                     inFlight, monitor>>
      /\ version' = version \/ \E source, receivers : Broadcast(source, receivers, currentStep)
      /\ Barrier(st) => onTheFly' = onTheFly - n /\ TryTrigger(ready, pending)
      /\ ~Barrier(st) => status' = st /\ UNCHANGED <<onTheFly, stepVars, have>>
  BY DEF Ack, tableVars, meshVars
<1>3. version' \in [Rollouts -> Nat \cup {-1}]
  BY <1>1, <1>2, BroadcastTyped DEF CountsTyped
<1>4. CASE ~Barrier(st)
  <2>1. Taking' = Taking
    BY <1>1, <1>2, <1>4 DEF Taking, MembersTyped
  <2>2. UnderWay' = UnderWay
    BY <1>2, <1>4 DEF UnderWay, Holding, stepVars
  <2>3. CountsTyped'
    BY <1>1, <1>2, <1>3, <1>4 DEF CountsTyped, stepVars
  <2>. QED
    BY <1>2, <1>4, <2>1, <2>2, <2>3
       DEF CountsInv, Fed, StepsAreLimited, TagsAreLimited, stepVars
<1>5. CASE Barrier(st)
  <2>1. \A q \in Policies : status[q] # "NONE" => q \in Taking
    BY <1>1, <1>5 DEF Barrier, AllIn, Taking, MembersTyped
  <2>2. Complete(atoms, "policy") \subseteq Taking
    BY <2>1, RoleFacts, CompleteIsWhole DEF MembersInv, TablesAgree, Roles
  <2>3. n <= Cardinality(Taking) /\ n \in Nat /\ Cardinality(Taking) \in Nat
    BY <2>2, FewerMembers, RoleFacts DEF Taking
  <2>4. {q \in Policies : ready[q] \in {"RUNNING", "REDUCED"}} = {} /\ Cardinality({}) = 0
    BY FS_EmptySet
  <2>5. \A q \in Policies : (ready[q] = "NONE" => status[q] = "NONE")
                            /\ (ready[q] \in {"READY", "REDUCED"} => q \in Active)
    BY <1>1, <2>1 DEF MembersTyped, Taking, Active
  <2>6. UnderWay \in Nat /\ onTheFly \in Int /\ onTheFly >= UnderWay + Cardinality(Taking)
    BY <1>1, CountTypes DEF CountsInv, CountsTyped
  <2>7. onTheFly' = onTheFly - n /\ TryTrigger(ready, pending)
    BY <1>2, <1>5
  <2>. HIDE DEF ready, n
  <2>8. onTheFly' \in Int /\ onTheFly' >= UnderWay + Cardinality({})
    BY <2>3, <2>4, <2>6, <2>7
  <2>9. /\ inFlight' \in [Rollouts -> Nat]
        /\ SumFunction(inFlight') + Cardinality(Holding) + pending <= UnderWay
    BY <1>1, <1>2, <2>6 DEF UnderWay, CountsTyped
  <2>. QED
    BY <1>1, <1>2, <1>3, <2>4, <2>5, <2>7, <2>8, <2>9, TriggeredCounts DEF n
<1>. QED  BY <1>4, <1>5

LEMMA CountsStep ==
  ASSUME MembersInv, CountsInv, [Next]_vars
  PROVE  CountsInv'
<1>1. CASE UNCHANGED vars
  BY <1>1
     DEF vars, processVars, tableVars, meshVars, stepVars, dataVars, promptVars, weightVars,
         CountsInv, CountsTyped, Fed, StepsAreLimited, TagsAreLimited, UnderWay, Holding, Taking
<1>2. ASSUME NEW r \in Replicas, Register(r) PROVE CountsInv'
  BY <1>2, QuietCounts, RegisterFirstPolicyCounts, RegisterPolicyCounts, RegisterRolloutCounts
     DEF Register
<1>3. ASSUME NEW r \in Replicas, Leave(r) \/ Exit(r) \/ Crash(r) \/ MonitorRemove(r) PROVE CountsInv'
  BY <1>3, QuietCounts
<1>4. ASSUME NEW r \in Rollouts, Fetch(r) \/ GenerateHeld(r) \/ Report(r) PROVE CountsInv'
  BY <1>4, FetchCounts, GenerateHeldCounts, ReportCounts
<1>5. ASSUME NEW p \in Policies, Ack(p) PROVE CountsInv'
  BY <1>5, AckCounts
<1>6. CASE AllReduce
  <2>1. PICK p : p \in Policies
    BY <1>6 DEF AllReduce
  <2>2. p \in Replicas
    BY <2>1, RoleFacts
  <2>. QED  BY <1>6, <2>2, QuietCounts
<1>. QED  BY <1>1, <1>2, <1>3, <1>4, <1>5, <1>6 DEF Next

LEMMA CountsImply ==
  ASSUME MembersInv, CountsInv
  PROVE  TypeOK /\ OnTheFlyCovers
<1>1. CountsTyped /\ MembersTyped
  BY DEF MembersInv, CountsInv
<1>2. UnderWay \in Nat /\ Cardinality(Taking) \in Nat
  BY <1>1, CountTypes
<1>3. remain \in Nat /\ onTheFly \in Nat
  BY <1>1, <1>2 DEF CountsInv, CountsTyped, Fed, MembersTyped
<1>4. OnTheFlyCovers
  <2>1. onTheFly >= UnderWay + Cardinality(Taking)
    BY DEF CountsInv
  <2>. QED  BY <2>1 DEF OnTheFlyCovers, UnderWay, Holding, Taking
<1>5. TypeOK
  BY <1>1, <1>3 DEF TypeOK, CountsTyped, MembersTyped
<1>. QED  BY <1>4, <1>5

LEMMA CountsAlways == Spec => [](MembersInv /\ CountsInv)
<1>1. Init => MembersInv /\ CountsInv
  BY InitStep, InitCounts
<1>2. MembersInv /\ CountsInv /\ [Next]_vars => MembersInv' /\ CountsInv'
  BY MembersStep, CountsStep
<1>. QED  BY <1>1, <1>2, PTL DEF Spec

\* Every reachable state of the controller's tables, counters and prompts, of the replicas
\* and of their weights is well typed: no counter falls below zero, and the search for the
\* first weight version with room for a prompt (weight_version_to_prompt_num) finds one.
THEOREM MembershipTypeOK == Spec => []TypeOK
<1>1. MembersInv /\ CountsInv => TypeOK
  BY CountsImply
<1>. QED  BY <1>1, CountsAlways, PTL

\* samples_on_the_fly covers what is generated, waits or is trained on, whoever registers,
\* dies or is removed in the middle, so that the assertion of train_ack cannot fail.
THEOREM FlightIsCovered == Spec => []OnTheFlyCovers
<1>1. MembersInv /\ CountsInv => OnTheFlyCovers
  BY CountsImply
<1>. QED  BY <1>1, CountsAlways, PTL

-----------------------------------------------------------------------------
(* The first weights of the rollouts *)

\* While no rollout is lost: once the group of the rollouts is there, somebody in it has
\* been sent weights, or no policy has any to send.
Served ==
  /\ Cardinality(Complete(atoms, "rollout")) >= nInit["rollout"]
  /\ \/ \E r \in Complete(atoms, "rollout") : version[r] >= 0
     \/ Complete(atoms, "policy") \cap loaded = {}

ServedInv ==
  /\ ~firstArrived => Policies \cap loaded = {}
  /\ ~TrainingFinished /\ initDone["rollout"] /\ Rollouts \cap Lost = {} => Served

\* What every step keeps.
Onward ==
  /\ \A r \in Replicas : proc[r] = "gone" => proc'[r] = "gone"
  /\ TrainingFinished => TrainingFinished'
  /\ \A r \in Rollouts : Whole(r) /\ proc'[r] # "gone" => Whole(r)'
  /\ \A r \in Rollouts : version[r] >= 0 => version'[r] >= 0
  /\ initDone["rollout"] => nInit'["rollout"] = nInit["rollout"]

LEMMA BroadcastOn ==
  ASSUME CountsTyped, NEW step \in Nat, NEW source, NEW receivers, Broadcast(source, receivers, step)
  PROVE  \A r \in Rollouts : version[r] >= 0 => version'[r] >= 0
BY DEF Broadcast, CountsTyped

LEMMA FinishedOn ==
  ASSUME \/ KeepMesh \/ (\E role, members : RebuildMesh(role, members)),
         UNCHANGED currentStep
  PROVE  TrainingFinished => TrainingFinished'
BY DEF KeepMesh, RebuildMesh, Recomputed, TrainingFinished

\* Steps after which no policy has weights to send unless one had before.
LEMMA ServedOn ==
  ASSUME MembersInv, MembersInv', CountsTyped, ServedInv, Onward, UNCHANGED firstArrived,
         initDone'["rollout"] = initDone["rollout"],
         Policies \cap loaded' # {} => Policies \cap loaded # {},
         Complete(atoms', "policy") \cap loaded' # {} => Complete(atoms, "policy") \cap loaded # {}
  PROVE  ServedInv'
<1>1. ASSUME ~TrainingFinished', initDone'["rollout"], Rollouts \cap Lost' = {}
      PROVE  Served'
  <2>1. \A r \in Rollouts : proc'[r] # "gone" /\ proc[r] # "gone"
    BY <1>1, RoleFacts DEF Onward, Lost
  <2>2. ~TrainingFinished /\ initDone["rollout"] /\ Rollouts \cap Lost = {}
    BY <1>1, <2>1 DEF Onward, Lost
  <2>3. Served /\ nInit'["rollout"] = nInit["rollout"]
    BY <2>2 DEF ServedInv, Onward
  <2>4. Complete(atoms, "rollout") \subseteq Complete(atoms', "rollout")
    BY <2>1, CompleteIsWhole, RoleFacts DEF Onward, Roles
  <2>5. Complete(atoms', "rollout") \in SUBSET Rollouts /\ Complete(atoms', "rollout") \in SUBSET Replicas
    BY FiniteRoles, RoleFacts DEF Roles
  <2>6. /\ Cardinality(Complete(atoms, "rollout")) <= Cardinality(Complete(atoms', "rollout"))
        /\ Cardinality(Complete(atoms, "rollout")) \in Nat
        /\ Cardinality(Complete(atoms', "rollout")) \in Nat
    BY <2>4, <2>5, FewerMembers
  <2>7. \/ \E r \in Complete(atoms', "rollout") : version'[r] >= 0
        \/ Complete(atoms', "policy") \cap loaded' = {}
    <3>1. CASE \E r \in Complete(atoms, "rollout") : version[r] >= 0
      BY <2>4, <2>5, <3>1 DEF Onward
    <3>2. CASE Complete(atoms, "policy") \cap loaded = {}
      BY <3>2
    <3>. QED  BY <2>3, <3>1, <3>2 DEF Served
  <2>8. Cardinality(Complete(atoms', "rollout")) >= nInit'["rollout"]
    <3>1. Cardinality(Complete(atoms, "rollout")) >= nInit["rollout"]
      BY <2>3 DEF Served
    <3>2. nInit["rollout"] \in Nat
      BY DEF CountsTyped, Roles
    <3>. QED  BY <2>3, <2>6, <3>1, <3>2
  <2>. QED  BY <2>7, <2>8 DEF Served
<1>2. ~firstArrived' => Policies \cap loaded' = {}
  BY DEF ServedInv
<1>. QED  BY <1>1, <1>2 DEF ServedInv

\* Arrivals: what is the same for all of them.
LEMMA ArrivalOn ==
  ASSUME MembersInv, CountsTyped, NEW r \in Replicas, ArriveLast(r),
         proc' = [proc EXCEPT ![r] = "up"] \/ proc' = [proc EXCEPT ![r] = "gone"],
         KeepMesh \/ (\E role, members : RebuildMesh(role, members)), UNCHANGED currentStep,
         version' = version \/ \E source, receivers : Broadcast(source, receivers, currentStep)
  PROVE  /\ Onward
         /\ r \notin loaded
         /\ r \in Policies => Complete(atoms', "policy") = Complete(atoms, "policy") \cup {r}
                              /\ Complete(atoms', "rollout") = Complete(atoms, "rollout")
         /\ r \in Rollouts => Complete(atoms', "rollout") = Complete(atoms, "rollout") \cup {r}
                              /\ Complete(atoms', "policy") = Complete(atoms, "policy")
<1>1. MembersTyped /\ currentStep \in Nat /\ ArriveAtom(r)
  BY DEF MembersInv, MembersTyped, ArriveLast
<1>2. /\ proc[r] \in {"new", "up"} /\ r \notin loaded
      /\ \A q \in Replicas : q # r => (Whole(q)' <=> Whole(q))
      /\ Whole(r)'
      /\ Complete(atoms', RoleOf(r)) = Complete(atoms, RoleOf(r)) \cup {r}
      /\ \A role \in Roles : role # RoleOf(r) => Complete(atoms', role) = Complete(atoms, role)
  BY ArriveLastEffect
<1>3. \A q \in Replicas : proc[q] = "gone" => proc'[q] = "gone"
  BY <1>1, <1>2 DEF MembersTyped
<1>4. \A q \in Rollouts : version[q] >= 0 => version'[q] >= 0
  BY <1>1, BroadcastOn
<1>5. initDone["rollout"] => nInit'["rollout"] = nInit["rollout"]
  BY <1>1, ArriveAtomCounts DEF Roles
<1>6. TrainingFinished => TrainingFinished'
  BY FinishedOn
<1>7. \A q \in Rollouts : Whole(q) => Whole(q)'
  BY <1>2, RoleFacts
<1>. QED  BY <1>2, <1>3, <1>4, <1>5, <1>6, <1>7, RoleFacts DEF Onward, Roles

\* The first policy of all serves the rollouts that wait for weights.
LEMMA RegisterFirstPolicyServed ==
  ASSUME MembersInv, MembersInv', CountsInv, ServedInv, NEW p \in Policies, RegisterFirstPolicy(p)
  PROVE  ServedInv'
<1>1. /\ MembersTyped /\ CountsTyped /\ p \in Replicas /\ ArriveLast(p)
      /\ UNCHANGED currentStep /\ currentStep \in Nat
      /\ proc' = [proc EXCEPT ![p] = "up"] \/ proc' = [proc EXCEPT ![p] = "gone"]
      /\ KeepMesh \/ (\E role, members : RebuildMesh(role, members))
  BY RoleFacts
     DEF RegisterFirstPolicy, Refused, Admitted, stepVars, MembersInv, MembersTyped, CountsInv
<1>2. \/ /\ firstArrived /\ UNCHANGED <<firstArrived, loaded, version, initDone>>
      \/ /\ ~firstArrived /\ firstArrived' = TRUE /\ FirstWeights(loaded \cup {p})
         /\ initDone' = initDone \/ initDone' = [initDone EXCEPT !["policy"] = TRUE]
  BY DEF RegisterFirstPolicy, weightVars
<1>3. version' = version \/ \E source, receivers : Broadcast(source, receivers, currentStep)
  BY <1>2 DEF FirstWeights
<1>4. /\ Onward /\ p \notin loaded
      /\ Complete(atoms', "policy") = Complete(atoms, "policy") \cup {p}
      /\ Complete(atoms', "rollout") = Complete(atoms, "rollout")
  BY <1>1, <1>3, ArrivalOn
<1>5. CASE firstArrived /\ UNCHANGED <<firstArrived, loaded, version, initDone>>
  <2>1. Complete(atoms', "policy") \cap loaded' = Complete(atoms, "policy") \cap loaded
    BY <1>4, <1>5
  <2>. QED  BY <1>1, <1>4, <1>5, <2>1, ServedOn
<1>6. CASE /\ ~firstArrived /\ firstArrived' = TRUE /\ FirstWeights(loaded \cup {p})
           /\ initDone' = initDone \/ initDone' = [initDone EXCEPT !["policy"] = TRUE]
  <2>1. SUFFICES ASSUME ~TrainingFinished', initDone'["rollout"], Rollouts \cap Lost' = {}
                 PROVE  Served'
    BY <1>6 DEF ServedInv
  <2>. DEFINE arrived == Complete(atoms, "rollout")
              lead == Earliest(startTime, arrived)
              receivers == Receivers(lead, arrived, meshRanked)
  <2>2. \A r \in Rollouts : proc[r] # "gone"
    BY <1>4, <2>1, RoleFacts DEF Onward, Lost
  <2>3. ~TrainingFinished /\ initDone["rollout"] /\ Rollouts \cap Lost = {}
    BY <1>1, <1>4, <1>6, <2>1, <2>2 DEF Onward, Lost, MembersTyped, Roles
  <2>4. /\ Cardinality(arrived) >= nInit["rollout"] /\ nInit'["rollout"] = nInit["rollout"]
        /\ nInit["rollout"] \in Nat \ {0}
    BY <1>1, <1>4, <2>3 DEF ServedInv, Served, Onward, CountsTyped, Roles
  <2>5. arrived \in SUBSET Rollouts /\ arrived \in SUBSET Replicas
    BY FiniteRoles, RoleFacts DEF Roles
  <2>6. arrived # {} /\ lead \in arrived
    <3>1. arrived # {}
      BY <2>4, <2>5, FiniteReplicas
    <3>. QED  BY <1>1, <2>5, <3>1, EarliestIn DEF MembersTyped
  <2>7. arrived \subseteq meshRanked
    BY <2>3 DEF MembersInv, MeshIsCurrent, TablesAgree, Roles
  <2>. HIDE DEF lead, arrived
  <2>8. receivers = arrived
    BY <2>6, <2>7 DEF Receivers
  <2>9. Broadcast(lead, receivers, currentStep)
    BY <1>6, <2>4, <2>6 DEF FirstWeights, arrived, lead
  <2>10. version'[lead] >= 0
    BY <1>1, <2>2, <2>5, <2>6, <2>8, <2>9 DEF Broadcast
  <2>. QED  BY <1>4, <2>4, <2>6, <2>10 DEF Served, arrived
<1>. QED  BY <1>2, <1>5, <1>6

\* A later one has weights only if some policy of the group has.
LEMMA RegisterPolicyServed ==
  ASSUME MembersInv, MembersInv', CountsInv, ServedInv, NEW p \in Policies, RegisterPolicy(p)
  PROVE  ServedInv'
<1>. DEFINE valid == Complete(atoms', "policy")
<1>1. /\ MembersTyped /\ CountsTyped /\ p \in Replicas /\ ArriveLast(p)
      /\ UNCHANGED <<currentStep, firstArrived, version>>
      /\ proc' = [proc EXCEPT ![p] = "up"] \/ proc' = [proc EXCEPT ![p] = "gone"]
      /\ KeepMesh \/ (\E role, members : RebuildMesh(role, members))
      /\ initDone' = initDone \/ initDone' = [initDone EXCEPT !["policy"] = TRUE]
      /\ loaded' = loaded \/ valid \cap loaded # {}
  BY RoleFacts
     DEF RegisterPolicy, Refused, Admitted, stepVars, MembersInv, MembersTyped, CountsInv
<1>2. /\ Onward /\ p \notin loaded /\ valid = Complete(atoms, "policy") \cup {p}
  BY <1>1, ArrivalOn
<1>3. valid \subseteq Policies /\ initDone'["rollout"] = initDone["rollout"]
  BY <1>1, <1>2, FiniteRoles, RoleFacts DEF MembersTyped, Roles
<1>4. valid \cap loaded' # {} => Complete(atoms, "policy") \cap loaded # {}
  BY <1>1, <1>2
<1>5. Policies \cap loaded' # {} => Policies \cap loaded # {}
  BY <1>1, <1>3
<1>. HIDE DEF valid
<1>. QED  BY <1>1, <1>2, <1>3, <1>4, <1>5, ServedOn DEF valid

\* The rollout that completes the group of the rollouts is sent weights with the others,
\* if a policy has any.
LEMMA RegisterRolloutServed ==
  ASSUME MembersInv, MembersInv', CountsInv, ServedInv, NEW r \in Rollouts, RegisterRollout(r)
  PROVE  ServedInv'
<1>. DEFINE valid == Complete(atoms', "rollout")
            lacking == valid \cap loaded = {}
            sources == Registered(atoms, "policy") \cap loaded
            ldd == IF lacking /\ sources # {} THEN loaded \cup {r} ELSE loaded
            lead == Earliest(startTime', valid \cap ldd)
            first == ~initDone["rollout"] /\ Cardinality(valid) = nInit'["rollout"]
            receivers == IF first /\ valid \cap ldd # {} THEN valid ELSE {}
<1>1. /\ MembersTyped /\ CountsTyped /\ r \in Replicas /\ ArriveLast(r)
      /\ UNCHANGED <<currentStep, firstArrived>> /\ currentStep \in Nat
      /\ proc' = [proc EXCEPT ![r] = "up"]
      /\ KeepMesh \/ (\E role, members : RebuildMesh(role, members))
      /\ initDone' = [initDone EXCEPT !["rollout"] = initDone["rollout"] \/ first]
      /\ loaded' = ldd \cup receivers /\ Broadcast(lead, receivers, currentStep)
  BY RoleFacts
     DEF RegisterRollout, Admitted, stepVars, MembersInv, MembersTyped, CountsInv
<1>2. \E source, some : Broadcast(source, some, currentStep)
  BY <1>1
<1>3. /\ Onward /\ r \notin loaded /\ valid = Complete(atoms, "rollout") \cup {r}
      /\ Complete(atoms', "policy") = Complete(atoms, "policy")
  BY <1>1, <1>2, ArrivalOn
<1>4. /\ valid \in SUBSET Rollouts /\ valid \in SUBSET Replicas
      /\ Complete(atoms, "policy") \subseteq Policies
      /\ Policies \cap loaded' = Policies \cap loaded
  <2>1. valid \in SUBSET Rollouts /\ valid \in SUBSET Replicas /\ Complete(atoms, "policy") \subseteq Policies
    BY FiniteRoles, RoleFacts DEF Roles
  <2>. QED  BY <1>1, <2>1, RoleFacts
<1>5. Complete(atoms', "policy") \cap loaded' = Complete(atoms, "policy") \cap loaded
  BY <1>3, <1>4
<1>6. CASE first
  <2>1. SUFFICES ASSUME Rollouts \cap Lost' = {}, Complete(atoms, "policy") \cap loaded # {}
                 PROVE  \E q \in valid : version'[q] >= 0
    <3>1. Cardinality(valid) >= nInit'["rollout"]
      BY <1>4, <1>6, FiniteReplicas
    <3>2. ~firstArrived' => Policies \cap loaded' = {}
      BY <1>1, <1>4 DEF ServedInv
    <3>. QED  BY <1>5, <3>1, <3>2 DEF ServedInv, Served
  <2>2. Complete(atoms, "policy") \subseteq Registered(atoms, "policy")
    BY RoleFacts DEF Complete, Registered, Roles
  <2>3. valid \cap ldd # {} /\ valid \cap ldd \in SUBSET Replicas
    BY <1>3, <1>4, <2>1, <2>2
  <2>4. startTime' \in [Replicas -> Nat]
    BY <1>1, ArriveLastEffect
  <2>5. lead \in valid /\ receivers = valid
    <3>1. lead \in valid \cap ldd
      <4>. HIDE DEF valid, ldd
      <4>. QED  BY <2>3, <2>4, EarliestIn
    <3>. QED  BY <1>6, <2>3, <3>1
  <2>6. proc[lead] # "gone"
    BY <1>3, <1>4, <2>1, <2>5, RoleFacts DEF Onward, Lost
  <2>. HIDE DEF lead, receivers, valid
  <2>7. version'[r] = currentStep /\ r \in valid
    BY <1>1, <1>3, <2>5, <2>6 DEF Broadcast
  <2>. QED  BY <1>1, <2>7
<1>7. CASE ~first
  <2>1. initDone'["rollout"] = initDone["rollout"]
    BY <1>1, <1>7 DEF MembersTyped, Roles
  <2>. QED  BY <1>1, <1>3, <1>4, <1>5, <2>1, ServedOn
<1>. QED  BY <1>6, <1>7

\* The other steps send weights to rollouts only, and a whole rollout leaves its table only
\* when it is gone.
LEMMA OtherServed ==
  ASSUME MembersInv, MembersInv', CountsInv, ServedInv, NEW r \in Replicas,
         \/ RegisterAtom(r) \/ Leave(r) \/ Exit(r) \/ Crash(r) \/ MonitorRemove(r)
         \/ r \in Rollouts /\ (Fetch(r) \/ GenerateHeld(r) \/ Report(r))
         \/ r \in Policies /\ Ack(r)
         \/ AllReduce
  PROVE  ServedInv'
<1>1. MembersTyped /\ CountsTyped /\ currentStep \in Nat
  BY DEF MembersInv, MembersTyped, CountsInv
<1>2. CASE RegisterAtom(r)
  <2>1. /\ proc' = [proc EXCEPT ![r] = "up"] /\ proc[r] \in {"new", "up"} /\ ArriveAtom(r)
        /\ atoms' = [atoms EXCEPT ![r] = @ + 1] /\ atoms[r] + 1 < AtomsOf(RoleOf(r))
        /\ UNCHANGED <<meshVars, currentStep, loaded, version>>
    BY <1>2 DEF RegisterAtom, ArriveAtom, stepVars, weightVars
  <2>2. \A q \in Replicas : Whole(q)' <=> Whole(q)
    BY <1>1, <2>1, RoleFacts DEF MembersTyped, Whole, RoleOf
  <2>3. Onward
    <3>1. initDone["rollout"] => nInit'["rollout"] = nInit["rollout"]
      BY <1>1, <2>1, ArriveAtomCounts DEF Roles
    <3>. QED
      BY <1>1, <2>1, <2>2, <3>1, RoleFacts DEF Onward, MembersTyped, meshVars, TrainingFinished
  <2>4. Complete(atoms', "policy") = Complete(atoms, "policy")
    BY <2>2, CompleteIsWhole, RoleFacts DEF Roles
  <2>. QED  BY <1>1, <2>1, <2>3, <2>4, ServedOn DEF meshVars
<1>3. ASSUME atoms' = [atoms EXCEPT ![r] = 0], proc'[r] = "gone",
             \A q \in Replicas : proc[q] = "gone" => proc'[q] = "gone",
             KeepMesh \/ (\E role, members : RebuildMesh(role, members)), UNCHANGED currentStep,
             UNCHANGED <<nInit, initDone, firstArrived, loaded, version>>
      PROVE  ServedInv'
  <2>1. \A q \in Replicas : q # r => (Whole(q)' <=> Whole(q))
    BY <1>1, <1>3 DEF MembersTyped, Whole
  <2>2. TrainingFinished => TrainingFinished'
    BY <1>3, FinishedOn
  <2>3. Onward
    BY <1>3, <2>1, <2>2, RoleFacts DEF Onward
  <2>4. ~Whole(r)'
    BY <1>1, <1>3, RoleFacts DEF MembersTyped, Whole, RoleOf
  <2>5. Complete(atoms', "policy") \subseteq Complete(atoms, "policy")
    BY <2>1, <2>4, CompleteIsWhole, RoleFacts DEF Roles
  <2>. QED  BY <1>1, <1>3, <2>3, <2>5, ServedOn
<1>4. ASSUME UNCHANGED <<atoms, nInit, initDone, firstArrived, totalSteps>>,
             currentStep' >= currentStep,
             \A q \in Replicas : proc[q] = "gone" => proc'[q] = "gone",
             \A q \in Rollouts : version[q] >= 0 => version'[q] >= 0,
             Policies \cap loaded' = Policies \cap loaded
      PROVE  ServedInv'
  <2>1. currentStep' \in Nat /\ totalSteps \in Nat
    BY <1>1 DEF MembersInv, MembersTyped, CountsTyped
  <2>2. TrainingFinished => TrainingFinished'
    BY <1>1, <1>4, <2>1 DEF TrainingFinished
  <2>3. Onward
    BY <1>4, <2>2 DEF Onward, Whole
  <2>4. Complete(atoms, "policy") \subseteq Policies
    BY FiniteRoles, RoleFacts DEF Roles
  <2>. QED  BY <1>1, <1>4, <2>3, <2>4, ServedOn
<1>5. CASE Leave(r) \/ Exit(r) \/ MonitorRemove(r)
  <2>1. proc'[r] = "gone" /\ \A q \in Replicas : proc[q] = "gone" => proc'[q] = "gone"
    BY <1>1, <1>5 DEF Leave, Exit, MonitorRemove, Stale, MembersTyped
  <2>2. CASE Unregister(r)
    BY <1>3, <2>1, <2>2 DEF Unregister, stepVars, weightVars
  <2>3. CASE ~Unregister(r)
    <3>1. /\ atoms' = [atoms EXCEPT ![r] = 0]
          /\ UNCHANGED <<nInit, meshVars, stepVars, weightVars>>
      BY <1>5, <2>3 DEF Leave, Exit, MonitorRemove
    <3>. QED  BY <1>3, <2>1, <3>1 DEF meshVars, stepVars, weightVars, KeepMesh
  <2>. QED  BY <2>2, <2>3
<1>6. CASE Crash(r) \/ (r \in Rollouts /\ (Fetch(r) \/ GenerateHeld(r))) \/ AllReduce
  <2>1. /\ UNCHANGED <<tableVars, meshVars, stepVars, weightVars>>
        /\ proc' = proc \/ proc' = [proc EXCEPT ![r] = "gone"]
    BY <1>6 DEF Crash, Fetch, GenerateHeld, AllReduce, processVars
  <2>. QED
    BY <1>1, <1>4, <2>1 DEF tableVars, meshVars, stepVars, weightVars, MembersTyped
<1>7. CASE r \in Rollouts /\ Report(r)
  <2>1. /\ TryTrigger(status, pending + 1)
        /\ UNCHANGED <<processVars, tableVars, meshVars, loaded, version>>
    BY <1>7 DEF Report
  <2>2. currentStep' >= currentStep
    BY <1>1, <2>1 DEF TryTrigger
  <2>. QED  BY <1>4, <2>1, <2>2 DEF processVars, tableVars, meshVars
<1>8. CASE r \in Policies /\ Ack(r)
  <2>. DEFINE st == [status EXCEPT ![r] = "REDUCED"]
              ready == [q \in Policies |-> IF st[q] = "NONE" THEN "NONE" ELSE "READY"]
  <2>1. /\ UNCHANGED <<tableVars, meshVars>>
        /\ loaded' = loaded \/ loaded' = loaded \cup SyncTargets
        /\ version' = version \/ \E source, receivers : Broadcast(source, receivers, currentStep)
        /\ TryTrigger(ready, pending) \/ UNCHANGED stepVars
    BY <1>8 DEF Ack
  <2>2. \A q \in Replicas : proc[q] = "gone" => proc'[q] = "gone"
    <3>1. PICK stop : proc' = [q \in Replicas |-> IF q \in stop /\ proc[q] = "up" THEN "done" ELSE proc[q]]
      BY <1>8 DEF Ack
    <3>. QED  BY <3>1
  <2>3. Policies \cap loaded' = Policies \cap loaded
    <3>1. Complete(atoms, "rollout") \subseteq Rollouts
      BY FiniteRoles, RoleFacts DEF Roles
    <3>2. Complete(atoms, "rollout") # {} => SyncLead \in Complete(atoms, "rollout")
      BY <1>1, <3>1, RoleFacts, EarliestIn DEF SyncLead, MembersTyped
    <3>3. SyncTargets \subseteq Rollouts
      BY <3>1, <3>2 DEF SyncTargets, SyncReceivers, Receivers
    <3>. QED  BY <2>1, <3>3, RoleFacts
  <2>4. currentStep' >= currentStep
    BY <1>1, <2>1 DEF TryTrigger, stepVars
  <2>5. \A q \in Rollouts : version[q] >= 0 => version'[q] >= 0
    BY <1>1, <2>1, BroadcastOn
  <2>. QED  BY <1>4, <2>1, <2>2, <2>3, <2>4, <2>5 DEF tableVars, meshVars
<1>. QED  BY <1>2, <1>5, <1>6, <1>7, <1>8

LEMMA ServedStep ==
  ASSUME MembersInv, MembersInv', CountsInv, ServedInv, [Next]_vars
  PROVE  ServedInv'
<1>1. CASE UNCHANGED vars
  <2>1. UNCHANGED <<proc, atoms, nInit, totalSteps, currentStep, initDone, firstArrived, loaded, version>>
    BY <1>1 DEF vars, processVars, tableVars, meshVars, stepVars, weightVars
  <2>. QED
    BY <2>1 DEF ServedInv, Served, TrainingFinished, Lost, Complete
<1>2. ASSUME NEW r \in Replicas, Register(r) PROVE ServedInv'
  BY <1>2, OtherServed, RegisterFirstPolicyServed, RegisterPolicyServed, RegisterRolloutServed
     DEF Register
<1>3. ASSUME NEW r \in Replicas, Leave(r) \/ Exit(r) \/ Crash(r) \/ MonitorRemove(r) PROVE ServedInv'
  BY <1>3, OtherServed
<1>4. ASSUME NEW r \in Rollouts, Fetch(r) \/ GenerateHeld(r) \/ Report(r) PROVE ServedInv'
  BY <1>4, OtherServed, RoleFacts
<1>5. ASSUME NEW p \in Policies, Ack(p) PROVE ServedInv'
  BY <1>5, OtherServed, RoleFacts
<1>6. CASE AllReduce
  <2>1. PICK p : p \in Policies
    BY <1>6 DEF AllReduce
  <2>2. p \in Replicas
    BY <2>1, RoleFacts
  <2>. QED  BY <1>6, <2>2, OtherServed
<1>. QED  BY <1>1, <1>2, <1>3, <1>4, <1>5, <1>6 DEF Next

\* In whatever order the first replicas of both roles arrive, atom by atom, and whatever
\* policies die, exit or are refused meanwhile: once the rollouts are initialised and a policy
\* has weights, some rollout has been sent them, as long as no rollout has been lost.
THEOREM RolloutsAlwaysServed == Spec => []RolloutsAreServed
<1>1. Init => ServedInv
  BY DEF Init, ServedInv, Roles
<1>2. MembersInv /\ MembersInv' /\ CountsInv /\ ServedInv /\ [Next]_vars => ServedInv'
  BY ServedStep
<1>3. ServedInv => RolloutsAreServed
  BY DEF ServedInv, Served, RolloutsAreServed
<1>. QED  BY <1>1, <1>2, <1>3, CountsAlways, PTL DEF Spec
=============================================================================
