-------------------------- MODULE PolicyMesh_proofs --------------------------
(***************************************************************************)
(* The two threads of HighAvailabilitylNccl agree on when a communicator   *)
(* may be used, whatever replicas stop and whenever the mesh is rebuilt,   *)
(* and the replicas that go on on what they all-reduce with whom.          *)
(*                                                                         *)
(* The argument of the second: meshes only shrink and those who are left   *)
(* out are lost, so a replica fails no more often than replicas are lost   *)
(* (LossInv); and the members of a communicator make their calls on it in  *)
(* the same order, beginning with the same op, since whoever was behind    *)
(* would have called an all-reduce that another completed (StepInv).       *)
(***************************************************************************)
EXTENDS PolicyMesh, FiniteSetTheorems, SequenceTheorems, TLAPS

\* op passes NumOps only when the training thread is done.
OpsInRange == \A p \in Policies : main[p] # "done" => op[p] <= NumOps

\* The strengthening of TypeOK and ReadyMeansUsable that every step preserves.
MeshInv == TypeOK /\ OpsInRange /\ ReadyMeansUsable

-----------------------------------------------------------------------------
(* The controller *)

\* The commands that an unregistration sends extend the queues by meshes.
LEMMA UnregisterType ==
  ASSUME TypeOK, NEW gone \in SUBSET member, Unregister(gone)
  PROVE  member' = member \ gone /\ queue' \in [Policies -> Seq(SUBSET Policies)]
<1>. DEFINE n == Cardinality(gone)
            before(p) == Cardinality({q \in gone : q < p})
            meshes == [i \in 1..n |-> member \ {p \in gone : before(p) < i}]
            sent(p) == IF p \notin member THEN 0 ELSE IF p \in gone THEN before(p) ELSE n
<1>1. IsFiniteSet(gone) /\ n \in Nat
  BY ConstantsAssumption, FS_Subset, FS_CardinalityType DEF ConstantsAssumption, TypeOK
<1>2. ASSUME NEW p
      PROVE  before(p) \in Nat /\ before(p) <= n
  BY <1>1, FS_Subset, FS_CardinalityType
<1>3. ASSUME NEW p \in Policies
      PROVE  queue[p] \o SubSeq(meshes, 1, sent(p)) \in Seq(SUBSET Policies)
  <2>1. sent(p) \in Nat /\ sent(p) <= n
    BY <1>1, <1>2
  <2>2. \A i \in 1..sent(p) : meshes[i] \in SUBSET Policies
    <3>. SUFFICES ASSUME NEW i \in 1..sent(p) PROVE meshes[i] \in SUBSET Policies
      OBVIOUS
    <3>1. i \in 1..n
      BY <1>1, <2>1
    <3>. QED BY <3>1 DEF TypeOK
  <2>. HIDE DEF meshes, sent
  <2>3. SubSeq(meshes, 1, sent(p)) \in Seq(SUBSET Policies)
    BY <2>1, <2>2, SubSeqProperties
  <2>4. queue[p] \in Seq(SUBSET Policies)
    BY DEF TypeOK
  <2>. QED BY <2>3, <2>4, ConcatProperties
<1>4. queue' = [p \in Policies |-> queue[p] \o SubSeq(meshes, 1, sent(p))] /\ member' = member \ gone
  BY DEF Unregister
<1>. HIDE DEF meshes, sent
<1>. QED BY <1>3, <1>4

\* A report keeps the reporters among the registered replicas.
LEMMA SetNcclErrorType ==
  ASSUME TypeOK, NEW p \in Policies, SetNcclError(p), UNCHANGED member
  PROVE  reported' \subseteq member'
BY DEF TypeOK, SetNcclError

\* The end of an all-reduce keeps the counters in their range.
LEMMA NextOpType ==
  ASSUME MeshInv, NEW p \in Policies, main[p] # "done", NextOp(p)
  PROVE  /\ op' \in [Policies -> 1..(NumOps + 1)]
         /\ tries' \in [Policies -> 0..(MaxRetry - 1)]
         /\ main' \in [Policies -> {"work", "wait", "lock", "enqueue", "flight", "failed", "done"}]
         /\ OpsInRange'
         /\ main'[p] # "failed"
         /\ \A q \in Policies \ {p} : main'[q] = main[q]
<1>1. NumOps \in Nat \ {0} /\ MaxRetry \in Nat \ {0}
  BY ConstantsAssumption DEF ConstantsAssumption
<1>2. op[p] \in 1..NumOps
  BY <1>1 DEF MeshInv, TypeOK, OpsInRange
<1>3. op' \in [Policies -> 1..(NumOps + 1)] /\ tries' \in [Policies -> 0..(MaxRetry - 1)]
  BY <1>1, <1>2 DEF MeshInv, TypeOK, NextOp
<1>4. main' \in [Policies -> {"work", "wait", "lock", "enqueue", "flight", "failed", "done"}]
  BY DEF MeshInv, TypeOK, NextOp
<1>5. OpsInRange'
  BY <1>1, <1>2, <1>4 DEF MeshInv, TypeOK, OpsInRange, NextOp
<1>. QED BY <1>3, <1>4, <1>5 DEF MeshInv, TypeOK, NextOp

-----------------------------------------------------------------------------
(* Every step preserves the invariant *)

LEMMA InitMesh == Init => MeshInv
<1>. SUFFICES ASSUME Init PROVE MeshInv
  OBVIOUS
<1>. USE ConstantsAssumption DEF ConstantsAssumption, Init
<1>1. <<Policies>> \in Seq(SUBSET Policies)
  OBVIOUS
<1>2. TypeOK
  BY <1>1 DEF TypeOK
<1>3. OpsInRange
  BY DEF OpsInRange
<1>4. ReadyMeansUsable
  BY DEF ReadyMeansUsable
<1>. QED BY <1>2, <1>3, <1>4 DEF MeshInv

LEMMA MeshControllerStep ==
  ASSUME MeshInv, CloseWindow \/ \E p \in Policies : MonitorRemove(p)
  PROVE  MeshInv'
<1>1. CASE CloseWindow
  <2>1. member' = member \ (member \ reported) /\ queue' \in [Policies -> Seq(SUBSET Policies)]
    BY <1>1, UnregisterType DEF CloseWindow, MeshInv
  <2>2. TypeOK'
    BY <1>1, <2>1 DEF MeshInv, TypeOK, CloseWindow, mainVars
  <2>. QED BY <1>1, <2>2 DEF MeshInv, OpsInRange, ReadyMeansUsable, CloseWindow, mainVars
<1>2. ASSUME NEW p \in Policies, MonitorRemove(p)
      PROVE  MeshInv'
  <2>1. member' = member \ {p} /\ queue' \in [Policies -> Seq(SUBSET Policies)]
    BY <1>2, UnregisterType DEF MonitorRemove, MeshInv
  <2>2. TypeOK'
    BY <1>2, <2>1 DEF MeshInv, TypeOK, MonitorRemove, mainVars
  <2>. QED BY <1>2, <2>2 DEF MeshInv, OpsInRange, ReadyMeansUsable, MonitorRemove, mainVars
<1>. QED BY <1>1, <1>2

LEMMA BgTakeStep ==
  ASSUME MeshInv, NEW p \in Policies, BgTake(p)
  PROVE  MeshInv'
<1>. DEFINE mesh == Head(queue[p])
<1>1. mesh \in SUBSET Policies /\ Tail(queue[p]) \in Seq(SUBSET Policies)
  BY HeadTailProperties DEF MeshInv, TypeOK, BgTake
<1>2. /\ queue' \in [Policies -> Seq(SUBSET Policies)]
      /\ {target', comm'} \subseteq [Policies -> SUBSET Policies]
      /\ posted' \subseteq SUBSET Policies
  <2>1. queue' = [queue EXCEPT ![p] = Tail(queue[p])] /\ queue \in [Policies -> Seq(SUBSET Policies)]
    BY DEF MeshInv, TypeOK, BgTake
  <2>2. target' = [target EXCEPT ![p] = mesh] /\ comm' = [comm EXCEPT ![p] = {}]
    BY DEF BgTake
  <2>3. target \in [Policies -> SUBSET Policies] /\ comm \in [Policies -> SUBSET Policies]
    BY DEF MeshInv, TypeOK
  <2>4. posted' \subseteq posted \cup {mesh} /\ posted \subseteq SUBSET Policies
    BY DEF MeshInv, TypeOK, BgTake
  <2>. HIDE DEF mesh
  <2>5. queue' \in [Policies -> Seq(SUBSET Policies)]
    BY <1>1, <2>1
  <2>6. target' \in [Policies -> SUBSET Policies] /\ comm' \in [Policies -> SUBSET Policies]
    BY <1>1, <2>2, <2>3
  <2>7. posted' \subseteq SUBSET Policies
    BY <1>1, <2>4
  <2>. QED BY <2>5, <2>6, <2>7
<1>3. bg' \in [Policies -> {"idle", "uid", "init", "ended"}]
  BY DEF MeshInv, TypeOK, BgTake
<1>4. {ready', single'} \subseteq [Policies -> BOOLEAN]
  <2>1. ready \in [Policies -> BOOLEAN] /\ single \in [Policies -> BOOLEAN]
    BY DEF MeshInv, TypeOK
  <2>2. (mesh = {p}) \in BOOLEAN /\ (single[p] \/ mesh = {p}) \in BOOLEAN
    OBVIOUS
  <2>3. ready' = [ready EXCEPT ![p] = mesh = {p}] /\ single' = [single EXCEPT ![p] = @ \/ mesh = {p}]
    BY DEF BgTake
  <2>. QED BY <2>1, <2>2, <2>3, Zenon
<1>5. /\ op' \in [Policies -> 1..(NumOps + 1)] /\ tries' \in [Policies -> 0..(MaxRetry - 1)]
      /\ main' \in [Policies -> {"work", "wait", "lock", "enqueue", "flight", "failed", "done"}]
      /\ OpsInRange'
      /\ \A q \in Policies \ {p} : main'[q] = main[q]
  <2>1. CASE main[p] = "flight" /\ NextOp(p)
    BY <2>1, NextOpType
  <2>2. CASE UNCHANGED mainVars
    BY <2>2 DEF mainVars, MeshInv, TypeOK, OpsInRange
  <2>3. CASE main[p] = "flight" /\ main' = [main EXCEPT ![p] = "failed"] /\ UNCHANGED <<op, tries>>
    BY <2>3 DEF MeshInv, TypeOK, OpsInRange
  <2>. QED BY <2>1, <2>2, <2>3 DEF BgTake
<1>6. TypeOK'
  BY <1>2, <1>3, <1>4, <1>5 DEF MeshInv, TypeOK, BgTake
<1>7. ReadyMeansUsable'
  <2>. SUFFICES ASSUME NEW q \in Policies, ready'[q], main'[q] # "failed"
                PROVE  comm'[q] # {} \/ single'[q]
    BY DEF ReadyMeansUsable
  <2>1. CASE q = p
    <3>1. mesh = {p}
      BY <2>1 DEF MeshInv, TypeOK, BgTake
    <3>. QED BY <2>1, <3>1 DEF MeshInv, TypeOK, BgTake
  <2>2. CASE q # p
    <3>1. ready[q] /\ main[q] # "failed" /\ comm'[q] = comm[q] /\ single'[q] = single[q]
      BY <1>5, <2>2 DEF MeshInv, TypeOK, BgTake
    <3>. QED BY <3>1 DEF MeshInv, ReadyMeansUsable
  <2>. QED BY <2>1, <2>2
<1>. QED BY <1>5, <1>6, <1>7 DEF MeshInv

LEMMA BgOtherStep ==
  ASSUME MeshInv, NEW p \in Policies, BgUid(p) \/ BgGiveUp(p) \/ InitTimeout(p)
  PROVE  MeshInv'
<1>1. CASE BgUid(p)
  BY <1>1 DEF MeshInv, TypeOK, OpsInRange, ReadyMeansUsable, BgUid, controllerVars, mainVars
<1>2. CASE BgGiveUp(p)
  BY <1>2 DEF MeshInv, TypeOK, OpsInRange, ReadyMeansUsable, BgGiveUp, controllerVars, mainVars
<1>3. CASE InitTimeout(p)
  <2>1. reported' \subseteq member'
    BY <1>3, SetNcclErrorType DEF InitTimeout, MeshInv
  <2>. QED BY <1>3, <2>1 DEF MeshInv, TypeOK, OpsInRange, ReadyMeansUsable, InitTimeout, mainVars
<1>. QED BY <1>1, <1>2, <1>3

LEMMA InitDoneStep ==
  ASSUME MeshInv, NEW mesh \in SUBSET Policies, InitDone(mesh)
  PROVE  MeshInv'
<1>1. {ready', single'} \subseteq [Policies -> BOOLEAN]
  <2>1. ready' = [q \in Policies |-> q \in mesh \/ ready[q]]
        /\ single' = [q \in Policies |-> q \notin mesh /\ single[q]]
    BY DEF InitDone
  <2>. QED BY <2>1, Zenon
<1>2. /\ bg' \in [Policies -> {"idle", "uid", "init", "ended"}]
      /\ comm' \in [Policies -> SUBSET Policies]
      /\ posted' \subseteq SUBSET Policies
  BY DEF MeshInv, TypeOK, InitDone
<1>3. TypeOK'
  BY <1>1, <1>2 DEF MeshInv, TypeOK, InitDone, mainVars
<1>4. ReadyMeansUsable'
  <2>. SUFFICES ASSUME NEW q \in Policies, ready'[q], main'[q] # "failed"
                PROVE  comm'[q] # {} \/ single'[q]
    BY DEF ReadyMeansUsable
  <2>1. CASE q \in mesh
    BY <2>1 DEF InitDone
  <2>2. CASE q \notin mesh
    <3>1. ready'[q] = (q \in mesh \/ ready[q]) /\ single'[q] = (q \notin mesh /\ single[q])
      BY DEF InitDone
    <3>2. ready[q] /\ (single[q] => single'[q])
      BY <2>2, <3>1, Zenon
    <3>3. main[q] # "failed" /\ comm'[q] = comm[q]
      BY <2>2 DEF InitDone, mainVars
    <3>. QED BY <3>2, <3>3 DEF MeshInv, ReadyMeansUsable
  <2>. QED BY <2>1, <2>2
<1>. QED BY <1>3, <1>4 DEF MeshInv, OpsInRange, InitDone, mainVars

LEMMA ReduceStep ==
  ASSUME MeshInv, NEW p \in Policies, Reduce(p)
  PROVE  MeshInv'
<1>. USE DEF controllerVars, meshVars
<1>1. CASE Enter(p)
  <2>1. CASE single[p] /\ NextOp(p)
    BY <1>1, <2>1, NextOpType DEF Enter, MeshInv, TypeOK, ReadyMeansUsable
  <2>2. CASE main' = [main EXCEPT ![p] = "wait"] /\ UNCHANGED <<op, tries>>
    BY <1>1, <2>2 DEF Enter, MeshInv, TypeOK, OpsInRange, ReadyMeansUsable
  <2>. QED BY <1>1, <2>1, <2>2 DEF Enter
<1>2. CASE PassReady(p)
  BY <1>2 DEF PassReady, MeshInv, TypeOK, OpsInRange, ReadyMeansUsable
<1>3. CASE Launch(p)
  <2>1. /\ main' \in [Policies -> {"work", "wait", "lock", "enqueue", "flight", "failed", "done"}]
        /\ main'[p] = "failed" \/ (main'[p] = "enqueue" /\ comm[p] # {})
        /\ \A q \in Policies \ {p} : main'[q] = main[q]
    <3>1. \/ main' = [main EXCEPT ![p] = "failed"]
          \/ main' = [main EXCEPT ![p] = "enqueue"] /\ comm[p] # {}
      BY <1>3, Zenon DEF Launch
    <3>2. main \in [Policies -> {"work", "wait", "lock", "enqueue", "flight", "failed", "done"}]
      BY DEF MeshInv, TypeOK
    <3>. QED BY <3>1, <3>2
  <2>2. TypeOK'
    BY <1>3, <2>1 DEF Launch, MeshInv, TypeOK
  <2>3. OpsInRange'
    BY <1>3, <2>1 DEF Launch, MeshInv, OpsInRange
  <2>4. UNCHANGED <<ready, comm, single>>
    BY <1>3 DEF Launch
  <2>5. ReadyMeansUsable'
    <3>. SUFFICES ASSUME NEW q \in Policies, ready[q], main'[q] # "failed"
                  PROVE  comm[q] # {} \/ single[q]
      BY <2>4 DEF ReadyMeansUsable
    <3>1. CASE q = p
      BY <2>1, <3>1
    <3>2. CASE q # p
      BY <2>1, <3>2 DEF MeshInv, ReadyMeansUsable
    <3>. QED BY <3>1, <3>2
  <2>. QED BY <2>2, <2>3, <2>5 DEF MeshInv
<1>4. CASE Enqueued(p)
  BY <1>4 DEF Enqueued, MeshInv, TypeOK, OpsInRange, ReadyMeansUsable
<1>5. CASE Complete(p)
  <2>1. main[p] = "flight" /\ NextOp(p)
    BY <1>5 DEF Complete
  <2>. QED BY <1>5, <2>1, NextOpType DEF Complete, MeshInv, TypeOK, ReadyMeansUsable
<1>6. CASE OpTimeout(p)
  BY <1>6 DEF OpTimeout, MeshInv, TypeOK, OpsInRange, ReadyMeansUsable
<1>7. CASE Fail(p)
  <2>1. reported' \subseteq member'
    BY <1>7, SetNcclErrorType DEF Fail, MeshInv
  <2>2. ready' \in [Policies -> BOOLEAN] /\ ~ready'[p] /\ \A q \in Policies \ {p} : ready'[q] = ready[q]
    BY <1>7 DEF Fail, ClearReady, MeshInv, TypeOK
  <2>3. /\ op' \in [Policies -> 1..(NumOps + 1)] /\ tries' \in [Policies -> 0..(MaxRetry - 1)]
        /\ main' \in [Policies -> {"work", "wait", "lock", "enqueue", "flight", "failed", "done"}]
        /\ OpsInRange'
        /\ \A q \in Policies \ {p} : main'[q] = main[q]
    <3>1. CASE NextOp(p)
      BY <1>7, <3>1, NextOpType DEF Fail
    <3>2. CASE /\ tries[p] + 1 < MaxRetry
               /\ main' = [main EXCEPT ![p] = "wait"]
               /\ tries' = [tries EXCEPT ![p] = @ + 1]
               /\ UNCHANGED op
      BY <1>7, <3>2, ConstantsAssumption DEF ConstantsAssumption, Fail, MeshInv, TypeOK, OpsInRange
    <3>. QED BY <1>7, <3>1, <3>2 DEF Fail, Retry
  <2>4. TypeOK'
    BY <1>7, <2>1, <2>2, <2>3 DEF Fail, MeshInv, TypeOK
  <2>. QED BY <1>7, <2>2, <2>3, <2>4 DEF Fail, MeshInv, ReadyMeansUsable
<1>. QED BY <1>1, <1>2, <1>3, <1>4, <1>5, <1>6, <1>7 DEF Reduce

LEMMA MeshStep == MeshInv /\ [Next]_vars => MeshInv'
<1>. SUFFICES ASSUME MeshInv, [Next]_vars PROVE MeshInv'
  OBVIOUS
<1>1. ASSUME NEW p \in Policies, Build(p) PROVE MeshInv'
  BY <1>1, BgTakeStep, BgOtherStep DEF Build
<1>2. ASSUME NEW p \in Policies, Reduce(p) PROVE MeshInv'
  BY <1>2, ReduceStep
<1>3. ASSUME NEW p \in Policies, Stop(p) PROVE MeshInv'
  BY <1>3 DEF Stop, MeshInv, TypeOK, OpsInRange, ReadyMeansUsable, controllerVars, meshVars, mainVars
<1>4. ASSUME NEW mesh \in SUBSET Policies, InitDone(mesh) PROVE MeshInv'
  BY <1>4, InitDoneStep
<1>5. CASE CloseWindow \/ \E p \in Policies : MonitorRemove(p)
  BY <1>5, MeshControllerStep
<1>6. CASE UNCHANGED vars
  BY <1>6 DEF vars, MeshInv, TypeOK, OpsInRange, ReadyMeansUsable, controllerVars, meshVars, mainVars
<1>. QED BY <1>1, <1>2, <1>3, <1>4, <1>5, <1>6 DEF Next

-----------------------------------------------------------------------------

\* The variables of the threads and of the controller keep their types, for any number of
\* replicas, all-reduces and retries and whoever stops.
THEOREM MeshTypeOK == Spec => []TypeOK
<1>1. MeshInv => TypeOK
  BY DEF MeshInv
<1>. QED BY InitMesh, MeshStep, <1>1, PTL DEF Spec

\* wait_comm_ready never lets a replica through to a communicator that is gone: the flag
\* that both threads write is clear from the abort of one to the end of the next build.
THEOREM ReadyIsUsable == Spec => []ReadyMeansUsable
<1>1. MeshInv => ReadyMeansUsable
  BY DEF MeshInv
<1>. QED BY InitMesh, MeshStep, <1>1, PTL DEF Spec

-----------------------------------------------------------------------------
(* Meshes that shrink *)

StrictlyIn(a, b) == a \subseteq b /\ a # b

\* Numbers of a finite set can be counted off: each rank below its size is taken by one.
LEMMA EveryRankIsTaken ==
  ASSUME NEW S \in SUBSET Nat, IsFiniteSet(S), NEW k \in 0..(Cardinality(S) - 1)
  PROVE  \E p \in S : Cardinality({q \in S : q < p}) = k
<1>. DEFINE n == Cardinality(S)
            rank(p) == Cardinality({q \in S : q < p})
            f == [p \in S |-> rank(p)]
<1>1. n \in Nat
  BY FS_CardinalityType
<1>2. ASSUME NEW p \in S
      PROVE  rank(p) \in 0..(n - 1)
  <2>1. {q \in S : q < p} \subseteq S \ {p}
    OBVIOUS
  <2>2. IsFiniteSet(S \ {p}) /\ Cardinality(S \ {p}) = n - 1
    BY FS_RemoveElement
  <2>3. IsFiniteSet({q \in S : q < p}) /\ rank(p) <= n - 1
    BY <2>1, <2>2, FS_Subset
  <2>4. rank(p) \in Nat
    BY <2>3, FS_CardinalityType
  <2>. QED BY <1>1, <2>3, <2>4
<1>3. ASSUME NEW p \in S, NEW q \in S, p < q
      PROVE  rank(p) < rank(q)
  <2>. DEFINE below == {x \in S : x < p}
  <2>1. IsFiniteSet(below) /\ p \notin below
    BY FS_Subset
  <2>2. IsFiniteSet(below \cup {p}) /\ Cardinality(below \cup {p}) = rank(p) + 1
    BY <2>1, FS_AddElement
  <2>3. below \cup {p} \subseteq {x \in S : x < q}
    <3>1. ASSUME NEW x \in S, x < p PROVE x < q
      <4>1. x \in Int /\ p \in Int /\ q \in Int
        OBVIOUS
      <4>. QED BY <1>3, <3>1, <4>1
    <3>. QED BY <1>3, <3>1
  <2>4. IsFiniteSet({x \in S : x < q})
    BY FS_Subset
  <2>5. rank(p) + 1 <= rank(q)
    BY <2>2, <2>3, <2>4, FS_Subset
  <2>. QED BY <1>2, <2>5
<1>. HIDE DEF rank
<1>4. f \in Injection(S, 0..(n - 1))
  <2>1. f \in [S -> 0..(n - 1)]
    BY <1>2
  <2>2. ASSUME NEW p \in S, NEW q \in S, f[p] = f[q]
        PROVE  p = q
    <3>1. rank(p) = rank(q) /\ rank(p) \in Int
      BY <1>2, <2>2
    <3>. QED BY <1>3, <3>1
  <2>. HIDE DEF f
  <2>. QED BY <2>1, <2>2 DEF Injection, IsInjective
<1>5. IsFiniteSet(0..(n - 1)) /\ Cardinality(0..(n - 1)) = n
  BY <1>1, FS_Interval
<1>6. f \in Surjection(S, 0..(n - 1))
  BY <1>4, <1>5, FS_Injection
<1>7. PICK p \in S : f[p] = k
  BY <1>6 DEF Surjection
<1>. QED BY <1>7 DEF rank

\* The meshes that an unregistration sends: each the one before without one more of those
\* who are gone, and to a replica only as long as it belongs to them.
NewMeshes(meshes, n, gone) ==
  /\ n \in Nat
  /\ \A i \in 1..n : member \ gone \subseteq meshes[i] /\ StrictlyIn(meshes[i], member)
  /\ \A i, j \in 1..n : i < j => StrictlyIn(meshes[j], meshes[i])
  /\ \A p \in Policies : \E m \in 0..n :
       /\ Len(queue'[p]) = Len(queue[p]) + m
       /\ \A i \in 1..Len(queue[p]) : queue'[p][i] = queue[p][i]
       /\ \A i \in 1..m : queue'[p][Len(queue[p]) + i] = meshes[i] /\ p \in meshes[i]

LEMMA UnregisterSends ==
  ASSUME TypeOK, NEW gone \in SUBSET member, Unregister(gone)
  PROVE  \E meshes, n : NewMeshes(meshes, n, gone)
<1>. DEFINE n == Cardinality(gone)
            before(p) == Cardinality({q \in gone : q < p})
            meshes == [i \in 1..n |-> member \ {p \in gone : before(p) < i}]
            sent(p) == IF p \notin member THEN 0 ELSE IF p \in gone THEN before(p) ELSE n
<1>1. IsFiniteSet(gone) /\ n \in Nat /\ gone \subseteq Nat /\ gone \subseteq member
  BY ConstantsAssumption, FS_Subset, FS_CardinalityType DEF ConstantsAssumption, TypeOK
<1>2. ASSUME NEW p
      PROVE  before(p) \in Nat /\ before(p) <= n
  BY <1>1, FS_Subset, FS_CardinalityType
<1>3. ASSUME NEW k \in 0..(n - 1)
      PROVE  \E p \in gone : before(p) = k
  BY <1>1, EveryRankIsTaken
<1>4. queue' = [p \in Policies |-> queue[p] \o SubSeq(meshes, 1, sent(p))]
  BY DEF Unregister
<1>. HIDE DEF before
<1>5. ASSUME NEW i \in 1..n
      PROVE  member \ gone \subseteq meshes[i] /\ StrictlyIn(meshes[i], member)
  <2>1. meshes[i] = member \ {p \in gone : before(p) < i}
    OBVIOUS
  <2>2. PICK p \in gone : before(p) = 0
    BY <1>1, <1>3
  <2>3. p \in member /\ p \notin meshes[i]
    BY <1>1, <2>1, <2>2
  <2>. HIDE DEF meshes
  <2>. QED BY <2>1, <2>3 DEF StrictlyIn
<1>6. ASSUME NEW i \in 1..n, NEW j \in 1..n, i < j
      PROVE  StrictlyIn(meshes[j], meshes[i])
  <2>1. /\ meshes[i] = member \ {p \in gone : before(p) < i}
        /\ meshes[j] = member \ {p \in gone : before(p) < j}
    OBVIOUS
  <2>2. i \in 0..(n - 1)
    BY <1>1, <1>6
  <2>3. PICK p \in gone : before(p) = i
    BY <1>3, <2>2
  <2>4. p \in meshes[i] /\ p \notin meshes[j]
    BY <1>1, <1>6, <2>1, <2>3
  <2>5. meshes[j] \subseteq meshes[i]
    BY <1>2, <1>6, <2>1
  <2>. QED BY <2>4, <2>5 DEF StrictlyIn
<1>7. ASSUME NEW p \in Policies
      PROVE  sent(p) \in 0..n /\ \A i \in 1..sent(p) : p \in meshes[i]
  <2>1. CASE p \notin member
    BY <1>1, <2>1
  <2>2. CASE p \in gone
    BY <1>1, <1>2, <2>2
  <2>3. CASE p \in member \ gone
    BY <1>1, <2>3
  <2>. QED BY <2>1, <2>2, <2>3
<1>8. ASSUME NEW p \in Policies
      PROVE  \E m \in 0..n :
               /\ Len(queue'[p]) = Len(queue[p]) + m
               /\ \A i \in 1..Len(queue[p]) : queue'[p][i] = queue[p][i]
               /\ \A i \in 1..m : queue'[p][Len(queue[p]) + i] = meshes[i] /\ p \in meshes[i]
  <2>1. queue[p] \in Seq(SUBSET Policies) /\ Len(queue[p]) \in Nat
    BY DEF TypeOK
  <2>2. \A i \in 1..n : meshes[i] \in SUBSET Policies
    BY DEF TypeOK
  <2>. DEFINE m == sent(p)
              more == SubSeq(meshes, 1, m)
  <2>3. m \in 0..n /\ (\A i \in 1..m : p \in meshes[i])
    BY <1>7
  <2>. HIDE DEF meshes, sent
  <2>4. /\ more \in Seq(SUBSET Policies) /\ Len(more) = m
        /\ \A i \in 1..m : more[i] = meshes[i]
    <3>1. \A i \in 1..m : meshes[i] \in SUBSET Policies
      BY <1>1, <2>2, <2>3
    <3>2. m \in Int /\ m >= 0
      BY <1>1, <2>3
    <3>. HIDE DEF m
    <3>. QED BY <3>1, <3>2, SubSeqProperties
  <2>5. queue'[p] = queue[p] \o more
    BY <1>4
  <2>. HIDE DEF m, more
  <2>6. /\ Len(queue'[p]) = Len(queue[p]) + m
        /\ \A i \in 1..(Len(queue[p]) + m) :
             queue'[p][i] = IF i <= Len(queue[p]) THEN queue[p][i] ELSE more[i - Len(queue[p])]
    <3>1. more \in Seq(SUBSET Policies) /\ Len(more) = m
      BY <2>4
    <3>. HIDE DEF m
    <3>2. /\ Len(queue[p] \o more) = Len(queue[p]) + Len(more)
          /\ \A i \in 1..(Len(queue[p]) + Len(more)) :
               (queue[p] \o more)[i] = IF i <= Len(queue[p]) THEN queue[p][i] ELSE more[i - Len(queue[p])]
      BY <2>1, <3>1, ConcatProperties
    <3>. QED BY <2>5, <3>1, <3>2
  <2>7. m \in Nat /\ \A i \in 1..m : queue'[p][Len(queue[p]) + i] = more[i]
    <3>1. m \in Nat
      BY <1>1, <2>3
    <3>2. ASSUME NEW i \in 1..m PROVE queue'[p][Len(queue[p]) + i] = more[i]
      <4>1. Len(queue[p]) + i \in 1..(Len(queue[p]) + m) /\ ~(Len(queue[p]) + i <= Len(queue[p]))
            /\ (Len(queue[p]) + i) - Len(queue[p]) = i
        BY <2>1, <3>1
      <4>. QED BY <2>6, <4>1
    <3>. QED BY <3>1, <3>2
  <2>8. \A i \in 1..Len(queue[p]) : queue'[p][i] = queue[p][i]
    BY <2>1, <2>6, <2>7
  <2>. QED BY <2>3, <2>4, <2>6, <2>7, <2>8
<1>. HIDE DEF meshes, n
<1>. QED BY <1>1, <1>5, <1>6, <1>8 DEF NewMeshes

-----------------------------------------------------------------------------
(* How many tries the losses can cost: the invariant *)

Building(p) == bg[p] \in {"uid", "init"}
Calling(p) == main[p] \in {"enqueue", "flight"}
Away(p) == Cardinality(Policies \ target[p])
Broken(mesh) == mesh \cap Lost # {}

InUse ==
  ({target[p] : p \in Policies} \cup {c.comm : c \in calls}
    \cup (UNION {{queue[p][i] : i \in 1..Len(queue[p])} : p \in Policies})) \ {{}}

\* All meshes ever asked for hold the members, and one of two the other.
MeshesInv ==
  \A mesh \in InUse :
    member \subseteq mesh /\ \A other \in InUse : mesh \subseteq other \/ other \subseteq mesh

\* The meshes that a replica is sent are its own, and each smaller than the one before.
QueueInv ==
  \A p \in Policies :
    /\ target[p] # {} => p \in target[p]
    /\ \A i \in 1..Len(queue[p]) :
         /\ p \in queue[p][i]
         /\ target[p] # {} => StrictlyIn(queue[p][i], target[p])
         /\ \A j \in 1..Len(queue[p]) : i < j => StrictlyIn(queue[p][j], queue[p][i])

\* What the mesh thread is at, the communicator and the training thread.
CommOf(p) ==
  /\ comm[p] \in {{}, target[p]}
  /\ Building(p) => comm[p] = {} /\ target[p] # {}
  /\ Calling(p) => comm[p] # {}
  /\ single[p] => target[p] = {p} /\ comm[p] = {} /\ ~Building(p)
  /\ target[p] = {} => main[p] = "work" /\ op[p] = 1 /\ ~ready[p] /\ ~single[p]

CommInv == \A p \in Policies : CommOf(p)

\* A member leaves its communicator only after the loss of one.
LeftInv ==
  \A p \in Policies : \A q \in comm[p] : comm[q] = comm[p] \/ Broken(comm[p])

\* A replica has failed no more often than it has seen replicas taken out of its mesh,
\* once more when one is lost that still belongs to it.
TriesOf(p) ==
  /\ main[p] \in {"work", "done"} => tries[p] = 0
  /\ main[p] = "wait" => tries[p] <= Away(p) + 1
  /\ main[p] = "wait" /\ (ready[p] \/ Building(p)) => tries[p] <= Away(p)
  /\ main[p] = "lock" => tries[p] <= Away(p)
  /\ main[p] = "lock" /\ comm[p] = {} => tries[p] < Away(p)
  /\ Calling(p) => tries[p] <= Away(p)
  /\ main[p] = "failed" => tries[p] <= Away(p) /\ tries[p] < Cardinality(Lost)
  /\ main[p] = "failed" /\ Building(p) => tries[p] < Away(p)

TriesInv == \A p \in Policies : single[p] \/ TriesOf(p)

GiveUpInv == GivenUp => Cardinality(Lost) >= MaxRetry

LossInv == MeshInv /\ MeshesInv /\ QueueInv /\ CommInv /\ LeftInv /\ TriesInv /\ GiveUpInv

-----------------------------------------------------------------------------
(* How many tries the losses can cost: what the steps change *)

\* The controller has removed these.
Removal(gone) ==
  /\ Unregister(gone)
  /\ UNCHANGED <<alive, bg, target, comm, ready, single, mainVars, calls, results>>

\* The mesh thread goes on with its mesh, or stops building it.
Onward(p) ==
  /\ Building(p)
  /\ bg' \in [Policies -> {"idle", "uid", "init", "ended"}]
  /\ \A q \in Policies \ {p} : bg'[q] = bg[q]
  /\ UNCHANGED <<member, alive, queue, target, comm, ready, single, mainVars, calls, results>>

LEMMA StepCases ==
  ASSUME MeshInv, [Next]_vars
  PROVE  \/ \E gone \in SUBSET member : Removal(gone)
         \/ \E p \in Policies : BgTake(p)
         \/ \E p \in Policies : Onward(p)
         \/ \E mesh \in SUBSET Policies : InitDone(mesh)
         \/ \E p \in Policies : Reduce(p)
         \/ \E p \in Policies : Stop(p)
         \/ UNCHANGED vars
<1>1. CASE CloseWindow
  <2>1. Removal(member \ reported)
    BY <1>1 DEF CloseWindow, Removal
  <2>. QED BY <2>1
<1>2. ASSUME NEW p \in Policies, MonitorRemove(p)
      PROVE  \E gone \in SUBSET member : Removal(gone)
  <2>1. Removal({p}) /\ {p} \in SUBSET member
    BY <1>2 DEF MonitorRemove, Removal
  <2>. QED BY <2>1
<1>3. ASSUME NEW p \in Policies, BgUid(p) \/ BgGiveUp(p) \/ InitTimeout(p)
      PROVE  Onward(p)
  <2>1. bg \in [Policies -> {"idle", "uid", "init", "ended"}]
    BY DEF MeshInv, TypeOK
  <2>2. CASE BgUid(p)
    BY <2>1, <2>2 DEF BgUid, Onward, Building, controllerVars
  <2>3. CASE BgGiveUp(p)
    BY <2>1, <2>3 DEF BgGiveUp, Onward, Building, controllerVars
  <2>4. CASE InitTimeout(p)
    BY <2>1, <2>4 DEF InitTimeout, Onward, Building
  <2>. QED BY <1>3, <2>2, <2>3, <2>4
<1>. QED BY <1>1, <1>2, <1>3 DEF Next, Build

LEMMA LostFacts ==
  ASSUME MeshInv
  PROVE  /\ IsFiniteSet(Policies) /\ Lost \subseteq Policies /\ IsFiniteSet(Lost)
         /\ Cardinality(Lost) \in Nat
         /\ \A p \in Policies : Away(p) \in Nat
<1>1. IsFiniteSet(Policies) /\ Lost \subseteq Policies
  BY ConstantsAssumption DEF ConstantsAssumption, Lost
<1>2. \A S \in SUBSET Policies : IsFiniteSet(S) /\ Cardinality(S) \in Nat
  BY <1>1, FS_Subset, FS_CardinalityType
<1>. QED BY <1>1, <1>2 DEF Away

\* Nobody comes back.
LEMMA LostGrows ==
  ASSUME MeshInv, [Next]_vars
  PROVE  Lost \subseteq Lost' /\ Cardinality(Lost) <= Cardinality(Lost')
<1>1. \A p \in Policies : Up(p)' => Up(p)
  <2>1. UNCHANGED alive \/ \E p \in Policies : Stop(p)
    BY StepCases DEF Removal, BgTake, Onward, InitDone, Reduce, Enter, PassReady, Launch, Enqueued,
      Complete, OpTimeout, Fail, vars
  <2>. QED BY <2>1 DEF Stop, Up, MeshInv, TypeOK
<1>2. member' \subseteq member
  BY StepCases DEF Removal, Unregister, BgTake, Onward, InitDone, Reduce, Enter, PassReady, Launch,
    Enqueued, Complete, OpTimeout, Fail, Stop, vars, controllerVars
<1>3. Lost \subseteq Lost'
  BY <1>1, <1>2 DEF Lost
<1>4. MeshInv'
  BY MeshStep
<1>5. IsFiniteSet(Lost')
  <2>1. Lost' \subseteq Policies /\ IsFiniteSet(Policies)
    BY ConstantsAssumption DEF ConstantsAssumption, Lost
  <2>. QED BY <2>1, FS_Subset
<1>. QED BY <1>3, <1>5, FS_Subset

\* Whoever is no longer in a mesh in use is lost, and if one more is, these are more.
LEMMA AwayAreLost ==
  ASSUME MeshInv, MeshesInv, NEW p \in Policies, target[p] # {}
  PROVE  /\ Away(p) <= Cardinality(Lost)
         /\ Broken(target[p]) => Away(p) < Cardinality(Lost)
<1>1. member \subseteq target[p]
  BY DEF MeshesInv, InUse
<1>2. Policies \ target[p] \subseteq Lost
  BY <1>1 DEF Lost
<1>3. IsFiniteSet(Lost) /\ IsFiniteSet(Policies \ target[p]) /\ Cardinality(Lost) \in Nat /\ Away(p) \in Nat
  BY <1>2, LostFacts, FS_Subset
<1>4. Away(p) <= Cardinality(Lost)
  BY <1>2, <1>3, FS_Subset DEF Away
<1>5. ASSUME Broken(target[p]) PROVE Away(p) # Cardinality(Lost)
  <2>1. Policies \ target[p] # Lost
    BY <1>5 DEF Broken
  <2>. QED BY <1>2, <1>3, <2>1, FS_Subset DEF Away
<1>. QED BY <1>3, <1>4, <1>5

\* The next mesh is smaller, and those who are not in it are lost.
LEMMA TakeFacts ==
  ASSUME MeshInv, MeshesInv, QueueInv, CommInv, NEW p \in Policies, BgTake(p)
  PROVE  /\ p \in target'[p]
         /\ target'[p] = Head(queue[p])
         /\ \A q \in Policies \ {p} : target'[q] = target[q] /\ comm'[q] = comm[q]
         /\ comm'[p] = {}
         /\ target[p] # {} =>
              /\ StrictlyIn(target'[p], target[p])
              /\ Broken(target[p])
              /\ Away(p) < Away(p)'
         /\ ~single[p]
<1>. DEFINE mesh == Head(queue[p])
<1>1. /\ 1 \in 1..Len(queue[p]) /\ mesh = queue[p][1]
  BY DEF BgTake, MeshInv, TypeOK
<1>2. p \in mesh /\ (target[p] # {} => StrictlyIn(mesh, target[p]))
  BY <1>1 DEF QueueInv
<1>3. mesh \in InUse
  BY <1>1, <1>2 DEF InUse
<1>4. member \subseteq mesh
  BY <1>3 DEF MeshesInv
<1>5. target' = [target EXCEPT ![p] = mesh] /\ comm' = [comm EXCEPT ![p] = {}]
  BY DEF BgTake
<1>. HIDE DEF mesh
<1>6. /\ target'[p] = mesh /\ comm'[p] = {}
      /\ \A q \in Policies \ {p} : target'[q] = target[q] /\ comm'[q] = comm[q]
  BY <1>5 DEF MeshInv, TypeOK
<1>7. ASSUME target[p] # {}
      PROVE  StrictlyIn(mesh, target[p]) /\ Broken(target[p]) /\ Away(p) < Away(p)'
  <2>1. PICK x \in target[p] : x \notin mesh
    BY <1>2, <1>7 DEF StrictlyIn
  <2>2. x \in Policies /\ x \in Lost
    BY <1>4, <2>1 DEF Lost, MeshInv, TypeOK
  <2>3. Policies \ target[p] \subseteq Policies \ mesh /\ Policies \ target[p] # Policies \ mesh
    BY <1>2, <1>7, <2>1, <2>2 DEF StrictlyIn
  <2>4. IsFiniteSet(Policies \ mesh)
    BY LostFacts, FS_Subset
  <2>5. Cardinality(Policies \ target[p]) < Cardinality(Policies \ mesh)
    <3>1. IsFiniteSet(Policies \ target[p])
      BY LostFacts, FS_Subset
    <3>2. Cardinality(Policies \ target[p]) \in Nat /\ Cardinality(Policies \ mesh) \in Nat
      BY <2>4, <3>1, FS_CardinalityType
    <3>. QED BY <2>3, <2>4, <3>2, FS_Subset
  <2>. QED BY <1>2, <1>6, <1>7, <2>1, <2>2, <2>5 DEF Broken, Away
<1>8. ~single[p]
  BY <1>2 DEF CommInv, CommOf, StrictlyIn
<1>9. target'[p] = Head(queue[p]) /\ p \in target'[p]
  BY <1>2, <1>6 DEF mesh
<1>. QED BY <1>6, <1>7, <1>8, <1>9

-----------------------------------------------------------------------------
(* How many tries the losses can cost: every step preserves the invariant *)

LEMMA InUseFacts ==
  ASSUME TypeOK
  PROVE  /\ \A p \in Policies : target[p] # {} => target[p] \in InUse
         /\ \A p \in Policies : \A i \in 1..Len(queue[p]) : queue[p][i] # {} => queue[p][i] \in InUse
         /\ \A c \in calls : c.comm # {} => c.comm \in InUse
         /\ \A mesh \in InUse :
              \/ \E p \in Policies : mesh = target[p]
              \/ \E p \in Policies : \E i \in 1..Len(queue[p]) : mesh = queue[p][i]
              \/ \E c \in calls : mesh = c.comm
BY DEF InUse

LEMMA MeshesStep ==
  ASSUME LossInv, [Next]_vars
  PROVE  MeshesInv'
<1>. USE DEF LossInv
<1>0. TypeOK /\ TypeOK'
  BY MeshStep DEF MeshInv
<1>1. ASSUME NEW gone \in SUBSET member, Removal(gone)
      PROVE  MeshesInv'
  <2>1. PICK meshes, n : NewMeshes(meshes, n, gone)
    BY <1>0, <1>1, UnregisterSends DEF Removal
  <2>2. member' = member \ gone /\ UNCHANGED <<target, calls>>
    BY <1>1 DEF Removal, Unregister
  <2>3. ASSUME NEW mesh \in InUse'
        PROVE  mesh \in InUse \/ \E i \in 1..n : mesh = meshes[i]
    <3>1. mesh # {}
      BY DEF InUse
    <3>2. CASE \E p \in Policies : mesh = target[p] \/ \E c \in calls : mesh = c.comm
      BY <1>0, <3>1, <3>2, InUseFacts
    <3>3. ASSUME NEW p \in Policies, NEW i \in 1..Len(queue'[p]), mesh = queue'[p][i]
          PROVE  mesh \in InUse \/ \E j \in 1..n : mesh = meshes[j]
      <4>1. PICK m \in 0..n :
              /\ Len(queue'[p]) = Len(queue[p]) + m
              /\ \A j \in 1..Len(queue[p]) : queue'[p][j] = queue[p][j]
              /\ \A j \in 1..m : queue'[p][Len(queue[p]) + j] = meshes[j] /\ p \in meshes[j]
        BY <2>1 DEF NewMeshes
      <4>2. n \in Nat /\ Len(queue[p]) \in Nat
        BY <1>0, <2>1 DEF NewMeshes, TypeOK
      <4>3. CASE i <= Len(queue[p])
        <5>1. i \in 1..Len(queue[p])
          BY <4>2, <4>3
        <5>2. mesh = queue[p][i]
          BY <3>3, <4>1, <5>1
        <5>. QED BY <1>0, <3>1, <5>1, <5>2, InUseFacts
      <4>4. CASE i > Len(queue[p])
        <5>. DEFINE j == i - Len(queue[p])
        <5>1. j \in 1..m /\ i = Len(queue[p]) + j /\ j \in 1..n
          BY <4>1, <4>2, <4>4
        <5>2. mesh = meshes[j]
          BY <3>3, <4>1, <5>1
        <5>. QED BY <5>1, <5>2
      <4>. QED BY <4>2, <4>3, <4>4
    <3>4. \/ \E p \in Policies : mesh = target'[p]
          \/ \E p \in Policies : \E i \in 1..Len(queue'[p]) : mesh = queue'[p][i]
          \/ \E c \in calls' : mesh = c.comm
      BY <1>0 DEF InUse
    <3>. QED BY <1>0, <2>2, <3>1, <3>3, <3>4, InUseFacts
  <2>4. ASSUME NEW mesh \in InUse'
        PROVE  member' \subseteq mesh /\ \A other \in InUse' : mesh \subseteq other \/ other \subseteq mesh
    <3>1. member' \subseteq mesh
      BY <2>1, <2>2, <2>3 DEF NewMeshes, MeshesInv
    <3>2. ASSUME NEW other \in InUse'
          PROVE  mesh \subseteq other \/ other \subseteq mesh
      <4>1. CASE mesh \in InUse /\ other \in InUse
        BY <4>1 DEF MeshesInv
      <4>2. CASE mesh \in InUse /\ \E i \in 1..n : other = meshes[i]
        BY <2>1, <4>2 DEF MeshesInv, NewMeshes, StrictlyIn
      <4>3. CASE other \in InUse /\ \E i \in 1..n : mesh = meshes[i]
        BY <2>1, <4>3 DEF MeshesInv, NewMeshes, StrictlyIn
      <4>4. CASE (\E i \in 1..n : mesh = meshes[i]) /\ \E i \in 1..n : other = meshes[i]
        <5>1. PICK i \in 1..n, j \in 1..n : mesh = meshes[i] /\ other = meshes[j]
          BY <4>4
        <5>2. i < j \/ j < i \/ i = j
          BY <2>1 DEF NewMeshes
        <5>. QED BY <2>1, <5>1, <5>2 DEF NewMeshes, StrictlyIn
      <4>. QED BY <2>3, <4>1, <4>2, <4>3, <4>4
    <3>. QED BY <3>1, <3>2
  <2>. QED BY <2>4 DEF MeshesInv
<1>2. ASSUME InUse' \subseteq InUse, UNCHANGED member
      PROVE  MeshesInv'
  BY <1>2 DEF MeshesInv
<1>3. ASSUME NEW p \in Policies, BgTake(p)
      PROVE  MeshesInv'
  <2>1. /\ queue[p] \in Seq(SUBSET Policies) /\ queue[p] # <<>>
        /\ queue' = [queue EXCEPT ![p] = Tail(@)] /\ UNCHANGED <<calls, member>>
    BY <1>0, <1>3 DEF BgTake, TypeOK
  <2>2. /\ queue'[p] = Tail(queue[p]) /\ \A q \in Policies \ {p} : queue'[q] = queue[q]
        /\ Len(queue[p]) \in Nat /\ Len(queue[p]) >= 1
    BY <1>0, <2>1 DEF TypeOK
  <2>3. /\ Len(queue'[p]) = Len(queue[p]) - 1
        /\ \A i \in 1..Len(queue'[p]) : queue'[p][i] = queue[p][i + 1]
    <3>1. /\ Len(Tail(queue[p])) = Len(queue[p]) - 1
          /\ \A i \in 1..Len(Tail(queue[p])) : Tail(queue[p])[i] = queue[p][i + 1]
      BY <2>1, HeadTailProperties
    <3>. QED BY <2>2, <3>1
  <2>4. target'[p] = queue[p][1] /\ \A q \in Policies \ {p} : target'[q] = target[q]
    BY <1>3, <2>1, TakeFacts
  <2>5. ASSUME NEW mesh \in InUse' PROVE mesh \in InUse
    <3>1. mesh # {}
      BY DEF InUse
    <3>2. CASE \E q \in Policies : mesh = target'[q]
      BY <1>0, <2>2, <2>4, <3>1, <3>2, InUseFacts
    <3>3. ASSUME NEW q \in Policies, NEW i \in 1..Len(queue'[q]), mesh = queue'[q][i]
          PROVE  mesh \in InUse
      <4>1. CASE q = p
        <5>1. i + 1 \in 1..Len(queue[p]) /\ mesh = queue[p][i + 1]
          <6>1. i \in 1..Len(queue'[p]) /\ mesh = queue'[p][i]
            BY <3>3, <4>1
          <6>2. Len(queue'[p]) = Len(queue[p]) - 1 /\ Len(queue[p]) \in Nat
            BY <2>2, <2>3
          <6>. QED BY <2>3, <6>1, <6>2
        <5>. QED BY <1>0, <3>1, <5>1, InUseFacts
      <4>2. CASE q # p
        <5>1. i \in 1..Len(queue[q]) /\ mesh = queue[q][i]
          BY <2>2, <3>3, <4>2
        <5>. QED BY <1>0, <3>1, <5>1, InUseFacts
      <4>. QED BY <4>1, <4>2
    <3>4. CASE \E c \in calls' : mesh = c.comm
      BY <1>0, <2>1, <3>1, <3>4, InUseFacts
    <3>5. \/ \E q \in Policies : mesh = target'[q]
          \/ \E q \in Policies : \E i \in 1..Len(queue'[q]) : mesh = queue'[q][i]
          \/ \E c \in calls' : mesh = c.comm
      BY <1>0 DEF InUse
    <3>. QED BY <3>2, <3>3, <3>4, <3>5
  <2>. QED BY <1>2, <2>1, <2>5
<1>4. ASSUME UNCHANGED <<member, target, queue, calls>>
      PROVE  MeshesInv'
  BY <1>2, <1>4 DEF InUse
<1>5. ASSUME NEW p \in Policies, Launch(p)
      PROVE  MeshesInv'
  <2>1. UNCHANGED <<member, target, queue>>
    BY <1>5 DEF Launch, controllerVars, meshVars
  <2>2. \A c \in calls' : c \in calls \/ c.comm = comm[p]
    BY <1>5 DEF Launch
  <2>3. comm[p] \in {{}, target[p]}
    BY DEF CommInv, CommOf
  <2>4. InUse' \subseteq InUse
    BY <2>1, <2>2, <2>3 DEF InUse
  <2>. QED BY <1>2, <2>1, <2>4
<1>6. ASSUME NEW p \in Policies, Reduce(p), ~Launch(p)
      PROVE  UNCHANGED <<member, target, queue, calls>>
  BY <1>6 DEF Reduce, Enter, PassReady, Enqueued, Complete, OpTimeout, Fail, controllerVars, meshVars
<1>7. \/ UNCHANGED <<member, target, queue, calls>>
      \/ \E gone \in SUBSET member : Removal(gone)
      \/ \E p \in Policies : BgTake(p)
      \/ \E p \in Policies : Launch(p)
  BY <1>6, StepCases DEF Onward, InitDone, Stop, vars, controllerVars, meshVars
<1>. QED BY <1>1, <1>3, <1>4, <1>5, <1>7

LEMMA QueueStep ==
  ASSUME LossInv, [Next]_vars
  PROVE  QueueInv'
<1>. USE DEF LossInv
<1>0. TypeOK
  BY DEF MeshInv
<1>1. ASSUME NEW gone \in SUBSET member, Removal(gone), NEW p \in Policies
      PROVE  /\ target'[p] # {} => p \in target'[p]
             /\ \A i \in 1..Len(queue'[p]) :
                  /\ p \in queue'[p][i]
                  /\ target'[p] # {} => StrictlyIn(queue'[p][i], target'[p])
                  /\ \A j \in 1..Len(queue'[p]) : i < j => StrictlyIn(queue'[p][j], queue'[p][i])
  <2>1. PICK meshes, n : NewMeshes(meshes, n, gone)
    BY <1>0, <1>1, UnregisterSends DEF Removal
  <2>2. PICK m \in 0..n :
          /\ Len(queue'[p]) = Len(queue[p]) + m
          /\ \A j \in 1..Len(queue[p]) : queue'[p][j] = queue[p][j]
          /\ \A j \in 1..m : queue'[p][Len(queue[p]) + j] = meshes[j] /\ p \in meshes[j]
    BY <2>1 DEF NewMeshes
  <2>3. n \in Nat /\ m \in Nat /\ Len(queue[p]) \in Nat /\ target' = target
    BY <1>0, <1>1, <2>1 DEF NewMeshes, TypeOK, Removal
  <2>. DEFINE old == Len(queue[p])
  <2>4. ASSUME NEW i \in 1..Len(queue'[p])
        PROVE  \/ i \in 1..old /\ queue'[p][i] = queue[p][i]
               \/ /\ i - old \in 1..m /\ i - old \in 1..n
                  /\ queue'[p][i] = meshes[i - old] /\ p \in meshes[i - old]
    <3>1. CASE i <= old
      BY <2>2, <2>3, <3>1
    <3>2. CASE i > old
      <4>1. i - old \in 1..m /\ i - old \in 1..n /\ i = old + (i - old)
        BY <2>2, <2>3, <3>2
      <4>. QED BY <2>2, <4>1
    <3>. QED BY <2>3, <3>1, <3>2
  <2>5. \A i \in 1..old : queue[p][i] # {} /\ member \subseteq queue[p][i]
    <3>1. ASSUME NEW i \in 1..old PROVE queue[p][i] # {} /\ member \subseteq queue[p][i]
      <4>1. p \in queue[p][i]
        BY DEF QueueInv
      <4>2. queue[p][i] \in InUse
        BY <1>0, <4>1, InUseFacts
      <4>. QED BY <4>1, <4>2 DEF MeshesInv
    <3>. QED BY <3>1
  <2>6. target[p] # {} => member \subseteq target[p] /\ p \in target[p]
    BY <1>0, InUseFacts DEF MeshesInv, QueueInv
  <2>7. \A i \in 1..n : StrictlyIn(meshes[i], member)
    BY <2>1 DEF NewMeshes
  <2>8. ASSUME NEW i \in 1..Len(queue'[p])
        PROVE  p \in queue'[p][i] /\ (target[p] # {} => StrictlyIn(queue'[p][i], target[p]))
    <3>1. CASE i \in 1..old /\ queue'[p][i] = queue[p][i]
      BY <3>1 DEF QueueInv
    <3>2. CASE i - old \in 1..n /\ queue'[p][i] = meshes[i - old] /\ p \in meshes[i - old]
      <4>1. StrictlyIn(queue'[p][i], member)
        BY <2>7, <3>2
      <4>. QED BY <2>6, <3>2, <4>1 DEF StrictlyIn
    <3>. QED BY <2>4, <3>1, <3>2
  <2>9. ASSUME NEW i \in 1..Len(queue'[p]), NEW j \in 1..Len(queue'[p]), i < j
        PROVE  StrictlyIn(queue'[p][j], queue'[p][i])
    <3>1. CASE i \in 1..old /\ queue'[p][i] = queue[p][i] /\ j \in 1..old /\ queue'[p][j] = queue[p][j]
      BY <2>9, <3>1 DEF QueueInv
    <3>2. CASE /\ i \in 1..old /\ queue'[p][i] = queue[p][i]
               /\ j - old \in 1..n /\ queue'[p][j] = meshes[j - old]
      <4>1. StrictlyIn(queue'[p][j], member) /\ member \subseteq queue'[p][i]
        BY <2>5, <2>7, <3>2
      <4>. QED BY <4>1 DEF StrictlyIn
    <3>3. CASE /\ i - old \in 1..n /\ queue'[p][i] = meshes[i - old]
               /\ j - old \in 1..n /\ queue'[p][j] = meshes[j - old]
      <4>1. i - old < j - old
        BY <2>2, <2>3, <2>9
      <4>. QED BY <2>1, <3>3, <4>1 DEF NewMeshes
    <3>4. CASE i - old \in 1..n /\ j \in 1..old
      BY <2>3, <2>9, <3>4
    <3>. QED BY <2>4, <3>1, <3>2, <3>3, <3>4
  <2>. QED BY <2>3, <2>6, <2>8, <2>9
<1>2. ASSUME NEW p \in Policies, BgTake(p), NEW q \in Policies
      PROVE  /\ target'[q] # {} => q \in target'[q]
             /\ \A i \in 1..Len(queue'[q]) :
                  /\ q \in queue'[q][i]
                  /\ target'[q] # {} => StrictlyIn(queue'[q][i], target'[q])
                  /\ \A j \in 1..Len(queue'[q]) : i < j => StrictlyIn(queue'[q][j], queue'[q][i])
  <2>1. /\ queue[p] \in Seq(SUBSET Policies) /\ queue[p] # <<>>
        /\ queue' = [queue EXCEPT ![p] = Tail(@)]
    BY <1>0, <1>2 DEF BgTake, TypeOK
  <2>2. /\ queue'[p] = Tail(queue[p]) /\ (q # p => queue'[q] = queue[q])
        /\ Len(queue[p]) \in Nat /\ Len(queue[p]) >= 1
    BY <1>0, <2>1 DEF TypeOK
  <2>3. /\ Len(queue'[p]) = Len(queue[p]) - 1
        /\ \A i \in 1..Len(queue'[p]) : queue'[p][i] = queue[p][i + 1]
    BY <2>1, <2>2, HeadTailProperties
  <2>4. target'[p] = queue[p][1] /\ p \in target'[p] /\ (q # p => target'[q] = target[q])
    BY <1>2, <2>1, TakeFacts
  <2>5. CASE q # p
    BY <2>2, <2>4, <2>5 DEF QueueInv
  <2>6. ASSUME NEW i \in 1..Len(queue'[p])
        PROVE  /\ p \in queue'[p][i] /\ StrictlyIn(queue'[p][i], target'[p])
               /\ \A j \in 1..Len(queue'[p]) : i < j => StrictlyIn(queue'[p][j], queue'[p][i])
    <3>1. i + 1 \in 1..Len(queue[p]) /\ queue'[p][i] = queue[p][i + 1] /\ 1 \in 1..Len(queue[p]) /\ 1 < i + 1
      BY <2>2, <2>3
    <3>2. ASSUME NEW j \in 1..Len(queue'[p]), i < j
          PROVE  j + 1 \in 1..Len(queue[p]) /\ queue'[p][j] = queue[p][j + 1] /\ i + 1 < j + 1
      BY <2>2, <2>3, <3>2
    <3>. QED BY <2>4, <3>1, <3>2 DEF QueueInv
  <2>. QED BY <2>4, <2>5, <2>6
<1>3. \/ UNCHANGED <<target, queue>>
      \/ \E gone \in SUBSET member : Removal(gone)
      \/ \E p \in Policies : BgTake(p)
  BY StepCases DEF Onward, InitDone, Reduce, Enter, PassReady, Launch, Enqueued, Complete, OpTimeout,
    Fail, Stop, vars, controllerVars, meshVars
<1>4. CASE UNCHANGED <<target, queue>>
  BY <1>4 DEF QueueInv
<1>. QED BY <1>1, <1>2, <1>3, <1>4 DEF QueueInv

\* What an all-reduce that has ended leaves.
LEMMA NextOpFacts ==
  ASSUME MeshInv, NEW p \in Policies, NextOp(p)
  PROVE  /\ op'[p] = op[p] + 1 /\ tries'[p] = 0 /\ main'[p] \in {"work", "done"}
         /\ \A q \in Policies \ {p} : op'[q] = op[q] /\ tries'[q] = tries[q] /\ main'[q] = main[q]
BY DEF NextOp, MeshInv, TypeOK

LEMMA TakeMain ==
  ASSUME MeshInv, NEW p \in Policies, BgTake(p)
  PROVE  /\ \A q \in Policies \ {p} : op'[q] = op[q] /\ tries'[q] = tries[q] /\ main'[q] = main[q]
         /\ bg[p] = "idle" /\ main[p] # "enqueue"
         /\ \/ /\ main[p] # "flight"
               /\ op'[p] = op[p] /\ tries'[p] = tries[p] /\ main'[p] = main[p]
            \/ main[p] = "flight" /\ tries'[p] = 0 /\ main'[p] \in {"work", "done"}
            \/ main[p] = "flight" /\ tries'[p] = tries[p] /\ main'[p] = "failed"
<1>1. \/ main[p] # "flight" /\ UNCHANGED mainVars
      \/ main[p] = "flight" /\ NextOp(p)
      \/ main[p] = "flight" /\ main' = [main EXCEPT ![p] = "failed"] /\ UNCHANGED <<op, tries>>
  BY DEF BgTake
<1>2. CASE main[p] = "flight" /\ main' = [main EXCEPT ![p] = "failed"] /\ UNCHANGED <<op, tries>>
  BY <1>2 DEF BgTake, LockFree, MeshInv, TypeOK
<1>. QED BY <1>1, <1>2, NextOpFacts DEF BgTake, LockFree, mainVars

LEMMA TakeFlags ==
  ASSUME MeshInv, NEW p \in Policies, BgTake(p)
  PROVE  /\ \A q \in Policies \ {p} : bg'[q] = bg[q] /\ ready'[q] = ready[q] /\ single'[q] = single[q]
         /\ bg'[p] = "idle" <=> target'[p] = {p}
         /\ bg'[p] # "ended"
         /\ ready'[p] <=> target'[p] = {p}
         /\ single'[p] <=> (single[p] \/ target'[p] = {p})
<1>. DEFINE mesh == Head(queue[p])
<1>1. /\ target' = [target EXCEPT ![p] = mesh]
      /\ ready' = [ready EXCEPT ![p] = mesh = {p}]
      /\ single' = [single EXCEPT ![p] = @ \/ mesh = {p}]
      /\ bg' = [bg EXCEPT ![p] = IF mesh = {p} THEN "idle"
                                 ELSE IF p = RankZero(mesh) THEN "init" ELSE "uid"]
  BY DEF BgTake
<1>. HIDE DEF mesh
<1>2. target'[p] = mesh
  BY <1>1 DEF MeshInv, TypeOK
<1>3. ready \in [Policies -> BOOLEAN] /\ single \in [Policies -> BOOLEAN]
  BY DEF MeshInv, TypeOK
<1>4. ready'[p] = (mesh = {p}) /\ \A q \in Policies \ {p} : ready'[q] = ready[q]
  BY <1>1, <1>3, Zenon
<1>5. single'[p] = (single[p] \/ mesh = {p}) /\ \A q \in Policies \ {p} : single'[q] = single[q]
  BY <1>1, <1>3, Zenon
<1>6. /\ bg'[p] = "idle" <=> mesh = {p}
      /\ bg'[p] # "ended" /\ \A q \in Policies \ {p} : bg'[q] = bg[q]
  BY <1>1 DEF MeshInv, TypeOK
<1>. QED BY <1>2, <1>4, <1>5, <1>6, Zenon

LEMMA DoneFlags ==
  ASSUME MeshInv, NEW mesh \in SUBSET Policies, InitDone(mesh)
  PROVE  /\ \A q \in mesh :
              /\ bg[q] = "init" /\ target[q] = mesh /\ bg'[q] = "idle"
              /\ comm'[q] = mesh /\ ~single'[q]
         /\ \A q \in Policies \ mesh :
              /\ bg'[q] = bg[q] /\ comm'[q] = comm[q]
              /\ (ready'[q] <=> ready[q]) /\ (single'[q] <=> single[q])
         /\ UNCHANGED <<member, alive, queue, target, main, op, tries, calls, results>>
         /\ mesh # {}
<1>1. /\ bg' = [q \in Policies |-> IF q \in mesh THEN "idle" ELSE bg[q]]
      /\ comm' = [q \in Policies |-> IF q \in mesh THEN mesh ELSE comm[q]]
      /\ UNCHANGED <<member, alive, queue, target, main, op, tries, calls, results>> /\ mesh # {}
      /\ \A q \in mesh : bg[q] = "init" /\ target[q] = mesh
  BY DEF InitDone, mainVars
<1>2. \A q \in Policies : ready'[q] = (q \in mesh \/ ready[q]) /\ single'[q] = (q \notin mesh /\ single[q])
  BY DEF InitDone
<1>3. \A q \in mesh : ~single'[q]
  BY <1>2, Zenon
<1>4. \A q \in Policies \ mesh : (ready'[q] <=> ready[q]) /\ (single'[q] <=> single[q])
  BY <1>2, Zenon
<1>. QED BY <1>1, <1>3, <1>4

\* What an action of the training thread of p leaves alone.
LEMMA ReduceFrame ==
  ASSUME MeshInv, NEW p \in Policies, Reduce(p)
  PROVE  /\ UNCHANGED <<member, alive, queue, bg, target, single>>
         /\ \A q \in Policies \ {p} :
              /\ main'[q] = main[q] /\ op'[q] = op[q] /\ tries'[q] = tries[q]
              /\ ready'[q] = ready[q] /\ comm'[q] = comm[q]
<1>. USE DEF controllerVars, meshVars
<1>1. CASE Enter(p)
  BY <1>1, NextOpFacts DEF Enter, MeshInv, TypeOK
<1>2. CASE PassReady(p)
  BY <1>2 DEF PassReady, MeshInv, TypeOK
<1>3. CASE Launch(p)
  <2>1. main' = [main EXCEPT ![p] = "failed"] \/ main' = [main EXCEPT ![p] = "enqueue"]
    BY <1>3, Zenon DEF Launch
  <2>. QED BY <1>3, <2>1 DEF Launch, MeshInv, TypeOK
<1>4. CASE Enqueued(p)
  BY <1>4 DEF Enqueued, MeshInv, TypeOK
<1>5. CASE Complete(p)
  BY <1>5, NextOpFacts DEF Complete, MeshInv, TypeOK
<1>6. CASE OpTimeout(p)
  BY <1>6 DEF OpTimeout, MeshInv, TypeOK
<1>7. CASE Fail(p)
  <2>1. \A q \in Policies \ {p} : ready'[q] = ready[q]
    BY <1>7 DEF Fail, ClearReady, MeshInv, TypeOK
  <2>2. \A q \in Policies \ {p} : main'[q] = main[q] /\ op'[q] = op[q] /\ tries'[q] = tries[q]
    <3>1. CASE NextOp(p)
      BY <3>1, NextOpFacts
    <3>2. CASE /\ main' = [main EXCEPT ![p] = "wait"] /\ tries' = [tries EXCEPT ![p] = @ + 1] /\ op' = op
      BY <3>2 DEF MeshInv, TypeOK
    <3>. QED BY <1>7, <3>1, <3>2 DEF Fail, Retry
  <2>. QED BY <1>7, <2>1, <2>2 DEF Fail
<1>. QED BY <1>1, <1>2, <1>3, <1>4, <1>5, <1>6, <1>7 DEF Reduce

\* What an action of the training thread of p does.
LEMMA ReduceCases ==
  ASSUME MeshInv, NEW p \in Policies, Reduce(p)
  PROVE  \/ /\ main[p] = "work" /\ (op[p] = 1 => ready[p]) /\ comm' = comm /\ ready' = ready
            /\ calls' = calls /\ results' = results
            /\ \/ single[p] /\ NextOp(p)
               \/ ~single[p] /\ main'[p] = "wait" /\ op'[p] = op[p] /\ tries'[p] = tries[p]
         \/ /\ main[p] = "wait" /\ ready[p] /\ comm' = comm /\ ready' = ready
            /\ calls' = calls /\ results' = results
            /\ main'[p] = "lock" /\ op'[p] = op[p] /\ tries'[p] = tries[p]
         \/ /\ main[p] = "lock" /\ ~Building(p) /\ comm' = comm /\ ready' = ready
            /\ comm[p] = {} /\ calls' = calls /\ results' = results
            /\ main'[p] = "failed" /\ op'[p] = op[p] /\ tries'[p] = tries[p]
         \/ /\ main[p] = "lock" /\ ~Building(p) /\ comm' = comm /\ ready' = ready
            /\ comm[p] # {} /\ results' = results
            /\ calls' = calls \cup {[by |-> p, op |-> op[p], comm |-> comm[p],
                                     nth |-> Cardinality(CallsOf(p, comm[p])) + 1]}
            /\ main'[p] = "enqueue" /\ op'[p] = op[p] /\ tries'[p] = tries[p]
         \/ /\ main[p] = "enqueue" /\ comm' = comm /\ ready' = ready
            /\ calls' = calls /\ results' = results
            /\ main'[p] = "flight" /\ op'[p] = op[p] /\ tries'[p] = tries[p]
         \/ /\ main[p] = "flight" /\ AllCalled(p) /\ NextOp(p) /\ comm' = comm /\ ready' = ready
            /\ calls' = calls /\ results' = results \cup {Ended(p, "done")}
         \/ /\ Calling(p) /\ (\E q \in comm[p] : ~Up(q) \/ comm[q] # comm[p])
            /\ comm'[p] = {} /\ ready' = ready
            /\ calls' = calls /\ results' = results \cup {Ended(p, "failed")}
            /\ main'[p] = "failed" /\ op'[p] = op[p] /\ tries'[p] = tries[p]
         \/ /\ main[p] = "failed" /\ comm' = comm /\ ~ready'[p] /\ calls' = calls
            /\ \/ /\ tries[p] + 1 < MaxRetry /\ results' = results
                  /\ main'[p] = "wait" /\ op'[p] = op[p] /\ tries'[p] = tries[p] + 1
               \/ /\ tries[p] + 1 = MaxRetry /\ NextOp(p)
                  /\ results' = results \cup Skipped(p)
<1>. USE DEF controllerVars, meshVars
<1>1. CASE Enter(p)
  BY <1>1 DEF Enter, MeshInv, TypeOK
<1>2. CASE PassReady(p)
  BY <1>2 DEF PassReady, MeshInv, TypeOK
<1>3. CASE Launch(p)
  <2>1. \/ comm[p] = {} /\ main' = [main EXCEPT ![p] = "failed"] /\ calls' = calls
        \/ /\ comm[p] # {} /\ main' = [main EXCEPT ![p] = "enqueue"]
           /\ calls' = calls \cup {[by |-> p, op |-> op[p], comm |-> comm[p],
                                    nth |-> Cardinality(CallsOf(p, comm[p])) + 1]}
    BY <1>3, Zenon DEF Launch
  <2>2. /\ main[p] = "lock" /\ ~Building(p) /\ comm' = comm /\ ready' = ready /\ results' = results
        /\ op'[p] = op[p] /\ tries'[p] = tries[p]
    BY <1>3 DEF Launch, LockFree, Building
  <2>3. \/ comm[p] = {} /\ main'[p] = "failed" /\ calls' = calls
        \/ /\ comm[p] # {} /\ main'[p] = "enqueue"
           /\ calls' = calls \cup {[by |-> p, op |-> op[p], comm |-> comm[p],
                                    nth |-> Cardinality(CallsOf(p, comm[p])) + 1]}
    BY <2>1 DEF MeshInv, TypeOK
  <2>. QED BY <2>2, <2>3
<1>4. CASE Enqueued(p)
  BY <1>4 DEF Enqueued, MeshInv, TypeOK
<1>5. CASE Complete(p)
  BY <1>5 DEF Complete, MeshInv, TypeOK
<1>6. CASE OpTimeout(p)
  BY <1>6 DEF OpTimeout, Calling, MeshInv, TypeOK
<1>7. CASE Fail(p)
  <2>1. ~ready'[p]
    BY <1>7 DEF Fail, ClearReady, MeshInv, TypeOK
  <2>2. main[p] = "failed" /\ comm' = comm /\ calls' = calls
    BY <1>7 DEF Fail
  <2>3. \/ /\ tries[p] + 1 < MaxRetry /\ results' = results
           /\ main'[p] = "wait" /\ op'[p] = op[p] /\ tries'[p] = tries[p] + 1
        \/ tries[p] + 1 = MaxRetry /\ NextOp(p) /\ results' = results \cup Skipped(p)
    BY <1>7 DEF Fail, Retry, MeshInv, TypeOK
  <2>. QED BY <2>1, <2>2, <2>3
<1>. QED BY <1>1, <1>2, <1>3, <1>4, <1>5, <1>6, <1>7 DEF Reduce

LEMMA CommStep ==
  ASSUME LossInv, [Next]_vars
  PROVE  CommInv'
<1>. USE DEF LossInv
<1>1. ASSUME NEW q \in Policies,
             comm'[q] = comm[q], target'[q] = target[q], main'[q] = main[q], op'[q] = op[q],
             ready'[q] <=> ready[q], single'[q] <=> single[q], Building(q)' => Building(q)
      PROVE  CommOf(q)'
  BY <1>1 DEF CommInv, CommOf, Calling
<1>2. CASE \E gone \in SUBSET member : Removal(gone)
  BY <1>1, <1>2 DEF Removal, mainVars, Building, CommInv
<1>3. ASSUME NEW p \in Policies, Onward(p)
      PROVE  CommInv'
  <2>1. \A q \in Policies : Building(q)' => Building(q)
    BY <1>3 DEF Onward, Building
  <2>. QED BY <1>1, <1>3, <2>1 DEF Onward, mainVars, CommInv
<1>4. ASSUME NEW p \in Policies, BgTake(p)
      PROVE  CommInv'
  <2>1. ASSUME NEW q \in Policies \ {p}
        PROVE  CommOf(q)'
    BY <1>1, <1>4, <2>1, TakeFacts, TakeMain, TakeFlags DEF Building
  <2>2. CommOf(p)'
    <3>1. comm'[p] = {} /\ p \in target'[p] /\ ~single[p]
      BY <1>4, TakeFacts
    <3>2. ~Calling(p)'
      BY <1>4, TakeMain DEF Calling, MeshInv, TypeOK
    <3>3. single'[p] => target'[p] = {p} /\ bg'[p] = "idle"
      BY <1>4, <3>1, TakeFlags
    <3>. QED BY <3>1, <3>2, <3>3 DEF CommOf, Building
  <2>. QED BY <2>1, <2>2 DEF CommInv
<1>5. ASSUME NEW mesh \in SUBSET Policies, InitDone(mesh)
      PROVE  CommInv'
  <2>1. ASSUME NEW q \in Policies \ mesh
        PROVE  CommOf(q)'
    <3>1. /\ comm'[q] = comm[q] /\ target'[q] = target[q] /\ main'[q] = main[q] /\ op'[q] = op[q]
          /\ (ready'[q] <=> ready[q]) /\ (single'[q] <=> single[q]) /\ bg'[q] = bg[q]
      BY <1>5, DoneFlags
    <3>. QED BY <1>1, <3>1 DEF Building
  <2>2. ASSUME NEW q \in mesh
        PROVE  CommOf(q)'
    <3>1. /\ comm'[q] = mesh /\ target'[q] = mesh /\ mesh # {} /\ bg'[q] = "idle" /\ ~single'[q]
      BY <1>5, <2>2, DoneFlags
    <3>. QED BY <3>1 DEF CommOf, Building
  <2>. QED BY <2>1, <2>2 DEF CommInv
<1>6. ASSUME NEW p \in Policies, Reduce(p)
      PROVE  CommInv'
  <2>1. ASSUME NEW q \in Policies \ {p}
        PROVE  CommOf(q)'
    BY <1>1, <1>6, <2>1, ReduceFrame DEF Building
  <2>2. CommOf(p)'
    <3>1. CommOf(p) /\ UNCHANGED <<bg, target, single>>
      BY <1>6, ReduceFrame DEF CommInv
    <3>2. ASSUME NextOp(p) PROVE main'[p] \in {"work", "done"}
      BY <3>2, NextOpFacts
    <3>3. comm'[p] \in {{}, comm[p]} /\ (Calling(p)' => comm'[p] # {})
      BY <1>6, <3>1, <3>2, ReduceCases DEF CommOf, Calling
    <3>4. target[p] # {}
      BY <1>6, <3>1, ReduceCases DEF CommOf, Calling
    <3>. QED BY <3>1, <3>3, <3>4 DEF CommOf, Building
  <2>. QED BY <2>1, <2>2 DEF CommInv
<1>7. CASE (\E p \in Policies : Stop(p)) \/ UNCHANGED vars
  BY <1>1, <1>7 DEF Stop, vars, meshVars, mainVars, Building, CommInv
<1>. QED BY <1>2, <1>3, <1>4, <1>5, <1>6, <1>7, StepCases

LEMMA LeftStep ==
  ASSUME LossInv, [Next]_vars
  PROVE  LeftInv'
<1>. USE DEF LossInv
<1>1. \A mesh : mesh \cap Lost # {} => mesh \cap Lost' # {}
  BY LostGrows
<1>2. ASSUME NEW p \in Policies, \A q \in Policies \ {p} : comm'[q] = comm[q],
             comm'[p] = {}, comm[p] # {} => Broken(comm[p])
      PROVE  LeftInv'
  <2>. SUFFICES ASSUME NEW r \in Policies, NEW q \in comm'[r]
                PROVE  comm'[q] = comm'[r] \/ Broken(comm[r])'
    BY DEF LeftInv
  <2>1. r # p /\ comm'[r] = comm[r] /\ q \in Policies
    BY <1>2 DEF MeshInv, TypeOK
  <2>2. comm[q] = comm[r] \/ Broken(comm[r])
    BY <2>1 DEF LeftInv
  <2>3. CASE q = p
    <3>1. Broken(comm[r])
      BY <1>2, <2>1, <2>2, <2>3
    <3>. QED BY <1>1, <2>1, <3>1 DEF Broken
  <2>4. CASE q # p
    <3>1. comm'[q] = comm[q]
      BY <1>2, <2>1, <2>4
    <3>. QED BY <1>1, <2>1, <2>2, <3>1 DEF Broken
  <2>. QED BY <2>3, <2>4
<1>3. ASSUME comm' = comm PROVE LeftInv'
  BY <1>1, <1>3 DEF LeftInv, Broken
<1>4. ASSUME NEW p \in Policies, BgTake(p) PROVE LeftInv'
  <2>1. comm[p] # {} => Broken(comm[p])
    BY <1>4, TakeFacts DEF CommInv, CommOf
  <2>. QED BY <1>2, <1>4, <2>1, TakeFacts
<1>5. ASSUME NEW mesh \in SUBSET Policies, InitDone(mesh) PROVE LeftInv'
  <2>. SUFFICES ASSUME NEW r \in Policies, NEW q \in comm'[r]
                PROVE  comm'[q] = comm'[r] \/ Broken(comm[r])'
    BY DEF LeftInv
  <2>1. CASE r \in mesh
    BY <1>5, <2>1, DoneFlags
  <2>2. CASE r \notin mesh
    <3>1. comm'[r] = comm[r] /\ q \in Policies
      <4>1. comm'[r] = comm[r]
        BY <1>5, <2>2, DoneFlags
      <4>. QED BY <4>1 DEF MeshInv, TypeOK
    <3>2. comm[q] = comm[r] \/ Broken(comm[r])
      BY <3>1 DEF LeftInv
    <3>3. CASE q \in mesh
      <4>1. comm[q] = {}
        BY <1>5, <3>3, DoneFlags DEF CommInv, CommOf, Building
      <4>2. Broken(comm[r])
        BY <3>1, <3>2, <4>1
      <4>. QED BY <1>1, <3>1, <4>2 DEF Broken
    <3>4. CASE q \notin mesh
      <4>1. comm'[q] = comm[q]
        BY <1>5, <3>1, <3>4, DoneFlags
      <4>. QED BY <1>1, <3>1, <3>2, <4>1 DEF Broken
    <3>. QED BY <3>3, <3>4
  <2>. QED BY <2>1, <2>2
<1>6. ASSUME NEW p \in Policies, Reduce(p) PROVE LeftInv'
  <2>1. \/ comm' = comm
        \/ comm'[p] = {} /\ \E q \in comm[p] : ~Up(q) \/ comm[q] # comm[p]
    BY <1>6, ReduceCases
  <2>2. ASSUME NEW q \in comm[p], ~Up(q) \/ comm[q] # comm[p]
        PROVE  Broken(comm[p])
    <3>1. q \in Policies
      BY DEF MeshInv, TypeOK
    <3>. QED BY <2>2, <3>1 DEF LeftInv, Broken, Lost
  <2>. QED BY <1>2, <1>3, <1>6, <2>1, <2>2, ReduceFrame
<1>7. \/ comm' = comm
      \/ \E p \in Policies : BgTake(p)
      \/ \E mesh \in SUBSET Policies : InitDone(mesh)
      \/ \E p \in Policies : Reduce(p)
  BY StepCases DEF Removal, Onward, Stop, vars, meshVars
<1>. QED BY <1>3, <1>4, <1>5, <1>6, <1>7

LEMMA TriesStep ==
  ASSUME LossInv, CommInv', LeftInv', [Next]_vars
  PROVE  TriesInv'
<1>. USE DEF LossInv
<1>0. MeshInv'
  BY MeshStep
<1>1. /\ Cardinality(Lost) <= Cardinality(Lost') /\ Cardinality(Lost) \in Nat /\ Cardinality(Lost') \in Nat
      /\ \A q \in Policies : Away(q) \in Nat /\ tries[q] \in Nat /\ tries'[q] \in Nat
  <2>1. Cardinality(Lost) <= Cardinality(Lost') /\ Cardinality(Lost) \in Nat
    BY LostGrows, LostFacts
  <2>2. Lost' \subseteq Policies
    BY DEF Lost
  <2>3. Cardinality(Lost') \in Nat
    BY <2>2, LostFacts, FS_Subset, FS_CardinalityType
  <2>4. \A q \in Policies : tries[q] \in Nat /\ tries'[q] \in Nat
    BY <1>0, ConstantsAssumption DEF ConstantsAssumption, MeshInv, TypeOK
  <2>. QED BY <2>1, <2>3, <2>4, LostFacts
<1>2. ASSUME NEW q \in Policies,
             comm'[q] = comm[q], target'[q] = target[q], main'[q] = main[q], tries'[q] = tries[q],
             ready'[q] <=> ready[q], single'[q] <=> single[q], Building(q)' => Building(q)
      PROVE  (single[q] \/ TriesOf(q))'
  <2>1. Away(q)' = Away(q)
    BY <1>2 DEF Away
  <2>2. CASE single[q]
    BY <1>2, <2>2
  <2>3. CASE TriesOf(q)
    BY <1>1, <1>2, <2>1, <2>3 DEF TriesOf, Calling
  <2>. QED BY <2>2, <2>3 DEF TriesInv
<1>3. CASE \E gone \in SUBSET member : Removal(gone)
  BY <1>2, <1>3 DEF Removal, mainVars, Building, TriesInv
<1>4. ASSUME NEW p \in Policies, Onward(p)
      PROVE  TriesInv'
  <2>1. \A q \in Policies : Building(q)' => Building(q)
    BY <1>4 DEF Onward, Building
  <2>. QED BY <1>2, <1>4, <2>1 DEF Onward, mainVars, TriesInv
<1>5. ASSUME NEW p \in Policies, BgTake(p)
      PROVE  TriesInv'
  <2>1. ASSUME NEW q \in Policies \ {p}
        PROVE  (single[q] \/ TriesOf(q))'
    BY <1>2, <1>5, <2>1, TakeFacts, TakeMain, TakeFlags DEF Building
  <2>2. (single[p] \/ TriesOf(p))'
    <3>1. /\ p \in target'[p] /\ ~single[p] /\ comm'[p] = {}
          /\ (target[p] # {} => Away(p) < Away(p)')
      BY <1>5, TakeFacts
    <3>2. Away(p)' \in Nat
      BY <1>0, LostFacts, FS_Subset, FS_CardinalityType DEF Away
    <3>3. TriesOf(p)
      BY <3>1 DEF TriesInv
    <3>4. CASE target[p] = {}
      <4>1. main[p] = "work" /\ tries[p] = 0
        BY <3>3, <3>4 DEF CommInv, CommOf, TriesOf
      <4>2. main'[p] = "work" /\ tries'[p] = 0
        BY <1>5, <4>1, TakeMain
      <4>. QED BY <4>2 DEF TriesOf, Calling
    <3>5. CASE target[p] # {}
      <4>1. tries[p] <= Away(p) + 1 /\ (main[p] \in {"lock", "failed", "flight"} => tries[p] <= Away(p))
        <5>1. main[p] \in {"work", "wait", "lock", "enqueue", "flight", "failed", "done"}
          BY DEF MeshInv, TypeOK
        <5>. QED BY <1>1, <3>3, <5>1 DEF TriesOf, Calling
      <4>2. tries[p] <= Away(p)' /\ (main[p] \in {"lock", "failed", "flight"} => tries[p] < Away(p)')
        BY <1>1, <3>1, <3>2, <3>5, <4>1
      <4>3. Away(p) < Cardinality(Lost)
        BY <1>5, <3>5, AwayAreLost, TakeFacts
      <4>4. main[p] \in {"lock", "failed", "flight"} => tries[p] < Cardinality(Lost')
        BY <1>1, <4>1, <4>3
      <4>5. CASE main'[p] = main[p] /\ tries'[p] = tries[p] /\ main[p] \notin {"flight", "enqueue"}
        BY <1>1, <3>2, <3>3, <4>2, <4>4, <4>5 DEF TriesOf, Calling
      <4>6. CASE tries'[p] = 0 /\ main'[p] \in {"work", "done"}
        BY <4>6 DEF TriesOf, Calling
      <4>7. CASE main[p] = "flight" /\ tries'[p] = tries[p] /\ main'[p] = "failed"
        BY <1>1, <3>2, <4>2, <4>4, <4>7 DEF TriesOf, Calling
      <4>. QED BY <1>5, <4>5, <4>6, <4>7, TakeMain
    <3>. QED BY <3>4, <3>5
  <2>. QED BY <2>1, <2>2 DEF TriesInv
<1>6. ASSUME NEW mesh \in SUBSET Policies, InitDone(mesh)
      PROVE  TriesInv'
  <2>1. ASSUME NEW q \in Policies \ mesh
        PROVE  (single[q] \/ TriesOf(q))'
    <3>1. /\ comm'[q] = comm[q] /\ target'[q] = target[q] /\ main'[q] = main[q] /\ tries'[q] = tries[q]
          /\ (ready'[q] <=> ready[q]) /\ (single'[q] <=> single[q]) /\ bg'[q] = bg[q]
      BY <1>6, DoneFlags
    <3>. QED BY <1>2, <3>1 DEF Building
  <2>2. ASSUME NEW q \in mesh
        PROVE  TriesOf(q)'
    <3>1. /\ comm'[q] = mesh /\ target'[q] = target[q] /\ mesh # {} /\ bg'[q] = "idle" /\ bg[q] = "init"
          /\ main'[q] = main[q] /\ tries'[q] = tries[q]
      BY <1>6, <2>2, DoneFlags
    <3>2. TriesOf(q) /\ Building(q) /\ Away(q)' = Away(q)
      BY <3>1 DEF TriesInv, CommInv, CommOf, Building, Away
    <3>. QED BY <1>1, <3>1, <3>2 DEF TriesOf, Calling, Building
  <2>. QED BY <2>1, <2>2 DEF TriesInv
<1>7. ASSUME NEW p \in Policies, Reduce(p)
      PROVE  TriesInv'
  <2>1. ASSUME NEW q \in Policies \ {p}
        PROVE  (single[q] \/ TriesOf(q))'
    BY <1>2, <1>7, <2>1, ReduceFrame DEF Building
  <2>2. ASSUME ~single'[p] PROVE TriesOf(p)'
    <3>1. UNCHANGED <<bg, target, single>> /\ ~single[p] /\ Away(p)' = Away(p)
      BY <1>7, <2>2, ReduceFrame DEF Away
    <3>2. TriesOf(p) /\ CommOf(p) /\ (ready[p] /\ main[p] # "failed" => comm[p] # {})
      BY <3>1 DEF TriesInv, CommInv, MeshInv, ReadyMeansUsable
    <3>3. target[p] # {}
      BY <1>7, <3>2, ReduceCases DEF CommOf, Calling
    <3>4. /\ Away(p) <= Cardinality(Lost)
          /\ Broken(target[p]) => Away(p) < Cardinality(Lost)
      BY <3>3, AwayAreLost
    <3>5. CASE NextOp(p)
      BY <3>5, NextOpFacts DEF TriesOf, Calling
    <3>6. CASE main[p] = "work" /\ main'[p] = "wait" /\ tries'[p] = tries[p]
      BY <1>1, <3>1, <3>2, <3>6 DEF TriesOf, Calling
    <3>7. CASE main[p] = "wait" /\ ready[p] /\ comm' = comm /\ main'[p] = "lock" /\ tries'[p] = tries[p]
      BY <1>1, <3>1, <3>2, <3>7 DEF TriesOf, Calling
    <3>8. CASE /\ main[p] = "lock" /\ ~Building(p) /\ comm[p] = {}
               /\ main'[p] = "failed" /\ tries'[p] = tries[p]
      BY <1>1, <3>1, <3>2, <3>4, <3>8 DEF TriesOf, Calling, Building
    <3>9. CASE main[p] \in {"lock", "enqueue"} /\ main'[p] \in {"enqueue", "flight"} /\ tries'[p] = tries[p]
      BY <1>1, <3>1, <3>2, <3>9 DEF TriesOf, Calling
    <3>10. CASE /\ Calling(p) /\ (\E q \in comm[p] : ~Up(q) \/ comm[q] # comm[p])
                /\ main'[p] = "failed" /\ tries'[p] = tries[p]
      <4>1. PICK q \in comm[p] : ~Up(q) \/ comm[q] # comm[p]
        BY <3>10
      <4>2. q \in Policies
        BY <4>1 DEF MeshInv, TypeOK
      <4>3. Broken(target[p]) /\ ~Building(p)
        BY <3>2, <4>1, <4>2 DEF LeftInv, Broken, Lost, CommOf
      <4>. QED BY <1>1, <3>1, <3>2, <3>4, <3>10, <4>3 DEF TriesOf, Calling, Building
    <3>11. CASE main[p] = "failed" /\ ~ready'[p] /\ main'[p] = "wait" /\ tries'[p] = tries[p] + 1
      BY <1>1, <3>1, <3>2, <3>11 DEF TriesOf, Calling, Building
    <3>. QED BY <1>7, <3>1, <3>5, <3>6, <3>7, <3>8, <3>9, <3>10, <3>11, ReduceCases
  <2>. QED BY <2>1, <2>2 DEF TriesInv
<1>8. CASE (\E p \in Policies : Stop(p)) \/ UNCHANGED vars
  BY <1>2, <1>8 DEF Stop, vars, meshVars, mainVars, Building, TriesInv
<1>. QED BY <1>3, <1>4, <1>5, <1>6, <1>7, <1>8, StepCases

\* The history only grows.
LEMMA ResultsGrow ==
  ASSUME MeshInv, [Next]_vars
  PROVE  results \subseteq results'
<1>1. ASSUME NEW p \in Policies, BgTake(p) PROVE results \subseteq results'
  BY <1>1 DEF BgTake
<1>2. ASSUME NEW p \in Policies, Reduce(p) PROVE results \subseteq results'
  BY <1>2, ReduceCases
<1>. QED BY <1>1, <1>2, StepCases DEF Removal, Onward, InitDone, Stop, vars

LEMMA GiveUpStep ==
  ASSUME LossInv, [Next]_vars
  PROVE  GiveUpInv'
<1>. USE DEF LossInv
<1>1. Cardinality(Lost) <= Cardinality(Lost') /\ Cardinality(Lost) \in Nat /\ Cardinality(Lost') \in Nat
  <2>1. Lost' \subseteq Policies
    BY DEF Lost
  <2>. QED BY <2>1, LostGrows, LostFacts, FS_Subset, FS_CardinalityType
<1>2. MaxRetry \in Nat
  BY ConstantsAssumption DEF ConstantsAssumption
<1>3. ASSUME Outcomes("skipped")' \subseteq Outcomes("skipped")
      PROVE  GiveUpInv'
  BY <1>1, <1>2, <1>3 DEF GiveUpInv, GivenUp
<1>4. ASSUME NEW p \in Policies, BgTake(p)
      PROVE  Outcomes("skipped")' \subseteq Outcomes("skipped")
  <2>1. \A r \in results' : r \in results \/ r = Ended(p, "late") \/ r = Ended(p, "cut")
    BY <1>4 DEF BgTake
  <2>. QED BY <2>1 DEF Outcomes, Ended
<1>5. ASSUME NEW p \in Policies, Reduce(p)
      PROVE  GiveUpInv'
  <2>1. CASE \A r \in results' : r \in results \/ r = Ended(p, "done") \/ r = Ended(p, "failed")
    <3>1. Outcomes("skipped")' \subseteq Outcomes("skipped")
      BY <2>1 DEF Outcomes, Ended
    <3>. QED BY <1>3, <3>1
  <2>2. CASE main[p] = "failed" /\ tries[p] + 1 = MaxRetry /\ results' = results \cup Skipped(p)
    <3>1. CASE single[p]
      BY <1>3, <2>2, <3>1 DEF Skipped, Outcomes
    <3>2. CASE ~single[p]
      <4>1. tries[p] < Cardinality(Lost) /\ tries[p] \in Nat
        BY <1>2, <2>2, <3>2 DEF TriesInv, TriesOf, MeshInv, TypeOK
      <4>. QED BY <1>1, <1>2, <2>2, <4>1 DEF GiveUpInv
    <3>. QED BY <3>1, <3>2
  <2>. QED BY <1>5, <2>1, <2>2, ReduceCases
<1>6. \/ results' = results
      \/ \E p \in Policies : BgTake(p)
      \/ \E p \in Policies : Reduce(p)
  BY StepCases DEF Removal, Onward, InitDone, Stop, vars
<1>7. CASE results' = results
  BY <1>3, <1>7 DEF Outcomes
<1>. QED BY <1>3, <1>4, <1>5, <1>6, <1>7

LEMMA LossStep == LossInv /\ [Next]_vars => LossInv'
BY MeshStep, MeshesStep, QueueStep, CommStep, LeftStep, TriesStep, GiveUpStep DEF LossInv

LEMMA InitLoss == Init => LossInv
<1>. SUFFICES ASSUME Init PROVE LossInv
  OBVIOUS
<1>1. MeshInv /\ TypeOK
  BY InitMesh DEF MeshInv
<1>2. \A p \in Policies : queue[p] = <<Policies>> /\ target[p] = {}
  BY DEF Init
<1>3. Len(<<Policies>>) = 1 /\ <<Policies>>[1] = Policies
  OBVIOUS
<1>4. ASSUME NEW p \in Policies, NEW i \in 1..Len(queue[p])
      PROVE  i = 1 /\ queue[p][i] = Policies
  <2>1. queue[p] = <<Policies>>
    BY <1>2
  <2>2. i \in 1..1
    BY <1>3, <2>1
  <2>. QED BY <2>1, <2>2
<1>5. \A mesh \in InUse : mesh = Policies
  BY <1>2, <1>4 DEF InUse, Init
<1>6. MeshesInv
  BY <1>5 DEF MeshesInv, Init
<1>7. QueueInv
  BY <1>2, <1>4 DEF QueueInv
<1>8. CommInv
  BY DEF CommInv, CommOf, Building, Calling, Init
<1>9. LeftInv
  BY DEF LeftInv, Init
<1>10. TriesInv
  BY DEF TriesInv, TriesOf, Building, Calling, Init
<1>11. GiveUpInv
  BY DEF GiveUpInv, GivenUp, Outcomes, Init
<1>. QED BY <1>1, <1>6, <1>7, <1>8, <1>9, <1>10, <1>11 DEF LossInv

-----------------------------------------------------------------------------
(* The same call of the same communicator: the invariant *)

NCalls(p, mesh) == Cardinality(CallsOf(p, mesh))

\* The calls of a replica on a communicator are counted off, and it has not been on its
\* way to a communicator on which it has called.
CallsInv ==
  /\ IsFiniteSet(calls)
  /\ calls \subseteq [by : Policies, op : Nat, comm : SUBSET Policies, nth : Nat]
  /\ \A p \in Policies, mesh \in SUBSET Policies :
       \A i \in 1..NCalls(p, mesh) : \E c \in calls : c.by = p /\ c.comm = mesh /\ c.nth = i
  /\ \A c \in calls :
       /\ c.nth <= NCalls(c.by, c.comm)
       /\ c.by \in c.comm
       /\ target[c.by] # {} /\ target[c.by] \subseteq c.comm
       /\ target[c.by] = c.comm => ~Building(c.by)
  /\ \A p \in Policies : Calling(p) => NCalls(p, comm[p]) > 0

\* The op at which p made, or would have made, its first call on its communicator.
Base(p) == op[p] - NCalls(p, comm[p]) + (IF Calling(p) THEN 1 ELSE 0)

\* The call that its replica is waiting for.
Current(c) ==
  Calling(c.by) /\ c.comm = comm[c.by] /\ c.op = op[c.by] /\ c.nth = NCalls(c.by, c.comm)

Result(c, how) == [by |-> c.by, op |-> c.op, comm |-> c.comm, nth |-> c.nth, how |-> how]

\* Calls of one communicator that meet are for one op.
SameCallSameOp == \A c, d \in calls : c.comm = d.comm /\ c.nth = d.nth => c.op = d.op

\* An all-reduce completed by one has been called by all, and its replica is beyond it.
DoneByAll ==
  \A r \in Outcomes("done") :
    /\ r.by \in r.comm /\ r.op < op[r.by]
    /\ \A q \in r.comm :
         \E c \in calls : c.by = q /\ c.comm = r.comm /\ c.nth = r.nth /\ c.op = r.op

DoneOnce ==
  \A r, s \in Outcomes("done") : r.by = s.by /\ r.op = s.op => r.comm = s.comm /\ r.nth = s.nth

\* A call is waited for, has been completed or has failed.
Accounted ==
  \A c \in calls : Current(c) \/ Result(c, "done") \in results \/ Result(c, "failed") \in results

\* No all-reduce is left out by those who are not alone.
NoneLeftOut ==
  \A p \in Policies :
    single[p] \/ \A k \in 1..(op[p] - 1) : \E r \in Outcomes("done") : r.by = p /\ r.op = k

\* The members of a communicator began with the same op on it.
InStep ==
  \A p \in Policies : comm[p] # {} =>
    /\ \A c \in calls : c.comm = comm[p] => c.op = Base(p) + c.nth - 1
    /\ \A q \in Policies : comm[q] = comm[p] => Base(q) = Base(p)

StepInv == SameCallSameOp /\ DoneByAll /\ DoneOnce /\ Accounted /\ NoneLeftOut /\ InStep

Faultless == ~Cut /\ ~Torn /\ ~GivenUp

AlignInv == LossInv /\ CallsInv /\ (Faultless => StepInv)

-----------------------------------------------------------------------------
(* The same call of the same communicator: every step preserves the invariant *)

LEMMA CallsOfFinite ==
  ASSUME CallsInv, NEW p, NEW mesh
  PROVE  IsFiniteSet(CallsOf(p, mesh)) /\ NCalls(p, mesh) \in Nat
<1>1. CallsOf(p, mesh) \subseteq calls
  BY DEF CallsOf
<1>. QED BY <1>1, FS_Subset, FS_CardinalityType DEF CallsInv, NCalls

\* The call that p makes is one more of p on its communicator and changes no other count.
LEMMA LaunchFacts ==
  ASSUME LossInv, CallsInv, NEW p \in Policies, comm[p] # {}, NEW new,
         new = [by |-> p, op |-> op[p], comm |-> comm[p], nth |-> Cardinality(CallsOf(p, comm[p])) + 1],
         calls' = calls \cup {new}
  PROVE  /\ new.by = p /\ new.op = op[p] /\ new.comm = comm[p] /\ new.nth = NCalls(p, comm[p]) + 1
         /\ new \in [by : Policies, op : Nat, comm : SUBSET Policies, nth : Nat]
         /\ \A q, mesh : NCalls(q, mesh)' = IF q = p /\ mesh = comm[p] THEN NCalls(q, mesh) + 1
                                                                     ELSE NCalls(q, mesh)
<1>1. NCalls(p, comm[p]) \in Nat /\ IsFiniteSet(CallsOf(p, comm[p]))
  BY CallsOfFinite
<1>2. op[p] \in Nat /\ comm[p] \in SUBSET Policies
  BY ConstantsAssumption DEF ConstantsAssumption, LossInv, MeshInv, TypeOK
<1>3. new.by = p /\ new.op = op[p] /\ new.comm = comm[p] /\ new.nth = NCalls(p, comm[p]) + 1
  BY DEF NCalls
<1>4. new \in [by : Policies, op : Nat, comm : SUBSET Policies, nth : Nat]
  BY <1>1, <1>2 DEF NCalls
<1>5. new \notin calls
  <2>1. ASSUME new \in calls PROVE FALSE
    <3>1. new.nth <= NCalls(p, comm[p])
      BY <1>3, <2>1 DEF CallsInv
    <3>. QED BY <1>1, <1>3, <3>1
  <2>. QED BY <2>1
<1>6. ASSUME NEW q, NEW mesh
      PROVE  NCalls(q, mesh)' = IF q = p /\ mesh = comm[p] THEN NCalls(q, mesh) + 1 ELSE NCalls(q, mesh)
  <2>1. CASE q = p /\ mesh = comm[p]
    <3>1. CallsOf(q, mesh)' = CallsOf(q, mesh) \cup {new} /\ new \notin CallsOf(q, mesh)
      BY <1>3, <1>5, <2>1 DEF CallsOf
    <3>2. Cardinality(CallsOf(q, mesh) \cup {new}) = Cardinality(CallsOf(q, mesh)) + 1
      BY <1>1, <2>1, <3>1, FS_AddElement
    <3>. QED BY <2>1, <3>1, <3>2 DEF NCalls
  <2>2. CASE ~(q = p /\ mesh = comm[p])
    <3>1. CallsOf(q, mesh)' = CallsOf(q, mesh)
      BY <1>3, <2>2 DEF CallsOf
    <3>. QED BY <2>2, <3>1 DEF NCalls
  <2>. QED BY <2>1, <2>2
<1>. QED BY <1>3, <1>4, <1>6

\* The calls stay what they are as long as none is made.
LEMMA SameCalls ==
  ASSUME calls' = calls
  PROVE  \A q, mesh : NCalls(q, mesh)' = NCalls(q, mesh)
BY DEF NCalls, CallsOf

LEMMA CallsStep ==
  ASSUME LossInv, CallsInv, [Next]_vars
  PROVE  CallsInv'
<1>. USE DEF LossInv
<1>1. ASSUME calls' = calls,
             \A q \in Policies : Calling(q)' => Calling(q) /\ comm'[q] = comm[q],
             \A q \in Policies : target[q] # {} => target'[q] # {} /\ target'[q] \subseteq target[q],
             \A q \in Policies : target'[q] = target[q] /\ Building(q)' => Building(q)
      PROVE  CallsInv'
  <2>1. \A q, mesh : NCalls(q, mesh)' = NCalls(q, mesh)
    BY <1>1, SameCalls
  <2>2. ASSUME NEW c \in calls
        PROVE  /\ c.nth <= NCalls(c.by, c.comm)' /\ c.by \in c.comm
               /\ target'[c.by] # {} /\ target'[c.by] \subseteq c.comm
               /\ target'[c.by] = c.comm => ~Building(c.by)'
    <3>1. /\ c.by \in Policies /\ c.nth <= NCalls(c.by, c.comm) /\ c.by \in c.comm
          /\ target[c.by] # {} /\ target[c.by] \subseteq c.comm
          /\ target[c.by] = c.comm => ~Building(c.by)
      BY DEF CallsInv
    <3>. QED BY <1>1, <2>1, <3>1
  <2>3. ASSUME NEW p \in Policies, Calling(p)'
        PROVE  NCalls(p, comm[p])' > 0
    <3>1. Calling(p) /\ comm'[p] = comm[p]
      BY <1>1, <2>3
    <3>2. NCalls(p, comm[p])' = NCalls(p, comm[p])
      BY <1>1, <3>1 DEF NCalls, CallsOf
    <3>. QED BY <3>1, <3>2 DEF CallsInv
  <2>4. \A p \in Policies, mesh \in SUBSET Policies :
          \A i \in 1..NCalls(p, mesh)' : \E c \in calls' : c.by = p /\ c.comm = mesh /\ c.nth = i
    BY <1>1, <2>1 DEF CallsInv
  <2>. QED BY <1>1, <2>2, <2>3, <2>4 DEF CallsInv
<1>2. CASE (\E gone \in SUBSET member : Removal(gone)) \/ (\E p \in Policies : Stop(p)) \/ UNCHANGED vars
  <2>1. UNCHANGED <<calls, main, comm, target, bg>>
    BY <1>2 DEF Removal, Stop, vars, mainVars, meshVars
  <2>. QED BY <1>1, <2>1 DEF Calling, Building
<1>3. ASSUME NEW p \in Policies, Onward(p) PROVE CallsInv'
  <2>1. UNCHANGED <<calls, main, comm, target>> /\ \A q \in Policies : Building(q)' => Building(q)
    BY <1>3 DEF Onward, Building, mainVars
  <2>. QED BY <1>1, <2>1 DEF Calling
<1>4. ASSUME NEW p \in Policies, BgTake(p) PROVE CallsInv'
  <2>1. calls' = calls
    BY <1>4 DEF BgTake
  <2>2. ~Calling(p)' /\ \A q \in Policies \ {p} : Calling(q)' => Calling(q) /\ comm'[q] = comm[q]
    BY <1>4, TakeMain, TakeFacts DEF Calling, MeshInv, TypeOK
  <2>3. /\ \A q \in Policies \ {p} : target'[q] = target[q] /\ bg'[q] = bg[q]
        /\ target[p] # {} => target'[p] # {} /\ StrictlyIn(target'[p], target[p])
        /\ target[p] = {} => target'[p] # {}
    BY <1>4, TakeFacts, TakeFlags
  <2>4. \A q \in Policies : target[q] # {} => target'[q] # {} /\ target'[q] \subseteq target[q]
    BY <2>3 DEF StrictlyIn
  <2>5. \A q \in Policies : target'[q] = target[q] /\ Building(q)' => Building(q)
    BY <2>3 DEF StrictlyIn, Building
  <2>6. \A q \in Policies : Calling(q)' => Calling(q) /\ comm'[q] = comm[q]
    BY <2>2
  <2>. QED BY <1>1, <2>1, <2>4, <2>5, <2>6
<1>5. ASSUME NEW mesh \in SUBSET Policies, InitDone(mesh) PROVE CallsInv'
  <2>1. UNCHANGED <<calls, main, target>>
    BY <1>5, DoneFlags
  <2>2. \A q \in Policies : Building(q)' => Building(q)
    BY <1>5, DoneFlags DEF Building
  <2>3. \A q \in Policies : Calling(q)' => Calling(q) /\ comm'[q] = comm[q]
    <3>1. ASSUME NEW q \in mesh PROVE ~Calling(q)
      BY <1>5, DoneFlags DEF CommInv, CommOf, Building
    <3>. QED BY <1>5, <2>1, <3>1, DoneFlags DEF Calling
  <2>. QED BY <1>1, <2>1, <2>2, <2>3
<1>6. ASSUME NEW p \in Policies, Reduce(p), calls' = calls PROVE CallsInv'
  <2>1. UNCHANGED <<bg, target>> /\ \A q \in Policies \ {p} : main'[q] = main[q] /\ comm'[q] = comm[q]
    BY <1>6, ReduceFrame
  <2>2. Calling(p)' => Calling(p) /\ comm'[p] = comm[p]
    <3>1. NextOp(p) => main'[p] \in {"work", "done"}
      BY NextOpFacts
    <3>2. CASE /\ main[p] = "lock"
               /\ calls' = calls \cup {[by |-> p, op |-> op[p], comm |-> comm[p],
                                        nth |-> Cardinality(CallsOf(p, comm[p])) + 1]}
      <4>1. comm[p] # {} \/ main'[p] # "enqueue"
        BY <1>6, <3>1, <3>2, ReduceCases
      <4>. DEFINE new == [by |-> p, op |-> op[p], comm |-> comm[p],
                          nth |-> Cardinality(CallsOf(p, comm[p])) + 1]
      <4>2. new \in calls
        BY <1>6, <3>2
      <4>3. new.nth <= NCalls(p, comm[p])
        BY <4>2 DEF CallsInv
      <4>4. NCalls(p, comm[p]) \in Nat
        BY CallsOfFinite
      <4>. QED BY <4>3, <4>4 DEF NCalls
    <3>3. CASE main'[p] \notin {"enqueue", "flight"}
      BY <3>3 DEF Calling
    <3>4. CASE main[p] = "enqueue" /\ comm' = comm
      BY <3>4 DEF Calling
    <3>. QED BY <1>6, <3>1, <3>2, <3>3, <3>4, ReduceCases
  <2>. QED BY <1>1, <1>6, <2>1, <2>2 DEF Calling, Building
<1>7. ASSUME NEW p \in Policies, Reduce(p), comm[p] # {}, main[p] = "lock", ~Building(p), comm' = comm,
             calls' = calls \cup {[by |-> p, op |-> op[p], comm |-> comm[p],
                                   nth |-> Cardinality(CallsOf(p, comm[p])) + 1]}
      PROVE  CallsInv'
  <2>. DEFINE new == [by |-> p, op |-> op[p], comm |-> comm[p],
                      nth |-> Cardinality(CallsOf(p, comm[p])) + 1]
  <2>1. /\ new.by = p /\ new.comm = comm[p] /\ new.nth = NCalls(p, comm[p]) + 1
        /\ new \in [by : Policies, op : Nat, comm : SUBSET Policies, nth : Nat]
        /\ \A q, mesh : NCalls(q, mesh)' = IF q = p /\ mesh = comm[p] THEN NCalls(q, mesh) + 1
                                                                     ELSE NCalls(q, mesh)
    BY <1>7, LaunchFacts
  <2>2. calls' = calls \cup {new}
    BY <1>7
  <2>. HIDE DEF new
  <2>3. \A q, mesh : NCalls(q, mesh) \in Nat
    BY CallsOfFinite
  <2>4. UNCHANGED <<bg, target>> /\ \A q \in Policies \ {p} : main'[q] = main[q]
    BY <1>7, ReduceFrame
  <2>5. comm[p] = target[p] /\ p \in target[p]
    BY <1>7 DEF CommInv, CommOf, QueueInv
  <2>6. IsFiniteSet(calls') /\ calls' \subseteq [by : Policies, op : Nat, comm : SUBSET Policies, nth : Nat]
    BY <2>1, <2>2, FS_AddElement DEF CallsInv
  <2>7. ASSUME NEW q \in Policies, NEW mesh \in SUBSET Policies, NEW i \in 1..NCalls(q, mesh)'
        PROVE  \E c \in calls' : c.by = q /\ c.comm = mesh /\ c.nth = i
    <3>1. CASE i \in 1..NCalls(q, mesh)
      BY <2>2, <3>1 DEF CallsInv
    <3>2. CASE i \notin 1..NCalls(q, mesh)
      <4>1. q = p /\ mesh = comm[p] /\ i = NCalls(p, comm[p]) + 1
        BY <2>1, <2>3, <3>2
      <4>. QED BY <2>1, <2>2, <4>1
    <3>. QED BY <3>1, <3>2
  <2>8. ASSUME NEW c \in calls'
        PROVE  /\ c.nth <= NCalls(c.by, c.comm)' /\ c.by \in c.comm
               /\ target'[c.by] # {} /\ target'[c.by] \subseteq c.comm
               /\ target'[c.by] = c.comm => ~Building(c.by)'
    <3>1. CASE c \in calls
      <4>1. c.nth <= NCalls(c.by, c.comm) /\ c.nth \in Nat
        BY <3>1 DEF CallsInv
      <4>2. c.nth <= NCalls(c.by, c.comm)'
        BY <2>1, <2>3, <4>1
      <4>. QED BY <2>4, <3>1, <4>2 DEF CallsInv, Building
    <3>2. CASE c = new
      <4>1. c.nth <= NCalls(c.by, c.comm)'
        BY <2>1, <2>3, <3>2
      <4>. QED BY <1>7, <2>1, <2>4, <2>5, <3>2, <4>1 DEF Building
    <3>. QED BY <2>2, <3>1, <3>2
  <2>9. ASSUME NEW q \in Policies, Calling(q)'
        PROVE  NCalls(q, comm[q])' > 0
    <3>1. NCalls(q, comm[q])' = IF q = p THEN NCalls(q, comm[q]) + 1 ELSE NCalls(q, comm[q])
      <4>1. comm'[q] = comm[q]
        BY <1>7
      <4>2. \A mesh : NCalls(q, mesh)' = IF q = p /\ mesh = comm[p] THEN NCalls(q, mesh) + 1
                                                                 ELSE NCalls(q, mesh)
        BY <2>1
      <4>3. Cardinality({c \in calls' : c.by = q /\ c.comm = comm[q]}) =
              IF q = p THEN NCalls(q, comm[q]) + 1 ELSE NCalls(q, comm[q])
        BY <4>2 DEF NCalls, CallsOf
      <4>. QED BY <4>1, <4>3 DEF NCalls, CallsOf
    <3>2. q # p => Calling(q)
      BY <2>4, <2>9 DEF Calling
    <3>. QED BY <2>3, <3>1, <3>2 DEF CallsInv
  <2>. QED BY <2>6, <2>7, <2>8, <2>9 DEF CallsInv
<1>8. ASSUME NEW p \in Policies, Reduce(p) PROVE CallsInv'
  BY <1>6, <1>7, <1>8, ReduceCases
<1>. QED BY <1>2, <1>3, <1>4, <1>5, <1>8, StepCases

\* The counts that matter are numbers.
LEMMA CountTypes ==
  ASSUME LossInv, CallsInv
  PROVE  /\ \A q \in Policies : op[q] \in Nat /\ op[q] >= 1 /\ Base(q) \in Int
         /\ \A q, mesh : NCalls(q, mesh) \in Nat
         /\ \A c \in calls : c.by \in Policies /\ c.op \in Nat /\ c.nth \in Nat /\ c.comm \in SUBSET Policies
<1>1. \A q, mesh : NCalls(q, mesh) \in Nat
  BY CallsOfFinite
<1>2. \A q \in Policies : op[q] \in Nat /\ op[q] >= 1
  BY ConstantsAssumption DEF ConstantsAssumption, LossInv, MeshInv, TypeOK
<1>3. \A q \in Policies : Base(q) \in Int
  BY <1>1, <1>2 DEF Base
<1>4. \A c \in calls : c.by \in Policies /\ c.op \in Nat /\ c.nth \in Nat /\ c.comm \in SUBSET Policies
  BY DEF CallsInv
<1>. QED BY <1>1, <1>2, <1>3, <1>4

\* A step with neither call nor result, in which only a replica that is alone goes on and
\* only one that is not calling leaves its communicator.
LEMMA QuietStep ==
  ASSUME LossInv, CallsInv, StepInv, calls' = calls, results \subseteq results',
         Outcomes("done")' = Outcomes("done"),
         \A q \in Policies :
           /\ op'[q] = op[q] \/ (single[q] /\ op'[q] = op[q] + 1)
           /\ single[q] => single'[q]
           /\ Calling(q)' <=> Calling(q)
           /\ comm'[q] = comm[q] \/ (comm'[q] = {} /\ ~Calling(q))
  PROVE  StepInv'
<1>. USE DEF LossInv
<1>1. \A q, mesh : NCalls(q, mesh)' = NCalls(q, mesh)
  BY SameCalls
<1>2. \A q \in Policies : op[q] \in Nat /\ (comm[q] # {} => op'[q] = op[q]) /\ (Calling(q) => comm[q] # {})
  BY CountTypes DEF CommInv, CommOf
<1>3. ASSUME NEW q \in Policies, comm'[q] # {}
      PROVE  comm'[q] = comm[q] /\ Base(q)' = Base(q)
  <2>1. comm'[q] = comm[q] /\ op'[q] = op[q]
    BY <1>2, <1>3
  <2>2. CallsOf(q, comm[q])' = CallsOf(q, comm[q])
    BY <2>1 DEF CallsOf
  <2>. QED BY <2>1, <2>2 DEF Base, NCalls
<1>4. SameCallSameOp'
  BY DEF StepInv, SameCallSameOp
<1>5. DoneByAll'
  <2>1. ASSUME NEW r \in Outcomes("done") PROVE r.op < op'[r.by]
    <3>1. r.by \in r.comm /\ r.op < op[r.by] /\ \E c \in calls : c.by = r.by /\ c.op = r.op
      BY DEF StepInv, DoneByAll
    <3>2. r.by \in Policies /\ r.op \in Nat
      BY <3>1, CountTypes
    <3>. QED BY <1>2, <3>1, <3>2
  <2>. QED BY <2>1 DEF StepInv, DoneByAll
<1>6. DoneOnce'
  BY DEF StepInv, DoneOnce
<1>7. Accounted'
  <2>1. ASSUME NEW c \in calls, Current(c) PROVE Current(c)'
    <3>1. c.by \in Policies /\ Calling(c.by)
      BY <2>1, CountTypes DEF Current
    <3>2. op'[c.by] = op[c.by] /\ comm'[c.by] = comm[c.by] /\ Calling(c.by)'
      BY <1>2, <3>1
    <3>. QED BY <1>1, <2>1, <3>2 DEF Current
  <2>. QED BY <2>1 DEF StepInv, Accounted
<1>8. NoneLeftOut'
  <2>1. ASSUME NEW q \in Policies PROVE single'[q] \/ (~single[q] /\ op'[q] = op[q])
    OBVIOUS
  <2>. QED BY <2>1 DEF StepInv, NoneLeftOut
<1>9. InStep'
  BY <1>3 DEF StepInv, InStep
<1>. QED BY <1>4, <1>5, <1>6, <1>7, <1>8, <1>9 DEF StepInv

\* Replicas that form a communicator are at the same op: one that is behind would have
\* called an all-reduce that another completed, and have failed in it.
LEMMA SameOpAtForming ==
  ASSUME LossInv, CallsInv, StepInv, Faultless, NEW mesh \in SUBSET Policies, InitDone(mesh),
         NEW p \in mesh, NEW q \in mesh
  PROVE  ~(op[q] < op[p])
<1>. USE DEF LossInv
<1>. SUFFICES ASSUME op[q] < op[p] PROVE FALSE
  OBVIOUS
<1>1. /\ p \in Policies /\ q \in Policies /\ target[p] = mesh
      /\ ~single[p] /\ ~Calling(q)
  BY DoneFlags DEF CommInv, CommOf, Building
<1>2. op[q] \in 1..(op[p] - 1)
  BY <1>1, CountTypes
<1>3. PICK r \in Outcomes("done") : r.by = p /\ r.op = op[q]
  BY <1>1, <1>2 DEF StepInv, NoneLeftOut
<1>4. PICK c \in calls : c.by = p /\ c.comm = r.comm
  BY <1>3 DEF StepInv, DoneByAll
<1>5. q \in r.comm
  BY <1>1, <1>4 DEF CallsInv
<1>6. PICK d \in calls : d.by = q /\ d.comm = r.comm /\ d.nth = r.nth /\ d.op = r.op
  BY <1>5 DEF StepInv, DoneByAll
<1>7. CASE Current(d)
  BY <1>1, <1>6, <1>7 DEF Current
<1>8. CASE Result(d, "done") \in results
  <2>1. Result(d, "done") \in Outcomes("done") /\ Result(d, "done").by = q /\ Result(d, "done").op = op[q]
    BY <1>3, <1>6, <1>8 DEF Outcomes, Result
  <2>2. op[q] < op[q]
    BY <2>1 DEF StepInv, DoneByAll
  <2>. QED BY <1>1, <2>2, CountTypes
<1>9. CASE Result(d, "failed") \in results
  <2>1. /\ Result(d, "failed") \in Outcomes("failed")
        /\ r.op = Result(d, "failed").op /\ r.comm = Result(d, "failed").comm
    BY <1>3, <1>6, <1>9 DEF Outcomes, Result
  <2>2. Torn
    BY <2>1 DEF Torn
  <2>. QED BY <2>2 DEF Faultless
<1>. QED BY <1>6, <1>7, <1>8, <1>9 DEF StepInv, Accounted

LEMMA FormingStep ==
  ASSUME LossInv, CallsInv, StepInv, Faultless, NEW mesh \in SUBSET Policies, InitDone(mesh)
  PROVE  StepInv'
<1>. USE DEF LossInv
<1>1. /\ UNCHANGED <<target, main, op, calls, results>> /\ mesh # {}
      /\ \A q \in mesh :
           /\ q \in Policies /\ target[q] = mesh /\ comm'[q] = mesh /\ comm[q] = {}
           /\ Building(q) /\ ~Calling(q) /\ ~single[q] /\ ~single'[q]
      /\ \A q \in Policies \ mesh : comm'[q] = comm[q] /\ (single'[q] <=> single[q])
  <2>1. \A q \in mesh : comm[q] = {} /\ Building(q) /\ ~Calling(q) /\ ~single[q]
    BY DoneFlags DEF CommInv, CommOf, Building
  <2>. QED BY <2>1, DoneFlags
<1>2. \A q, m : NCalls(q, m)' = NCalls(q, m)
  BY <1>1, SameCalls
<1>3. Outcomes("done")' = Outcomes("done")
  BY <1>1 DEF Outcomes
<1>4. \A q \in Policies : Calling(q)' <=> Calling(q)
  BY <1>1 DEF Calling
<1>5. SameCallSameOp' /\ DoneByAll' /\ DoneOnce'
  BY <1>1, <1>3 DEF StepInv, SameCallSameOp, DoneByAll, DoneOnce
<1>6. Accounted'
  <2>1. ASSUME NEW c \in calls, Current(c) PROVE Current(c)'
    <3>1. c.by \in Policies \ mesh
      BY <1>1, <2>1, CountTypes DEF Current
    <3>. QED BY <1>1, <1>2, <1>4, <2>1, <3>1 DEF Current
  <2>. QED BY <1>1, <2>1 DEF StepInv, Accounted
<1>7. NoneLeftOut'
  BY <1>1, <1>3 DEF StepInv, NoneLeftOut
<1>8. \A c \in calls : c.comm # mesh
  BY <1>1 DEF CallsInv
<1>9. ASSUME NEW q \in mesh
      PROVE  Base(q)' = op[q]
  <2>1. CallsOf(q, comm[q])' = {}
    BY <1>1, <1>8 DEF CallsOf
  <2>2. NCalls(q, comm[q])' = 0
    BY <2>1, FS_EmptySet DEF NCalls
  <2>3. ~Calling(q)' /\ op'[q] = op[q] /\ op[q] \in Nat
    BY <1>1, <1>4, CountTypes
  <2>. QED BY <2>2, <2>3 DEF Base
<1>10. ASSUME NEW q \in Policies \ mesh
       PROVE  Base(q)' = Base(q)
  <2>1. CallsOf(q, comm[q])' = CallsOf(q, comm[q])
    BY <1>1 DEF CallsOf
  <2>. QED BY <1>1, <1>4, <2>1 DEF Base, NCalls
<1>11. ASSUME NEW q \in Policies \ mesh
       PROVE  comm[q] # mesh
  BY <1>1 DEF CommInv, CommOf, QueueInv
<1>12. ASSUME NEW p \in Policies, comm'[p] # {}
       PROVE  /\ \A c \in calls' : c.comm = comm'[p] => c.op = Base(p)' + c.nth - 1
              /\ \A q \in Policies : comm'[q] = comm'[p] => Base(q)' = Base(p)'
  <2>1. CASE p \in mesh
    <3>1. \A c \in calls' : c.comm # comm'[p]
      BY <1>1, <1>8, <2>1
    <3>2. ASSUME NEW q \in Policies, comm'[q] = comm'[p]
          PROVE  Base(q)' = Base(p)'
      <4>1. q \in mesh
        BY <1>1, <1>11, <2>1, <3>2
      <4>2. ~(op[q] < op[p]) /\ ~(op[p] < op[q])
        BY <2>1, <4>1, SameOpAtForming
      <4>3. op[q] = op[p]
        BY <1>1, <2>1, <4>1, <4>2, CountTypes
      <4>. QED BY <1>9, <2>1, <4>1, <4>3
    <3>. QED BY <3>1, <3>2
  <2>2. CASE p \notin mesh
    <3>1. comm'[p] = comm[p] /\ Base(p)' = Base(p) /\ comm[p] # mesh
      BY <1>1, <1>10, <1>11, <2>2
    <3>2. ASSUME NEW q \in Policies, comm'[q] = comm'[p]
          PROVE  Base(q)' = Base(p)'
      <4>1. q \notin mesh /\ comm[q] = comm[p]
        BY <1>1, <3>1, <3>2
      <4>2. Base(q)' = Base(q)
        BY <1>10, <4>1
      <4>. QED BY <1>12, <3>1, <4>1, <4>2 DEF StepInv, InStep
    <3>. QED BY <1>1, <1>12, <3>1, <3>2 DEF StepInv, InStep
  <2>. QED BY <2>1, <2>2
<1>13. InStep'
  BY <1>12 DEF InStep
<1>. QED BY <1>5, <1>6, <1>7, <1>13 DEF StepInv

\* A call is made on the communicator for the op that is due on it.
LEMMA LaunchStep ==
  ASSUME LossInv, CallsInv, StepInv, NEW p \in Policies, Reduce(p), comm[p] # {}, comm' = comm,
         main[p] = "lock", main'[p] = "enqueue", op'[p] = op[p], results' = results, NEW new,
         new = [by |-> p, op |-> op[p], comm |-> comm[p], nth |-> Cardinality(CallsOf(p, comm[p])) + 1],
         calls' = calls \cup {new}
  PROVE  StepInv'
<1>. DEFINE n == NCalls(p, comm[p])
<1>1. /\ new.by = p /\ new.op = op[p] /\ new.comm = comm[p] /\ new.nth = n + 1
      /\ \A q, mesh : NCalls(q, mesh)' = IF q = p /\ mesh = comm[p] THEN NCalls(q, mesh) + 1
                                                                  ELSE NCalls(q, mesh)
  BY LaunchFacts
<1>2. /\ UNCHANGED single /\ \A q \in Policies : op'[q] = op[q]
      /\ ~Calling(p) /\ Calling(p)'
      /\ \A q \in Policies \ {p} : Calling(q)' <=> Calling(q)
  BY ReduceFrame DEF Calling, LossInv
<1>3. n \in Nat /\ op[p] \in Nat
  BY CountTypes
<1>4. Outcomes("done")' = Outcomes("done")
  BY DEF Outcomes
<1>5. ASSUME NEW q \in Policies
      PROVE  NCalls(q, comm[q])' = IF q = p THEN NCalls(q, comm[q]) + 1 ELSE NCalls(q, comm[q])
  <2>1. Cardinality({c \in calls' : c.by = q /\ c.comm = comm[q]}) =
          IF q = p THEN NCalls(q, comm[q]) + 1 ELSE NCalls(q, comm[q])
    BY <1>1 DEF NCalls, CallsOf
  <2>. QED BY <2>1 DEF NCalls, CallsOf
<1>6. ASSUME NEW q \in Policies PROVE Base(q)' = Base(q)
  <2>1. NCalls(q, comm[q]) \in Nat /\ op[q] \in Nat /\ op'[q] = op[q]
    BY <1>2, CountTypes
  <2>2. CASE q = p
    <3>1. NCalls(q, comm[q])' = NCalls(q, comm[q]) + 1 /\ ~Calling(q) /\ Calling(q)'
      BY <1>2, <1>5, <2>2
    <3>. QED BY <2>1, <3>1 DEF Base
  <2>3. CASE q # p
    <3>1. NCalls(q, comm[q])' = NCalls(q, comm[q]) /\ (Calling(q)' <=> Calling(q))
      BY <1>2, <1>5, <2>3
    <3>. QED BY <2>1, <3>1 DEF Base
  <2>. QED BY <2>2, <2>3
<1>7. Base(p) = op[p] - n
  BY <1>2, <1>3 DEF Base
<1>8. ASSUME NEW q \in Policies, comm[q] # {}, NEW c \in calls', c.comm = comm[q]
      PROVE  c.op = Base(q) + c.nth - 1
  <2>1. CASE c \in calls
    BY <1>8, <2>1 DEF StepInv, InStep
  <2>2. CASE c = new
    <3>1. Base(q) = Base(p)
      BY <1>1, <1>8, <2>2 DEF StepInv, InStep
    <3>. QED BY <1>1, <1>3, <1>7, <2>2, <3>1
  <2>. QED BY <2>1, <2>2
<1>. HIDE DEF n
<1>9. SameCallSameOp'
  <2>1. ASSUME NEW c \in calls', NEW d \in calls', c.comm = d.comm, c.nth = d.nth
        PROVE  c.op = d.op
    <3>1. CASE c \in calls /\ d \in calls
      BY <2>1, <3>1 DEF StepInv, SameCallSameOp
    <3>2. CASE c = new \/ d = new
      <4>1. c.comm = comm[p] /\ d.comm = comm[p]
        BY <1>1, <2>1, <3>2
      <4>. QED BY <1>8, <2>1, <4>1
    <3>. QED BY <3>1, <3>2
  <2>. QED BY <2>1 DEF SameCallSameOp
<1>10. DoneByAll'
  <2>1. ASSUME NEW r \in Outcomes("done") PROVE r.op < op'[r.by] /\ r.by \in r.comm
    <3>1. r.by \in r.comm /\ r.op < op[r.by] /\ \E c \in calls : c.by = r.by
      BY DEF StepInv, DoneByAll
    <3>. QED BY <1>2, <3>1, CountTypes
  <2>. QED BY <1>4, <2>1 DEF StepInv, DoneByAll
<1>11. DoneOnce'
  BY <1>4 DEF StepInv, DoneOnce
<1>12. Accounted'
  <2>1. ASSUME NEW c \in calls, Current(c) PROVE Current(c)'
    <3>1. c.by \in Policies \ {p}
      BY <1>2, <2>1, CountTypes DEF Current
    <3>2. NCalls(c.by, c.comm)' = NCalls(c.by, c.comm)
      BY <1>1, <3>1
    <3>. QED BY <1>2, <2>1, <3>1, <3>2 DEF Current
  <2>2. Current(new)'
    <3>1. NCalls(p, comm[p])' = n + 1
      BY <1>5 DEF n
    <3>2. NCalls(new.by, new.comm)' = n + 1
      <4>1. Cardinality({c \in calls' : c.by = p /\ c.comm = comm[p]}) = n + 1
        BY <3>1 DEF NCalls, CallsOf
      <4>2. new.by = p /\ new.comm = comm[p]
        BY <1>1
      <4>3. Cardinality({c \in calls' : c.by = new.by /\ c.comm = new.comm}) = n + 1
        BY <4>1, <4>2
      <4>4. new' = new
        BY <1>1
      <4>. QED BY <4>3, <4>4 DEF NCalls, CallsOf
    <3>. QED BY <1>1, <1>2, <3>2 DEF Current
  <2>. QED BY <2>1, <2>2 DEF StepInv, Accounted
<1>13. NoneLeftOut'
  BY <1>2, <1>4 DEF StepInv, NoneLeftOut
<1>14. InStep'
  BY <1>6, <1>8 DEF StepInv, InStep
<1>. QED BY <1>9, <1>10, <1>11, <1>12, <1>13, <1>14 DEF StepInv

\* An all-reduce is completed by a replica that has not completed it before.
LEMMA CompleteStep ==
  ASSUME LossInv, CallsInv, StepInv, NEW p \in Policies, Reduce(p), comm' = comm, calls' = calls,
         main[p] = "flight", AllCalled(p), NextOp(p), results' = results \cup {Ended(p, "done")}
  PROVE  StepInv'
<1>. USE DEF LossInv
<1>. DEFINE n == NCalls(p, comm[p])
            e == Ended(p, "done")
<1>1. /\ UNCHANGED single /\ op'[p] = op[p] + 1 /\ Calling(p) /\ ~Calling(p)'
      /\ \A q \in Policies \ {p} : op'[q] = op[q] /\ (Calling(q)' <=> Calling(q))
  BY ReduceFrame, NextOpFacts DEF Calling
<1>2. /\ e.by = p /\ e.op = op[p] /\ e.comm = comm[p] /\ e.nth = n /\ e.how = "done"
      /\ Outcomes("done")' = Outcomes("done") \cup {e}
  BY DEF Ended, Outcomes, NCalls
<1>3. n \in Nat /\ n > 0 /\ op[p] \in Nat
  BY <1>1, CountTypes DEF CallsInv
<1>4. comm[p] # {} /\ comm[p] \in SUBSET Policies /\ p \in comm[p]
  BY <1>1 DEF CommInv, CommOf, QueueInv, MeshInv, TypeOK
<1>5. ASSUME NEW q \in Policies PROVE Base(q)' = Base(q)
  <2>1. CallsOf(q, comm[q])' = CallsOf(q, comm[q])
    BY DEF CallsOf
  <2>2. NCalls(q, comm[q])' = NCalls(q, comm[q]) /\ NCalls(q, comm[q]) \in Nat /\ op[q] \in Nat
    BY <2>1, CountTypes DEF NCalls
  <2>3. CASE q = p
    <3>1. op'[q] = op[q] + 1 /\ Calling(q) /\ ~Calling(q)'
      BY <1>1, <2>3
    <3>. QED BY <2>2, <3>1 DEF Base
  <2>4. CASE q # p
    <3>1. op'[q] = op[q] /\ (Calling(q)' <=> Calling(q))
      BY <1>1, <2>4
    <3>. QED BY <2>2, <3>1 DEF Base
  <2>. QED BY <2>3, <2>4
<1>6. Base(p) = op[p] - n + 1
  BY <1>1, <1>3 DEF Base
<1>7. AllCalled(p) => \A q \in comm[p] : NCalls(q, comm[p]) >= n
  BY DEF AllCalled, NCalls
<1>. HIDE DEF n, e
<1>8. ASSUME NEW q \in comm[p]
      PROVE  \E c \in calls : c.by = q /\ c.comm = comm[p] /\ c.nth = n /\ c.op = op[p]
  <2>1. q \in Policies /\ NCalls(q, comm[p]) \in Nat /\ NCalls(q, comm[p]) >= n
    BY <1>4, <1>7, CountTypes
  <2>2. n \in 1..NCalls(q, comm[p])
    BY <1>3, <2>1
  <2>3. PICK c \in calls : c.by = q /\ c.comm = comm[p] /\ c.nth = n
    BY <1>4, <2>1, <2>2 DEF CallsInv
  <2>4. c.op = Base(p) + n - 1
    BY <1>4, <2>3 DEF StepInv, InStep
  <2>. QED BY <1>3, <1>6, <2>3, <2>4
<1>9. SameCallSameOp'
  BY DEF StepInv, SameCallSameOp
<1>10. DoneByAll'
  <2>1. ASSUME NEW r \in Outcomes("done") PROVE r.by \in Policies /\ r.op < op'[r.by]
    <3>1. r.op < op[r.by] /\ r.by \in r.comm /\ \E c \in calls : c.by = r.by /\ c.op = r.op
      BY DEF StepInv, DoneByAll
    <3>2. r.op \in Nat /\ r.by \in Policies
      BY <3>1, CountTypes
    <3>. QED BY <1>1, <1>3, <3>1, <3>2
  <2>2. e.op < op'[e.by]
    BY <1>1, <1>2, <1>3
  <2>3. ASSUME NEW r \in Outcomes("done")'
        PROVE  /\ r.by \in r.comm /\ r.op < op'[r.by]
               /\ \A q \in r.comm :
                    \E c \in calls' : c.by = q /\ c.comm = r.comm /\ c.nth = r.nth /\ c.op = r.op
    <3>1. CASE r \in Outcomes("done")
      BY <2>1, <3>1 DEF StepInv, DoneByAll
    <3>2. CASE r = e
      BY <1>2, <1>4, <1>8, <2>2, <3>2
    <3>. QED BY <1>2, <3>1, <3>2
  <2>. QED BY <2>3 DEF DoneByAll
<1>11. DoneOnce'
  <2>1. ASSUME NEW s \in Outcomes("done"), s.by = p PROVE s.op # op[p]
    BY <1>3, <2>1 DEF StepInv, DoneByAll
  <2>. QED BY <1>2, <2>1 DEF StepInv, DoneOnce
<1>12. Accounted'
  <2>1. ASSUME NEW c \in calls, Current(c) PROVE Current(c)' \/ Result(c, "done") = e
    <3>1. CASE c.by = p
      BY <2>1, <3>1 DEF Current, Result, Ended, NCalls, e
    <3>2. CASE c.by # p
      <4>1. c.by \in Policies \ {p}
        BY <3>2, CountTypes
      <4>2. NCalls(c.by, c.comm)' = NCalls(c.by, c.comm)
        BY SameCalls
      <4>. QED BY <1>1, <2>1, <4>1, <4>2 DEF Current
    <3>. QED BY <3>1, <3>2
  <2>2. e \in results' /\ results \subseteq results'
    BY DEF e
  <2>. QED BY <2>1, <2>2 DEF StepInv, Accounted
<1>13. NoneLeftOut'
  <2>1. ASSUME NEW q \in Policies, ~single[q], NEW k \in 1..(op'[q] - 1)
        PROVE  \E r \in Outcomes("done")' : r.by = q /\ r.op = k
    <3>1. CASE k \in 1..(op[q] - 1)
      BY <1>2, <2>1, <3>1 DEF StepInv, NoneLeftOut
    <3>2. CASE k \notin 1..(op[q] - 1)
      <4>1. q = p /\ k = op[p]
        BY <1>1, <1>3, <3>2
      <4>. QED BY <1>2, <4>1
    <3>. QED BY <3>1, <3>2
  <2>. QED BY <1>1, <2>1 DEF NoneLeftOut
<1>14. InStep'
  BY <1>5 DEF StepInv, InStep
<1>. QED BY <1>9, <1>10, <1>11, <1>12, <1>13, <1>14 DEF StepInv

\* A call that fails takes its replica off the communicator.
LEMMA TimeoutStep ==
  ASSUME LossInv, CallsInv, StepInv, NEW p \in Policies, Reduce(p), Calling(p), comm'[p] = {},
         calls' = calls, main'[p] = "failed", op'[p] = op[p],
         results' = results \cup {Ended(p, "failed")}
  PROVE  StepInv'
<1>. USE DEF LossInv
<1>1. /\ UNCHANGED single /\ \A q \in Policies : op'[q] = op[q]
      /\ \A q \in Policies \ {p} : comm'[q] = comm[q] /\ (Calling(q)' <=> Calling(q))
  BY ReduceFrame DEF Calling
<1>2. Outcomes("done")' = Outcomes("done") /\ results \subseteq results' /\ Ended(p, "failed") \in results'
  BY DEF Outcomes, Ended
<1>3. ASSUME NEW q \in Policies, comm'[q] # {}
      PROVE  comm'[q] = comm[q] /\ Base(q)' = Base(q)
  <2>1. q # p /\ comm'[q] = comm[q] /\ op'[q] = op[q] /\ (Calling(q)' <=> Calling(q))
    BY <1>1, <1>3
  <2>2. CallsOf(q, comm[q])' = CallsOf(q, comm[q])
    BY <2>1 DEF CallsOf
  <2>. QED BY <2>1, <2>2 DEF Base, NCalls
<1>4. SameCallSameOp' /\ DoneOnce'
  BY <1>2 DEF StepInv, SameCallSameOp, DoneOnce
<1>5. DoneByAll'
  <2>1. ASSUME NEW r \in Outcomes("done") PROVE r.op < op'[r.by]
    <3>1. r.by \in r.comm /\ r.op < op[r.by] /\ \E c \in calls : c.by = r.by
      BY DEF StepInv, DoneByAll
    <3>. QED BY <1>1, <3>1, CountTypes
  <2>. QED BY <1>2, <2>1 DEF StepInv, DoneByAll
<1>6. Accounted'
  <2>1. ASSUME NEW c \in calls, Current(c) PROVE Current(c)' \/ Result(c, "failed") = Ended(p, "failed")
    <3>1. CASE c.by = p
      BY <2>1, <3>1 DEF Current, Result, Ended, NCalls
    <3>2. CASE c.by # p
      <4>1. c.by \in Policies \ {p}
        BY <3>2, CountTypes
      <4>2. NCalls(c.by, c.comm)' = NCalls(c.by, c.comm)
        BY SameCalls
      <4>. QED BY <1>1, <2>1, <4>1, <4>2 DEF Current
    <3>. QED BY <3>1, <3>2
  <2>. QED BY <1>2, <2>1 DEF StepInv, Accounted
<1>7. NoneLeftOut'
  BY <1>1, <1>2 DEF StepInv, NoneLeftOut
<1>8. InStep'
  BY <1>3 DEF StepInv, InStep
<1>. QED BY <1>4, <1>5, <1>6, <1>7, <1>8 DEF StepInv

LEMMA StepStep ==
  ASSUME LossInv, CallsInv, StepInv, Faultless, Faultless', [Next]_vars
  PROVE  StepInv'
<1>. USE DEF LossInv
<1>0. results \subseteq results'
  BY ResultsGrow
<1>1. CASE \/ \E gone \in SUBSET member : Removal(gone)
           \/ \E p \in Policies : Onward(p) \/ Stop(p)
           \/ UNCHANGED vars
  <2>1. UNCHANGED <<calls, results, op, single, main, comm>>
    BY <1>1 DEF Removal, Onward, Stop, vars, mainVars, meshVars
  <2>. QED BY <2>1, QuietStep DEF Outcomes, Calling
<1>2. ASSUME NEW p \in Policies, BgTake(p) PROVE StepInv'
  <2>1. main[p] # "flight"
    <3>1. main[p] = "flight" => Ended(p, "cut") \in Outcomes("cut")'
      BY <1>2 DEF BgTake, Outcomes, Ended
    <3>. QED BY <3>1 DEF Faultless, Cut
  <2>2. \A q \in Policies : op'[q] = op[q] /\ main'[q] = main[q]
    BY <1>2, <2>1, TakeMain
  <2>3. calls' = calls /\ Outcomes("done")' = Outcomes("done")
    BY <1>2, <2>1 DEF BgTake, Outcomes, Ended
  <2>4. \A q \in Policies : single[q] => single'[q]
    BY <1>2, TakeFacts, TakeFlags
  <2>5. \A q \in Policies : comm'[q] = comm[q] \/ (comm'[q] = {} /\ ~Calling(q))
    BY <1>2, <2>1, TakeFacts, TakeMain DEF Calling
  <2>. QED BY <1>0, <2>2, <2>3, <2>4, <2>5, QuietStep DEF Calling
<1>3. ASSUME NEW p \in Policies, Reduce(p) PROVE StepInv'
  <2>1. /\ UNCHANGED single
        /\ \A q \in Policies \ {p} : main'[q] = main[q] /\ op'[q] = op[q] /\ comm'[q] = comm[q]
    BY <1>3, ReduceFrame
  <2>2. ASSUME calls' = calls, Outcomes("done")' = Outcomes("done"), comm' = comm, Calling(p)' <=> Calling(p),
               op'[p] = op[p] \/ (single[p] /\ op'[p] = op[p] + 1)
        PROVE  StepInv'
    BY <1>0, <2>1, <2>2, QuietStep DEF Calling
  <2>3. NextOp(p) => op'[p] = op[p] + 1 /\ main'[p] \in {"work", "done"}
    BY NextOpFacts
  <2>4. results' = results => Outcomes("done")' = Outcomes("done")
    BY DEF Outcomes
  <2>5. CASE /\ main[p] = "work" /\ comm' = comm /\ calls' = calls /\ results' = results
             /\ \/ single[p] /\ NextOp(p)
                \/ ~single[p] /\ main'[p] = "wait" /\ op'[p] = op[p]
    BY <2>2, <2>3, <2>4, <2>5 DEF Calling
  <2>6. CASE /\ comm' = comm /\ calls' = calls /\ results' = results /\ op'[p] = op[p]
             /\ \/ main[p] = "wait" /\ main'[p] = "lock"
                \/ main[p] = "lock" /\ main'[p] = "failed"
                \/ main[p] = "enqueue" /\ main'[p] = "flight"
                \/ main[p] = "failed" /\ main'[p] = "wait"
    BY <2>2, <2>4, <2>6 DEF Calling
  <2>7. CASE /\ main[p] = "lock" /\ comm' = comm /\ comm[p] # {} /\ results' = results
             /\ calls' = calls \cup {[by |-> p, op |-> op[p], comm |-> comm[p],
                                      nth |-> Cardinality(CallsOf(p, comm[p])) + 1]}
             /\ main'[p] = "enqueue" /\ op'[p] = op[p]
    BY <1>3, <2>7, LaunchStep
  <2>8. CASE /\ main[p] = "flight" /\ AllCalled(p) /\ NextOp(p) /\ comm' = comm
             /\ calls' = calls /\ results' = results \cup {Ended(p, "done")}
    BY <1>3, <2>8, CompleteStep
  <2>9. CASE /\ Calling(p) /\ comm'[p] = {} /\ calls' = calls
             /\ results' = results \cup {Ended(p, "failed")}
             /\ main'[p] = "failed" /\ op'[p] = op[p]
    BY <1>3, <2>9, TimeoutStep
  <2>10. CASE /\ main[p] = "failed" /\ comm' = comm /\ calls' = calls
              /\ NextOp(p) /\ results' = results \cup Skipped(p)
    <3>1. single[p]
      <4>1. ~single[p] => Ended(p, "skipped") \in Outcomes("skipped")'
        BY <2>10 DEF Skipped, Outcomes, Ended
      <4>. QED BY <4>1 DEF Faultless, GivenUp
    <3>2. results' = results
      BY <2>10, <3>1 DEF Skipped
    <3>. QED BY <2>2, <2>3, <2>4, <2>10, <3>1, <3>2 DEF Calling
  <2>. QED BY <1>3, <2>5, <2>6, <2>7, <2>8, <2>9, <2>10, ReduceCases
<1>4. ASSUME NEW mesh \in SUBSET Policies, InitDone(mesh) PROVE StepInv'
  BY <1>4, FormingStep
<1>. QED BY <1>1, <1>2, <1>3, <1>4, StepCases

LEMMA AlignStep == AlignInv /\ [Next]_vars => AlignInv'
<1>. SUFFICES ASSUME AlignInv, [Next]_vars PROVE AlignInv'
  OBVIOUS
<1>1. results \subseteq results'
  BY ResultsGrow DEF AlignInv, LossInv
<1>2. Faultless' => Faultless
  BY <1>1 DEF Faultless, Cut, Torn, GivenUp, Outcomes
<1>. QED BY <1>2, LossStep, CallsStep, StepStep DEF AlignInv

LEMMA InitAlign == Init => AlignInv
<1>. SUFFICES ASSUME Init PROVE AlignInv
  OBVIOUS
<1>1. calls = {} /\ results = {} /\ Outcomes("done") = {} /\ \A q, mesh : CallsOf(q, mesh) = {}
  BY DEF Init, Outcomes, CallsOf
<1>2. \A q, mesh : NCalls(q, mesh) = 0
  BY <1>1, FS_EmptySet DEF NCalls
<1>3. \A q \in Policies : ~Calling(q) /\ op[q] = 1 /\ comm[q] = {}
  BY DEF Init, Calling
<1>4. CallsInv
  BY <1>1, <1>2, <1>3, FS_EmptySet DEF CallsInv
<1>5. StepInv
  BY <1>1, <1>3 DEF StepInv, SameCallSameOp, DoneByAll, DoneOnce, Accounted, NoneLeftOut, InStep
<1>. QED BY <1>4, <1>5, InitLoss DEF AlignInv

\* A member of the communicator of an all-reduce has completed it there, if anywhere.
LEMMA SameOpSameCall ==
  ASSUME LossInv, CallsInv, StepInv, Faultless, NEW a \in Outcomes("done"), NEW b \in Outcomes("done"),
         a.op = b.op, b.by \in a.comm
  PROVE  a.comm = b.comm /\ a.nth = b.nth
<1>1. PICK d \in calls : d.by = b.by /\ d.comm = a.comm /\ d.nth = a.nth /\ d.op = a.op
  BY DEF StepInv, DoneByAll
<1>2. b.op < op[b.by] /\ d.by \in Policies /\ d.op \in Nat /\ op[b.by] \in Nat
  BY <1>1, CountTypes DEF StepInv, DoneByAll
<1>3. ~Current(d)
  BY <1>1, <1>2 DEF Current
<1>4. Result(d, "failed") \notin results
  BY <1>1 DEF Faultless, Torn, Outcomes, Result
<1>5. Result(d, "done") \in Outcomes("done")
  BY <1>1, <1>3, <1>4 DEF StepInv, Accounted, Outcomes, Result
<1>. QED BY <1>1, <1>5 DEF StepInv, DoneOnce, Result

LEMMA AlignInvImplies == AlignInv => SameGradient
<1>. SUFFICES ASSUME AlignInv PROVE SameGradient
  OBVIOUS
<1>. USE DEF AlignInv
<1>1. GivenUp => Cardinality(Lost) >= MaxRetry
  BY DEF LossInv, GiveUpInv
<1>2. ASSUME Faultless, NEW a \in Outcomes("done"), NEW b \in Outcomes("done")
      PROVE  a.op = b.op <=> (a.comm = b.comm /\ a.nth = b.nth)
  <2>. USE <1>2
  <2>1. /\ a.by \in a.comm /\ b.by \in b.comm
        /\ \E c \in calls : c.comm = a.comm /\ c.nth = a.nth /\ c.op = a.op
        /\ \E c \in calls : c.comm = b.comm /\ c.nth = b.nth /\ c.op = b.op
    BY DEF StepInv, DoneByAll
  <2>2. ASSUME a.comm = b.comm, a.nth = b.nth PROVE a.op = b.op
    BY <2>1, <2>2 DEF StepInv, SameCallSameOp
  <2>3. ASSUME a.op = b.op PROVE a.comm = b.comm /\ a.nth = b.nth
    <3>1. a.comm \in InUse /\ b.comm \in InUse
      BY <2>1 DEF InUse
    <3>2. b.by \in a.comm \/ a.by \in b.comm
      BY <2>1, <3>1 DEF LossInv, MeshesInv
    <3>. QED BY <2>3, <3>2, SameOpSameCall
  <2>. QED BY <2>2, <2>3
<1>3. ~Cut /\ ~Torn /\ ~GivenUp => Aligned
  BY <1>2 DEF Faultless, Aligned
<1>. QED BY <1>1, <1>3 DEF SameGradient

\* The replicas that go on average the same buckets with the same members, however many
\* there are, whoever stops and however often the mesh is rebuilt, until an all-reduce has
\* been torn, cut or given up, and max_retry losses are needed for that: a loss costs a
\* replica one try of allreduce at most.
THEOREM GradientsAgree == Spec => []SameGradient
BY InitAlign, AlignStep, AlignInvImplies, PTL DEF Spec
=============================================================================
