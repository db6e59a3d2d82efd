----------------------------- MODULE PolicyMesh -----------------------------
(***************************************************************************)
(* HighAvailabilitylNccl: how the policy replicas of cosmos_rl keep        *)
(* all-reducing their gradients while replicas stop, and the part of the   *)
(* controller that finds the stopped ones out and asks for a new mesh.     *)
(*                                                                         *)
(* A replica is one process with two threads that meet at build_mesh_lock  *)
(* and is_comm_ready: the training thread retries an all-reduce up to      *)
(* MaxRetry times, the mesh thread aborts the communicator and builds the  *)
(* next one for every BuildMesh command.  A replica is named by the order  *)
(* of its start, so rank 0 of a mesh is its smallest member.  No replica   *)
(* joins, so no mesh is asked for twice, and a communicator is named by    *)
(* its mesh.  NCCL is what pynccl.py sees of it: a call completes at a     *)
(* member once all members have called; it may complete at some of them    *)
(* and not at others when one stops or aborts in the middle.  Replicas     *)
(* that are up reach an all-reduce within its timeout.                     *)
(*                                                                         *)
(* An operator named Faulty... is a wrong form of the one after it, which  *)
(* uses it nowhere: it is there to see that a property notices the fault.  *)
(***************************************************************************)
EXTENDS Integers, Sequences, FiniteSets

CONSTANTS
  Policies,            \* replicas, numbered by start time
  NumOps,              \* all-reduces (buckets) of a gradient reduction
  MaxRetry,            \* max_retry
  MayDie, MayHang,     \* replicas that may die, or stop while their heartbeats go on
  MaxStops             \* bound on the replicas that stop

ASSUME ConstantsAssumption ==
  /\ Policies \subseteq Nat /\ IsFiniteSet(Policies) /\ Cardinality(Policies) > 1
  /\ {NumOps, MaxRetry} \subseteq Nat \ {0}
  /\ MaxStops \in Nat /\ MayDie \cup MayHang \subseteq Policies

VARIABLES
  \* the controller
  member,        \* the replicas of PolicyStatusManager
  reported,      \* replicas with an nccl_error_timestamp
  posted,        \* meshes with a uid in temp_kv_store
  \* every replica
  alive,         \* up, hung (its heartbeat process goes on) or dead
  queue,         \* cmd_queue: the meshes of the BuildMesh commands to come
  bg, target,    \* the mesh thread: idle, uid, init or ended, and the mesh it builds
  comm,          \* comm_idx: the mesh of the communicator, {} for -1
  ready,         \* is_comm_ready
  single,        \* is_single_peer
  main,          \* the training thread: work, wait, lock, enqueue, flight, failed or done
  op, tries,     \* the all-reduce it is at, and how often that has failed
  \* history
  calls,         \* calls made on a communicator: by whom, for which op, the how manieth
  results        \* how they ended: done, cut, late, failed or skipped

controllerVars == <<member, reported, posted>>
meshVars == <<queue, bg, target, comm, ready, single>>
mainVars == <<main, op, tries>>
vars == <<controllerVars, alive, meshVars, mainVars, calls, results>>

Up(p) == alive[p] = "up"
RankZero(mesh) == CHOOSE p \in mesh : \A q \in mesh : p <= q

\* The mesh thread holds the lock while it builds, the training thread while it enqueues.
LockFree(p) == bg[p] \notin {"uid", "init"} /\ main[p] # "enqueue"

-----------------------------------------------------------------------------
(* The controller *)

FaultyUnregister(gone) ==  \* the mesh is built from the replicas there were before
  /\ member' = member \ gone
  /\ queue' = [p \in Policies |-> IF p \in member /\ gone # {} THEN Append(queue[p], member) ELSE queue[p]]

\* unregister for each of these, in the order of registration, and the BuildMesh command
\* after each: the replicas left over get it, those yet to be removed included.
Unregister(gone) ==
  LET before(p) == Cardinality({q \in gone : q < p})
      meshes == [i \in 1..Cardinality(gone) |-> member \ {p \in gone : before(p) < i}]
      sent(p) == IF p \notin member THEN 0 ELSE IF p \in gone THEN before(p) ELSE Cardinality(gone)
  IN  /\ member' = member \ gone
      /\ queue' = [p \in Policies |-> queue[p] \o SubSeq(meshes, 1, sent(p))]

FaultySetNcclError(p) == reported' = reported \cup {p}  \* whoever reports is heard

\* set_replica_ncclerror: a replica that is no longer registered is not heard.
SetNcclError(p) == reported' = IF p \in member THEN reported \cup {p} ELSE reported

\* COSMOS_NCCL_ERROR_CLEAN_REPLICA_DELAY after the last report: post_ncclerror takes
\* whoever has not reported for hung.
CloseWindow ==
  /\ reported # {}
  /\ Unregister(member \ reported)
  /\ reported' = {}
  /\ UNCHANGED <<posted, alive, bg, target, comm, ready, single, mainVars, calls, results>>

\* maintain_life_status.  The heartbeat timeout is longer than the window.
MonitorRemove(p) ==
  /\ alive[p] = "dead" /\ p \in member \ reported
  /\ Unregister({p})
  /\ UNCHANGED <<reported, posted, alive, bg, target, comm, ready, single, mainVars, calls, results>>

-----------------------------------------------------------------------------
(* The mesh thread *)

CallsOf(p, mesh) == {c \in calls : c.by = p /\ c.comm = mesh}

\* How the call that p made last on its communicator ends.
Ended(p, how) ==
  [by |-> p, op |-> op[p], comm |-> comm[p], nth |-> Cardinality(CallsOf(p, comm[p])), how |-> how]

NextOp(p) ==
  /\ op' = [op EXCEPT ![p] = @ + 1]
  /\ tries' = [tries EXCEPT ![p] = 0]
  /\ main' = [main EXCEPT ![p] = IF op[p] = NumOps THEN "done" ELSE "work"]

\* A BuildMesh command is taken as soon as the lock is free, and the communicator aborted
\* with whatever runs on it.  The lock is not held while the training thread waits for
\* its stream: an all-reduce caught there returns, as if it had been completed, or fails.
\* A mesh of one needs no communicator; rank 0 posts the uid, the others ask for it.
BgTake(p) ==
  LET mesh == Head(queue[p])
  IN  /\ Up(p) /\ bg[p] = "idle" /\ queue[p] # <<>> /\ LockFree(p)
      /\ queue' = [queue EXCEPT ![p] = Tail(@)]
      /\ target' = [target EXCEPT ![p] = mesh]
      /\ comm' = [comm EXCEPT ![p] = {}]
      /\ ready' = [ready EXCEPT ![p] = mesh = {p}]
      /\ single' = [single EXCEPT ![p] = @ \/ mesh = {p}]
      /\ bg' = [bg EXCEPT ![p] = IF mesh = {p} THEN "idle"
                                 ELSE IF p = RankZero(mesh) THEN "init" ELSE "uid"]
      /\ posted' = IF mesh # {p} /\ p = RankZero(mesh) THEN posted \cup {mesh} ELSE posted
      /\ \/ main[p] \notin {"flight", "failed"} /\ UNCHANGED <<mainVars, results>>
         \/ main[p] = "failed" /\ results' = results \cup {Ended(p, "late")} /\ UNCHANGED mainVars
         \/ main[p] = "flight" /\ NextOp(p) /\ results' = results \cup {Ended(p, "cut")}
         \/ /\ main[p] = "flight"
            /\ main' = [main EXCEPT ![p] = "failed"]
            /\ results' = results \cup {Ended(p, "cut")}
            /\ UNCHANGED <<op, tries>>
  /\ UNCHANGED <<member, reported, alive, calls>>

BgUid(p) ==
  /\ Up(p) /\ bg[p] = "uid" /\ target[p] \in posted
  /\ bg' = [bg EXCEPT ![p] = "init"]
  /\ UNCHANGED <<controllerVars, alive, queue, target, comm, ready, single, mainVars, calls, results>>

\* q will not join the others of this mesh any more.
Absent(q, mesh) ==
  \/ ~Up(q) \/ bg[q] = "ended"
  \/ ~(bg[q] \in {"uid", "init"} /\ target[q] = mesh)
     /\ \A i \in 1..Len(queue[q]) : queue[q][i] # mesh

\* The retries for the uid are over before those of an init that waits for its timeout:
\* the exception is caught nowhere and ends the thread, which keeps the lock no longer.
BgGiveUp(p) ==
  LET zero == RankZero(target[p])
  IN  /\ Up(p) /\ bg[p] = "uid" /\ target[p] \notin posted
      /\ \/ Absent(zero, target[p])
         \/ bg[zero] = "init" /\ \E q \in target[zero] : Absent(q, target[zero])
      /\ bg' = [bg EXCEPT ![p] = "ended"]
  /\ UNCHANGED <<controllerVars, alive, queue, target, comm, ready, single, mainVars, calls, results>>

\* create_nccl_comm returns at all members; rank 0 takes the uid back.
InitDone(mesh) ==
  /\ mesh # {}
  /\ \A p \in mesh : Up(p) /\ bg[p] = "init" /\ target[p] = mesh
  /\ bg' = [p \in Policies |-> IF p \in mesh THEN "idle" ELSE bg[p]]
  /\ comm' = [p \in Policies |-> IF p \in mesh THEN mesh ELSE comm[p]]
  /\ ready' = [p \in Policies |-> p \in mesh \/ ready[p]]
  /\ single' = [p \in Policies |-> p \notin mesh /\ single[p]]
  /\ posted' = posted \ {mesh}
  /\ UNCHANGED <<member, reported, alive, queue, target, mainVars, calls, results>>

\* create_nccl_comm times out, which is reported; the thread waits for the next command.
InitTimeout(p) ==
  /\ Up(p) /\ bg[p] = "init" /\ \E q \in target[p] : Absent(q, target[p])
  /\ SetNcclError(p)
  /\ bg' = [bg EXCEPT ![p] = "idle"]
  /\ UNCHANGED <<member, posted, alive, queue, target, comm, ready, single, mainVars, calls, results>>

-----------------------------------------------------------------------------
(* The training thread *)

\* The first bucket waits for a communicator.  A single peer has nothing to reduce, which
\* is asked once, before the retries.
Enter(p) ==
  /\ Up(p) /\ main[p] = "work" /\ (op[p] = 1 => ready[p])
  /\ IF single[p] THEN NextOp(p) ELSE main' = [main EXCEPT ![p] = "wait"] /\ UNCHANGED <<op, tries>>
  /\ UNCHANGED <<controllerVars, alive, meshVars, calls, results>>

\* wait_comm_ready
PassReady(p) ==
  /\ Up(p) /\ main[p] = "wait" /\ ready[p]
  /\ main' = [main EXCEPT ![p] = "lock"]
  /\ UNCHANGED <<controllerVars, alive, meshVars, op, tries, calls, results>>

\* The call is made under the lock.
Launch(p) ==
  /\ Up(p) /\ main[p] = "lock" /\ LockFree(p)
  /\ \/ /\ comm[p] = {}
        /\ main' = [main EXCEPT ![p] = "failed"]
        /\ UNCHANGED calls
     \/ /\ comm[p] # {}
        /\ main' = [main EXCEPT ![p] = "enqueue"]
        /\ calls' = calls \cup {[by |-> p, op |-> op[p], comm |-> comm[p],
                                 nth |-> Cardinality(CallsOf(p, comm[p])) + 1]}
  /\ UNCHANGED <<controllerVars, alive, meshVars, op, tries, results>>

\* Enqueueing is over, at once or when the other members have called, and the lock free.
Enqueued(p) ==
  /\ Up(p) /\ main[p] = "enqueue"
  /\ main' = [main EXCEPT ![p] = "flight"]
  /\ UNCHANGED <<controllerVars, alive, meshVars, op, tries, calls, results>>

\* Every member of the communicator has made the call that p waits for.
AllCalled(p) ==
  \A q \in comm[p] : Cardinality(CallsOf(q, comm[p])) >= Cardinality(CallsOf(p, comm[p]))

Complete(p) ==
  /\ Up(p) /\ main[p] = "flight" /\ AllCalled(p)
  /\ NextOp(p)
  /\ results' = results \cup {Ended(p, "done")}
  /\ UNCHANGED <<controllerVars, alive, meshVars, calls>>

\* The watchdog aborts the communicator when a member has stopped or has left it.
OpTimeout(p) ==
  /\ Up(p) /\ main[p] \in {"enqueue", "flight"}
  /\ \E q \in comm[p] : ~Up(q) \/ comm[q] # comm[p]
  /\ main' = [main EXCEPT ![p] = "failed"]
  /\ comm' = [comm EXCEPT ![p] = {}]
  /\ results' = results \cup {Ended(p, "failed")}
  /\ UNCHANGED <<controllerVars, alive, queue, bg, target, ready, single, op, tries, calls>>

FaultyClearReady(p) == UNCHANGED ready  \* the flag is left to the mesh thread

ClearReady(p) == ready' = [ready EXCEPT ![p] = FALSE]

\* A replica that is alone gives nothing up: it has nobody to reduce with.
Skipped(p) == IF single[p] THEN {} ELSE {Ended(p, "skipped")}

FaultyRetry(p) ==  \* range(max_retry - 1)
  \/ /\ tries[p] + 2 < MaxRetry
     /\ main' = [main EXCEPT ![p] = "wait"]
     /\ tries' = [tries EXCEPT ![p] = @ + 1]
     /\ UNCHANGED <<op, results>>
  \/ /\ tries[p] + 2 >= MaxRetry
     /\ NextOp(p)
     /\ results' = results \cup Skipped(p)

\* for i in range(max_retry): the loop is left without an error after the last failure.
Retry(p) ==
  \/ /\ tries[p] + 1 < MaxRetry
     /\ main' = [main EXCEPT ![p] = "wait"]
     /\ tries' = [tries EXCEPT ![p] = @ + 1]
     /\ UNCHANGED <<op, results>>
  \/ /\ tries[p] + 1 = MaxRetry
     /\ NextOp(p)
     /\ results' = results \cup Skipped(p)

\* The except branch: the failure is reported, and the op tried again.
Fail(p) ==
  /\ Up(p) /\ main[p] = "failed"
  /\ ClearReady(p)
  /\ SetNcclError(p)
  /\ Retry(p)
  /\ UNCHANGED <<member, posted, alive, queue, bg, target, comm, single, calls>>

-----------------------------------------------------------------------------

Stop(p) ==
  /\ Up(p) /\ Cardinality({q \in Policies : ~Up(q)}) < MaxStops
  /\ \/ p \in MayDie /\ alive' = [alive EXCEPT ![p] = "dead"]
     \/ p \in MayHang /\ alive' = [alive EXCEPT ![p] = "hung"]
  /\ UNCHANGED <<controllerVars, meshVars, mainVars, calls, results>>

\* The initial group is complete and has been sent its first BuildMesh command.
Init ==
  /\ member = Policies /\ reported = {} /\ posted = {}
  /\ alive = [p \in Policies |-> "up"]
  /\ queue = [p \in Policies |-> <<Policies>>]
  /\ bg = [p \in Policies |-> "idle"]
  /\ target = [p \in Policies |-> {}]
  /\ comm = [p \in Policies |-> {}]
  /\ ready = [p \in Policies |-> FALSE]
  /\ single = [p \in Policies |-> FALSE]
  /\ main = [p \in Policies |-> "work"]
  /\ op = [p \in Policies |-> 1]
  /\ tries = [p \in Policies |-> 0]
  /\ calls = {} /\ results = {}

Build(p) == BgTake(p) \/ BgUid(p) \/ BgGiveUp(p) \/ InitTimeout(p)
Reduce(p) ==
  \/ Enter(p) \/ PassReady(p) \/ Launch(p) \/ Enqueued(p) \/ Complete(p) \/ OpTimeout(p) \/ Fail(p)

Next ==
  \/ \E p \in Policies : Build(p) \/ Reduce(p) \/ MonitorRemove(p) \/ Stop(p)
  \/ \E mesh \in SUBSET Policies : InitDone(mesh)
  \/ CloseWindow

Spec == Init /\ [][Next]_vars

\* Both threads of a replica that is up go on, and so does the controller.
FairSpec ==
  /\ Spec
  /\ \A p \in Policies : WF_vars(Build(p)) /\ WF_vars(Reduce(p)) /\ WF_vars(MonitorRemove(p))
  /\ \A mesh \in SUBSET Policies : WF_vars(InitDone(mesh))
  /\ WF_vars(CloseWindow)

-----------------------------------------------------------------------------
(* Properties *)

TypeOK ==
  /\ member \subseteq Policies /\ reported \subseteq member /\ posted \subseteq SUBSET Policies
  /\ alive \in [Policies -> {"up", "hung", "dead"}]
  /\ queue \in [Policies -> Seq(SUBSET Policies)]
  /\ bg \in [Policies -> {"idle", "uid", "init", "ended"}]
  /\ {target, comm} \subseteq [Policies -> SUBSET Policies]
  /\ {ready, single} \subseteq [Policies -> BOOLEAN]
  /\ main \in [Policies -> {"work", "wait", "lock", "enqueue", "flight", "failed", "done"}]
  /\ op \in [Policies -> 1..(NumOps + 1)] /\ tries \in [Policies -> 0..(MaxRetry - 1)]

Outcomes(how) == {r \in results : r.how = how}

\* An all-reduce was caught by the abort of its communicator, and may have returned.
Cut == Outcomes("cut") # {}

\* An all-reduce was completed by one replica and given up by another.
Torn == \E a \in Outcomes("done"), b \in Outcomes("failed") : a.op = b.op /\ a.comm = b.comm

\* A replica that is not alone has left an all-reduce out after its last failure.
GivenUp == Outcomes("skipped") # {}

\* The replicas that have stopped, or that the controller has taken for stopped.
Lost == {p \in Policies : ~Up(p) \/ p \notin member}

\* All replicas that complete an all-reduce of the training do so by the same call of the
\* same communicator: nobody averages one bucket with another, or with other members.
Aligned == \A a, b \in Outcomes("done") : a.op = b.op <=> (a.comm = b.comm /\ a.nth = b.nth)

\* Replicas that go on training hold equal weights, as far as the retries carry.  Whoever
\* stops, whatever is reported in or out of the window and however often the mesh is
\* rebuilt, completed all-reduces are aligned until one has been torn or cut, which a retry
\* cannot tell, or given up: then "the reduce result will be wrong" (distributed.py:158).
\* And nobody gives up before max_retry replicas are lost: a loss costs one try at most.
SameGradient ==
  /\ ~Cut /\ ~Torn /\ ~GivenUp => Aligned
  /\ GivenUp => Cardinality(Lost) >= MaxRetry

\* What does not hold beyond that: the one that gave up pairs its next all-reduce with the
\* one the others still retry, on the next mesh.
AlignedAfterGivingUp == ~Cut /\ ~Torn => Aligned

\* Whoever passes wait_comm_ready finds a communicator, or is alone: neither thread leaves
\* is_comm_ready set for a communicator that is gone, except between a failure and its
\* handler.
ReadyMeansUsable ==
  \A p \in Policies : ready[p] /\ main[p] # "failed" => comm[p] # {} \/ single[p]

\* Two replicas or more are up and registered, none that is up has been taken for hung or
\* has lost its mesh thread, and no new mesh has overtaken a failure.
Calm ==
  /\ ~Cut /\ ~Torn /\ Outcomes("late") = {}
  /\ Cardinality({p \in member : Up(p)}) > 1
  /\ \A p \in Policies : Up(p) => p \in member /\ bg[p] # "ended"

\* "... so it won't block": when replicas stop, the others find out, get a mesh without
\* them and finish their all-reduces.
Recovers == []Calm => <>(\A p \in Policies : Up(p) => main[p] = "done")

\* The same of any number of replicas: "NCCL operation times out: the controller will
\* consider it offline and remove it from the NCCL mesh.  So it won't block the ongoing RL
\* workflow."
TimeoutDoesNotBlock == <>(\A p \in Policies : Up(p) => main[p] = "done")
=============================================================================
