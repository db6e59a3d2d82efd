--------------------------- MODULE BulkSynchronous ---------------------------
(***************************************************************************)
(* What the policies of a training run promise, however many they are:    *)
(* they train in steps that all of them take together.  Workers come and   *)
(* go at any time; one that comes is given the weights of those that are   *)
(* there and takes part from the next step on.  A step begins when nobody  *)
(* is in a step, and only weights that nobody is training are published.   *)
(***************************************************************************)
EXTENDS Integers

CONSTANT Workers

VARIABLES
  step,       \* the step begun last
  group,      \* the workers that train together
  busy,       \* those that have not finished the step
  weights,    \* the step of a worker's weights, once it has done what it was told; -1: none
  published   \* the step whose weights were published last

vars == <<step, group, busy, weights, published>>

Init ==
  /\ step = 0 /\ group = {} /\ busy = {} /\ published = 0
  /\ weights \in [Workers -> {-1}]

Join(new) ==
  /\ new # {} /\ new \cap group = {}
  /\ group' = group \cup new
  /\ \E given \in IF group = {} THEN {step} ELSE {weights[w] : w \in group} :
       weights' = [w \in Workers |-> IF w \in new THEN given ELSE weights[w]]
  /\ UNCHANGED <<step, busy, published>>

Leave(w) ==
  /\ w \in group
  /\ group' = group \ {w}
  /\ busy' = busy \ {w}
  /\ weights' = [weights EXCEPT ![w] = -1]
  /\ UNCHANGED <<step, published>>

\* The group as a whole takes the next step.
Advance ==
  /\ group # {}
  /\ step' = step + 1
  /\ busy' = group
  /\ weights' = [w \in Workers |-> IF w \in group THEN step + 1 ELSE weights[w]]

Begin == busy = {} /\ Advance /\ UNCHANGED <<group, published>>

\* A worker finishes the step.  The last one may have it published, and the next begun.
Finish(w) ==
  /\ w \in busy
  /\ UNCHANGED group
  /\ \/ busy' = busy \ {w} /\ UNCHANGED <<step, weights, published>>
     \/ /\ busy = {w}
        /\ published' \in {published, step}
        /\ Advance \/ (busy' = {} /\ UNCHANGED <<step, weights>>)

Next ==
  \/ \E new \in SUBSET Workers : Join(new)
  \/ \E w \in Workers : Leave(w) \/ Finish(w)
  \/ Begin

Spec == Init /\ [][Next]_vars
=============================================================================
