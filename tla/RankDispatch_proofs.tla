------------------------ MODULE RankDispatch_proofs ------------------------
(***************************************************************************)
(* Rank-indexed dispatch hands no prompt out twice and loses none, its     *)
(* variables keep their types, remain_samples_num is exact and             *)
(* samples_on_the_fly covers what is under way, for any dataset, mesh and  *)
(* batch size.                                                             *)
(***************************************************************************)
EXTENDS RankDispatch, SumTheorems

All == Epochs * Size

LEMMA AllType == All \in Nat \ {0}
BY ConstantsAssumption DEF ConstantsOK, All

-----------------------------------------------------------------------------
(* Least and greatest elements *)

LEMMA MinProperties ==
  ASSUME NEW T, T \subseteq Nat, T # {}
  PROVE  Min(T) \in T /\ \A y \in T : Min(T) <= y
BY LeastElement DEF Min

LEMMA MaxProperties ==
  ASSUME NEW n \in Nat, NEW T, T \subseteq 1..n, T # {}
  PROVE  Max(T) \in T /\ \A y \in T : y <= Max(T)
<1>. DEFINE D == {n - y : y \in T}
<1>1. \A y \in T : n - y \in Nat
  OBVIOUS
<1>2. D \subseteq Nat /\ D # {}
  BY <1>1
<1>3. Min(D) \in D /\ \A d \in D : Min(D) <= d
  BY <1>2, MinProperties
<1>4. PICK x \in T : Min(D) = n - x
  BY <1>3
<1>5. \A y \in T : n - x <= n - y
  BY <1>3, <1>4
<1>6. \A y \in T : x >= y
  BY <1>5
<1>. QED BY <1>6 DEF Max

-----------------------------------------------------------------------------
(* Sequences, whatever their elements are *)

LEMMA AppendProperties ==
  ASSUME NEW T, NEW s \in Seq(T), NEW e
  PROVE  /\ Append(s, e) \in Seq(T \cup {e})
         /\ Len(s) \in Nat
         /\ Len(Append(s, e)) = Len(s) + 1
         /\ \A i \in 1..Len(s) : Append(s, e)[i] = s[i]
         /\ Append(s, e)[Len(s) + 1] = e
<1>1. s \in Seq(T \cup {e})
  OBVIOUS
<1>. QED BY <1>1

LEMMA TailProperties ==
  ASSUME NEW T, NEW s \in Seq(T), s # <<>>
  PROVE  /\ Tail(s) \in Seq(T)
         /\ Len(s) \in Nat \ {0}
         /\ Len(Tail(s)) = Len(s) - 1
         /\ \A i \in 1..(Len(s) - 1) : Tail(s)[i] = s[i + 1]
         /\ Head(s) = s[1]
OBVIOUS

-----------------------------------------------------------------------------
(* What get_batched_prompt takes, and how far it draws for it *)

LEMMA BatchEndsProperties == All \in BatchEnds /\ BatchEnds \subseteq 1..All
<1>1. /\ Epochs \in Nat \ {0} /\ Size \in Nat \ {0} /\ FetchBatch \in Nat \ {0}
  BY ConstantsAssumption DEF ConstantsOK
<1>2. All = (Epochs - 1) * Size + Size
  BY <1>1 DEF All
<1>3. Size * FetchBatch >= Size
  BY <1>1
<1>4. Smaller(Size * FetchBatch, Size) = Size
  BY <1>1, <1>3 DEF Smaller
<1>5. All \in BatchEnds
  <2>1. Epochs - 1 \in 0..(Epochs - 1) /\ Size \in 1..Size
    BY <1>1
  <2>. QED BY <1>2, <1>4, <2>1 DEF BatchEnds
<1>6. ASSUME NEW e \in 0..(Epochs - 1), NEW k \in 1..Size
      PROVE  e * Size + Smaller(k * FetchBatch, Size) \in 1..All
  <2>1. k * FetchBatch >= 1 /\ k * FetchBatch \in Nat
    BY <1>1
  <2>2. Smaller(k * FetchBatch, Size) \in 1..Size
    BY <1>1, <2>1 DEF Smaller
  <2>3. e * Size <= (Epochs - 1) * Size /\ e * Size \in Nat
    BY <1>1
  <2>4. (Epochs - 1) * Size \in Nat
    BY <1>1
  <2>. QED BY <1>1, <1>2, <2>2, <2>3, <2>4
<1>. QED BY <1>5, <1>6 DEF BatchEnds

\* An answer is no larger than what was asked for.
LEMMA PickIsBounded ==
  ASSUME NEW r, NEW n \in Nat, NEW S, S \subseteq Own(r), S \subseteq 1..All, Pick(S, r, n)
  PROVE  IsFiniteSet(S) /\ Cardinality(S) \in Nat /\ Cardinality(S) <= n
<1>1. IsFiniteSet(S) /\ Cardinality(S) \in Nat
  <2>1. IsFiniteSet(1..All)
    BY AllType, FS_Interval
  <2>. QED BY <2>1, FS_Subset, FS_CardinalityType
<1>2. CASE S = {}
  BY <1>1, <1>2, FS_EmptySet
<1>3. CASE S # {}
  <2>1. Max(S) \in S /\ \A y \in S : y <= Max(S)
    BY <1>3, AllType, MaxProperties
  <2>2. Cardinality({j \in S : j < Max(S)}) < n
    BY <2>1 DEF Pick
  <2>3. {j \in S : j < Max(S)} = S \ {Max(S)}
    <3>. DEFINE m == Max(S)
    <3>0. m \in S
      BY <2>1
    <3>. HIDE DEF m
    <3>1. /\ \A j \in S : j \in Int
          /\ m \in Int
      BY <3>0, AllType
    <3>2. \A j \in S : j <= m
      BY <2>1 DEF m
    <3>3. \A j \in S : j < m <=> j # m
      BY <3>1, <3>2
    <3>4. {j \in S : j < m} = S \ {m}
      BY <3>3
    <3>. QED BY <3>4 DEF m
  <2>4. Cardinality(S \ {Max(S)}) = Cardinality(S) - 1
    BY <1>1, <2>1, FS_RemoveElement
  <2>5. Cardinality(S) - 1 < n
    BY <2>2, <2>3, <2>4
  <2>. QED BY <1>1, <2>5
<1>. QED BY <1>2, <1>3

\* The dataloader goes on from where it stands, and far enough for the answer.
LEMMA DrawnForCovers ==
  ASSUME drawn \in 0..All,
         NEW r, NEW n \in Nat, NEW S, S \subseteq Own(r), S \subseteq 1..All, Pick(S, r, n)
  PROVE  DrawnFor(S, n) \in drawn..All /\ S \subseteq 1..DrawnFor(S, n)
<1>. DEFINE X == {i \in S : i <= drawn}
<1>1. IsFiniteSet(S) /\ Cardinality(S) \in Nat /\ Cardinality(S) <= n
  BY PickIsBounded
<1>2. /\ Cardinality(X) \in Nat /\ Cardinality(X) <= Cardinality(S)
      /\ Cardinality(X) = Cardinality(S) => X = S
  <2>1. X \subseteq S
    OBVIOUS
  <2>2. IsFiniteSet(X)
    BY <1>1, <2>1, FS_Subset
  <2>. HIDE DEF X
  <2>. QED BY <1>1, <2>1, <2>2, FS_Subset, FS_CardinalityType
<1>3. CASE Cardinality(X) = n
  <2>1. X = S
    BY <1>1, <1>2, <1>3
  <2>2. S \subseteq 1..drawn
    BY <2>1
  <2>3. DrawnFor(S, n) = drawn
    BY <1>3 DEF DrawnFor
  <2>. QED BY <2>2, <2>3, AllType
<1>4. CASE Cardinality(X) # n /\ Cardinality(S) = n
  <2>. DEFINE E == {d \in BatchEnds : d >= Max(S)}
  <2>1. X # S
    BY <1>4
  <2>2. PICK i \in S : i > drawn
    <3>1. PICK i \in S : ~(i <= drawn)
      BY <2>1
    <3>2. i \in Int /\ drawn \in Int
      BY AllType
    <3>. QED BY <3>1, <3>2
  <2>3. Max(S) \in S /\ \A y \in S : y <= Max(S)
    BY <2>2, AllType, MaxProperties
  <2>4. Max(S) \in 1..All /\ drawn < Max(S)
    <3>1. Max(S) \in 1..All /\ i <= Max(S) /\ i \in 1..All
      BY <2>2, <2>3
    <3>. QED BY <2>2, <3>1, AllType
  <2>5. E \subseteq Nat /\ All \in E
    <3>1. All >= Max(S)
      BY <2>4, AllType
    <3>2. \A d \in E : d \in 1..All
      BY BatchEndsProperties
    <3>3. All \in E
      BY <3>1, BatchEndsProperties
    <3>4. 1..All \subseteq Nat
      BY AllType
    <3>. QED BY <3>2, <3>3, <3>4
  <2>6. Min(E) \in E
    BY <2>5, MinProperties
  <2>7. Min(E) \in 1..All /\ Max(S) <= Min(E)
    BY <2>6, BatchEndsProperties
  <2>8. DrawnFor(S, n) = Min(E)
    BY <1>4 DEF DrawnFor
  <2>. HIDE DEF E
  <2>. QED BY <2>3, <2>4, <2>7, <2>8, AllType
<1>5. CASE Cardinality(X) # n /\ Cardinality(S) # n
  <2>1. DrawnFor(S, n) = All
    BY <1>5 DEF DrawnFor, All
  <2>. QED BY <2>1, AllType
<1>. QED BY <1>3, <1>4, <1>5
-----------------------------------------------------------------------------
(* The batches of a rollout that have no prompt in common *)

\* The prompts of a reward queue.
Waiting(q) == UNION {b.prompts : b \in {q[k] : k \in 1..Len(q)}}

\* No two batches of a reward queue, and none and the held batch, share a prompt.
Apart(pq, q) ==
  \A k \in 1..Len(q) :
    /\ q[k].prompts \cap pq = {}
    /\ \A m \in 1..(k - 1) : q[k].prompts \cap q[m].prompts = {}

LEMMA WaitingIsIndexed ==
  ASSUME NEW q, NEW x
  PROVE  x \in Waiting(q) <=> \E k \in 1..Len(q) : x \in q[k].prompts
BY DEF Waiting

LEMMA AppendApart ==
  ASSUME NEW T, NEW q \in Seq(T), NEW pq, NEW e,
         Apart(pq, q), e.prompts \cap Waiting(q) = {}
  PROVE  /\ Apart({}, Append(q, e))
         /\ Waiting(Append(q, e)) = Waiting(q) \cup e.prompts
<1>. DEFINE longer == Append(q, e)
            S == e.prompts
<1>1. /\ Len(q) \in Nat /\ Len(longer) = Len(q) + 1
      /\ \A i \in 1..Len(q) : longer[i] = q[i]
      /\ longer[Len(q) + 1] = e
  BY AppendProperties
<1>2. longer[Len(q) + 1].prompts = S /\ S \cap Waiting(q) = {}
  BY <1>1
<1>. HIDE DEF longer, S
<1>3. \A i \in 1..Len(q) : q[i].prompts \cap S = {}
  BY <1>2, WaitingIsIndexed
<1>4. \A i \in 1..Len(longer) : i \in 1..Len(q) \/ i = Len(q) + 1
  BY <1>1
<1>5. \A i \in 1..Len(q) : i \in 1..Len(longer) /\ Len(q) + 1 \in 1..Len(longer)
  BY <1>1
<1>6. Apart({}, longer)
  <2>1. ASSUME NEW k \in 1..Len(longer), NEW m \in 1..(k - 1)
        PROVE  longer[k].prompts \cap longer[m].prompts = {}
    <3>1. m \in 1..Len(q)
      BY <1>1
    <3>2. CASE k \in 1..Len(q)
      BY <1>1, <3>1, <3>2 DEF Apart
    <3>3. CASE k = Len(q) + 1
      BY <1>1, <1>2, <1>3, <3>1, <3>3
    <3>. QED BY <1>4, <3>2, <3>3
  <2>. QED BY <2>1 DEF Apart
<1>7. Waiting(longer) = Waiting(q) \cup S
  <2>1. ASSUME NEW x \in Waiting(longer) PROVE x \in Waiting(q) \cup S
    BY <1>1, <1>2, <1>4, WaitingIsIndexed
  <2>2. ASSUME NEW x \in Waiting(q) PROVE x \in Waiting(longer)
    BY <1>1, <1>5, WaitingIsIndexed
  <2>3. ASSUME NEW x \in S PROVE x \in Waiting(longer)
    <3>1. Len(q) + 1 \in 1..Len(longer)
      BY <1>1
    <3>. QED BY <1>2, <3>1, WaitingIsIndexed
  <2>. QED BY <2>1, <2>2, <2>3
<1>. QED BY <1>6, <1>7 DEF longer, S

LEMMA TailApart ==
  ASSUME NEW T, NEW q \in Seq(T), q # <<>>, NEW pq, Apart(pq, q)
  PROVE  /\ Apart(pq, Tail(q))
         /\ Waiting(Tail(q)) = Waiting(q) \ Head(q).prompts
         /\ Head(q).prompts \subseteq Waiting(q)
         /\ Head(q).prompts \cap pq = {}
<1>. DEFINE rest == Tail(q)
<1>1. /\ Len(q) \in Nat \ {0} /\ Len(rest) = Len(q) - 1
      /\ \A i \in 1..(Len(q) - 1) : rest[i] = q[i + 1]
      /\ Head(q) = q[1]
  BY TailProperties
<1>. HIDE DEF rest
<1>2. \A i \in 1..Len(rest) : i + 1 \in 1..Len(q) /\ rest[i] = q[i + 1] /\ 1 \in 1..i
  BY <1>1
<1>3. Apart(pq, rest)
  <2>1. ASSUME NEW k \in 1..Len(rest), NEW m \in 1..(k - 1)
        PROVE  rest[k].prompts \cap rest[m].prompts = {}
    <3>1. m \in 1..Len(rest) /\ m + 1 \in 1..((k + 1) - 1)
      BY <1>1
    <3>. QED BY <1>2, <3>1 DEF Apart
  <2>2. ASSUME NEW k \in 1..Len(rest) PROVE rest[k].prompts \cap pq = {}
    BY <1>2 DEF Apart
  <2>. QED BY <2>1, <2>2 DEF Apart
<1>4. ASSUME NEW x \in Waiting(rest) PROVE x \in Waiting(q) /\ x \notin q[1].prompts
  <2>1. PICK k \in 1..Len(rest) : x \in rest[k].prompts
    BY WaitingIsIndexed
  <2>2. x \in q[k + 1].prompts /\ k + 1 \in 1..Len(q) /\ 1 \in 1..((k + 1) - 1)
    BY <1>2, <2>1
  <2>. QED BY <2>2, WaitingIsIndexed DEF Apart
<1>5. 1 \in 1..Len(q)
  BY <1>1
<1>6. q[1].prompts \subseteq Waiting(q) /\ q[1].prompts \cap pq = {}
  BY <1>5, WaitingIsIndexed DEF Apart
<1>7. ASSUME NEW x \in Waiting(q), x \notin q[1].prompts PROVE x \in Waiting(rest)
  <2>1. PICK k \in 1..Len(q) : x \in q[k].prompts
    BY WaitingIsIndexed
  <2>2. k # 1
    BY <1>7, <2>1
  <2>3. k - 1 \in 1..Len(rest) /\ rest[k - 1] = q[(k - 1) + 1] /\ (k - 1) + 1 = k
    BY <1>1, <2>2
  <2>. QED BY <2>1, <2>3, WaitingIsIndexed
<1>. QED BY <1>1, <1>3, <1>4, <1>6, <1>7 DEF rest
-----------------------------------------------------------------------------
(* The inductive invariant *)

\* The dataloader is within its epochs, the queues are sequences of batches, the samples of a
\* buffer are of drawn prompts, and no prompt is in two places.
DispatchInv ==
  /\ drawn \in 0..All
  /\ DOMAIN rewardQueue = Rollouts /\ DOMAIN promptQueue = Rollouts
  /\ \A r \in Rollouts : \E T : rewardQueue[r] \in Seq(T)
  /\ \A p \in Policies : \A x \in buffer[p] : x.at \in 1..drawn
  /\ PromptsAreSeparate

LEMMA AtRolloutForm ==
  \A r : AtRollout(r) = promptQueue[r].prompts \cup Waiting(rewardQueue[r])
BY DEF AtRollout, Batches, Waiting

LEMMA InitSeparates == Init => DispatchInv
<1>. SUFFICES ASSUME Init PROVE DispatchInv
  OBVIOUS
<1>1. drawn \in 0..All
  BY AllType DEF Init
<1>2. DOMAIN rewardQueue = Rollouts /\ DOMAIN promptQueue = Rollouts
  BY DEF Init
<1>3. \A r \in Rollouts : rewardQueue[r] = <<>> /\ promptQueue[r].prompts = {}
  BY DEF Init, NoPrompts
<1>4. \A r \in Rollouts : rewardQueue[r] \in Seq({}) /\ Len(rewardQueue[r]) = 0
  <2>1. <<>> \in Seq({}) /\ Len(<<>>) = 0
    OBVIOUS
  <2>. QED BY <1>3, <2>1, Zenon
<1>5. \A r \in Rollouts : AtRollout(r) = {}
  <2>1. \A r \in Rollouts : Waiting(rewardQueue[r]) = {}
    BY <1>4 DEF Waiting
  <2>. QED BY <1>3, <2>1, AtRolloutForm
<1>6. \A p \in Policies : buffer[p] = {}
  BY DEF Init
<1>7. PromptsAreSeparate
  <2>2. held = {}
    BY DEF Init
  <2>. QED BY <1>3, <1>4, <1>5, <1>6, <2>2 DEF PromptsAreSeparate
<1>. QED BY <1>1, <1>2, <1>4, <1>6, <1>7 DEF DispatchInv

LEMMA RequestedType == Requested \in Nat
BY ConstantsAssumption DEF ConstantsOK, Requested, Smaller

\* The prompts S come to r, from those in held and those newly drawn.
Takes(r, S) ==
  /\ S \subseteq 1..All /\ S \cap ((1..drawn) \ held) = {}
  /\ drawn' \in drawn..All /\ S \subseteq 1..drawn'
  /\ held' = (held \cup {i \in 1..All : drawn < i /\ i <= drawn'}) \ S
  /\ DOMAIN rewardQueue' = Rollouts /\ DOMAIN promptQueue' = Rollouts
  /\ \A s \in Rollouts \ {r} :
       rewardQueue'[s] = rewardQueue[s] /\ promptQueue'[s] = promptQueue[s]
  /\ \E U : rewardQueue'[r] \in Seq(U)
  /\ Apart(promptQueue'[r].prompts, rewardQueue'[r])
  /\ AtRollout(r)' = AtRollout(r) \cup S
  /\ \A s \in Rollouts \ {r} : AtRollout(s)' = AtRollout(s)

LEMMA FetchMoves ==
  ASSUME DispatchInv, NEW r \in Rollouts, Fetch(r)
  PROVE  \E S : Takes(r, S) /\ samplesOnTheFly' = samplesOnTheFly + Cardinality(S) * NGen
<1>. DEFINE n == Requested
<1>1. PICK S \in SUBSET Own(r) :
        /\ Pick(S, r, n)
        /\ drawn' = DrawnFor(S, n)
        /\ held' = Left(S, DrawnFor(S, n))
        /\ samplesOnTheFly' = samplesOnTheFly + Cardinality(S) * NGen
        /\ \/ /\ Generate(r, S)
              /\ UNCHANGED promptQueue
           \/ /\ promptQueue' = [promptQueue EXCEPT ![r] = [tag |-> FirstTag, prompts |-> S]]
              /\ UNCHANGED rewardQueue
           \/ /\ S = {}
              /\ UNCHANGED <<promptQueue, rewardQueue>>
  BY DEF Fetch
<1>2. promptQueue[r].prompts = {} /\ buffer' = buffer
  BY DEF Fetch, trainVars
<1>3. drawn \in 0..All /\ held \subseteq 1..drawn
  BY DEF DispatchInv, PromptsAreSeparate
<1>4. S \subseteq 1..All /\ S \cap ((1..drawn) \ held) = {}
  <2>1. \A i \in Own(r) : i \in held \/ (i \in 1..All /\ i > drawn)
    BY DEF Own, Prompts, All
  <2>2. 1..drawn \subseteq 1..All
    BY <1>3, AllType
  <2>3. \A i \in S : i \in held \/ (i \in 1..All /\ i > drawn)
    BY <2>1
  <2>4. \A i \in 1..drawn : ~(i > drawn)
    BY <1>3, AllType
  <2>. QED BY <1>3, <2>2, <2>3, <2>4
<1>5. n \in Nat
  BY RequestedType
<1>. HIDE DEF n
<1>6. drawn' \in drawn..All /\ S \subseteq 1..drawn'
  BY <1>1, <1>3, <1>4, <1>5, DrawnForCovers
<1>7. held' = (held \cup {i \in 1..All : drawn < i /\ i <= drawn'}) \ S
  BY <1>1 DEF Left, Prompts, All
<1>9. \A s \in Rollouts :
        /\ AtRollout(s) \subseteq (1..drawn) \ held
        /\ S \cap AtRollout(s) = {}
        /\ Apart(promptQueue[s].prompts, rewardQueue[s])
  BY <1>4 DEF DispatchInv, PromptsAreSeparate, Apart
<1>10. S \cap Waiting(rewardQueue[r]) = {}
  BY <1>9, AtRolloutForm
<1>11. /\ DOMAIN rewardQueue' = Rollouts /\ DOMAIN promptQueue' = Rollouts
       /\ \A s \in Rollouts \ {r} :
            rewardQueue'[s] = rewardQueue[s] /\ promptQueue'[s] = promptQueue[s]
  BY <1>1 DEF DispatchInv, Generate
<1>12. PICK T : rewardQueue[r] \in Seq(T)
  BY DEF DispatchInv
<1>13. /\ \E U : rewardQueue'[r] \in Seq(U)
       /\ Apart(promptQueue'[r].prompts, rewardQueue'[r])
       /\ promptQueue'[r].prompts \cup Waiting(rewardQueue'[r]) = AtRollout(r) \cup S
  <2>1. CASE Generate(r, S) /\ UNCHANGED promptQueue
    <3>. DEFINE e == [version |-> weightVersion[r], prompts |-> S]
    <3>1. rewardQueue'[r] = Append(rewardQueue[r], e)
      BY <2>1 DEF Generate, DispatchInv
    <3>2. rewardQueue'[r] \in Seq(T \cup {e})
      <4>. HIDE DEF e
      <4>. QED BY <1>12, <3>1, AppendProperties
    <3>3. /\ Apart({}, rewardQueue'[r])
          /\ Waiting(rewardQueue'[r]) = Waiting(rewardQueue[r]) \cup S
      <4>1. Apart(promptQueue[r].prompts, rewardQueue[r])
        BY <1>9
      <4>2. e.prompts = S
        OBVIOUS
      <4>3. e.prompts \cap Waiting(rewardQueue[r]) = {}
        BY <1>10, <4>2
      <4>. HIDE DEF e
      <4>4. /\ Apart({}, Append(rewardQueue[r], e))
            /\ Waiting(Append(rewardQueue[r], e)) = Waiting(rewardQueue[r]) \cup e.prompts
        BY <1>12, <4>1, <4>3, AppendApart, Zenon
      <4>. QED BY <3>1, <4>2, <4>4
    <3>. QED BY <1>2, <2>1, <3>2, <3>3, AtRolloutForm
  <2>2. CASE /\ promptQueue' = [promptQueue EXCEPT ![r] = [tag |-> FirstTag, prompts |-> S]]
             /\ UNCHANGED rewardQueue
    <3>1. promptQueue'[r].prompts = S
      BY <2>2 DEF DispatchInv
    <3>2. Apart(S, rewardQueue[r])
      BY <1>9, <1>10, WaitingIsIndexed DEF Apart
    <3>. QED BY <1>2, <1>12, <2>2, <3>1, <3>2, AtRolloutForm
  <2>3. CASE S = {} /\ UNCHANGED <<promptQueue, rewardQueue>>
    BY <1>9, <1>12, <2>3, AtRolloutForm
  <2>. QED BY <1>1, <2>1, <2>2, <2>3
<1>14. AtRollout(r)' = AtRollout(r) \cup S
  BY <1>13 DEF AtRollout, Batches, Waiting
<1>15. \A s \in Rollouts \ {r} : AtRollout(s)' = AtRollout(s)
  BY <1>11 DEF AtRollout, Batches
<1>. QED BY <1>1, <1>4, <1>6, <1>7, <1>11, <1>13, <1>14, <1>15 DEF Takes

LEMMA FetchSeparates ==
  ASSUME DispatchInv, NEW r \in Rollouts, Fetch(r)
  PROVE  DispatchInv'
<1>. USE DEF Takes
<1>1. PICK S : Takes(r, S)
  BY FetchMoves
<1>2. buffer' = buffer
  BY DEF Fetch, trainVars
<1>3. drawn \in 0..All /\ held \subseteq 1..drawn
  BY DEF DispatchInv, PromptsAreSeparate
<1>4. /\ drawn' \in 0..All
      /\ held' \subseteq 1..drawn'
      /\ (1..drawn) \ held \subseteq (1..drawn') \ held'
      /\ S \subseteq (1..drawn') \ held'
      /\ held' \cap ((1..drawn) \ held) = {}
  <2>1. drawn' \in 0..All /\ drawn <= drawn'
    BY <1>3, <1>1, AllType
  <2>2. 1..drawn \subseteq 1..drawn'
    BY <1>3, <2>1, AllType
  <2>3. {i \in 1..All : drawn < i /\ i <= drawn'} \subseteq (1..drawn') \ (1..drawn)
    BY <1>3, <2>1, AllType
  <2>4. S \subseteq 1..drawn'
    BY <1>1
  <2>. QED BY <1>1, <1>3, <2>1, <2>2, <2>3, <2>4
<1>5. \A s \in Rollouts :
        /\ AtRollout(s) \subseteq (1..drawn) \ held
        /\ S \cap AtRollout(s) = {}
        /\ Apart(promptQueue[s].prompts, rewardQueue[s])
  BY <1>1 DEF DispatchInv, PromptsAreSeparate, Apart
<1>6. \A s \in Rollouts : Apart(promptQueue'[s].prompts, rewardQueue'[s])
  BY <1>5, <1>1
<1>7. PromptsAreSeparate'
  <2>1. \A s \in Rollouts : AtRollout(s)' \subseteq (1..drawn') \ held'
    BY <1>4, <1>5, <1>1
  <2>2. \A s \in Rollouts : \A u \in Rollouts \ {s} : AtRollout(s)' \cap AtRollout(u)' = {}
    BY <1>5, <1>1 DEF DispatchInv, PromptsAreSeparate
  <2>3. \A s \in Rollouts : \A p \in Policies : \A x \in buffer[p] :
          x.at \notin held' \cup AtRollout(s)'
    <3>1. \A s \in Rollouts : \A p \in Policies : \A x \in buffer[p] :
            x.at \in (1..drawn) \ held /\ x.at \notin AtRollout(s)
      BY DEF DispatchInv, PromptsAreSeparate
    <3>2. \A p \in Policies : \A x \in buffer[p] : x.at \notin S
      BY <1>1, <3>1
    <3>. QED BY <1>4, <1>1, <3>1, <3>2
  <2>. QED BY <1>2, <1>4, <1>6, <2>1, <2>2, <2>3 DEF PromptsAreSeparate, Apart
<1>8. \A s \in Rollouts : \E U : rewardQueue'[s] \in Seq(U)
  BY <1>1 DEF DispatchInv
<1>9. \A p \in Policies : \A x \in buffer'[p] : x.at \in 1..drawn'
  <2>1. \A p \in Policies : \A x \in buffer[p] : x.at \in 1..drawn
    BY DEF DispatchInv
  <2>2. 1..drawn \subseteq 1..drawn'
    BY <1>3, <1>1, AllType
  <2>. QED BY <1>2, <2>1, <2>2
<1>. QED BY <1>1, <1>4, <1>7, <1>8, <1>9 DEF DispatchInv

LEMMA GenerateHeldMoves ==
  ASSUME DispatchInv, NEW r \in Rollouts, GenerateHeld(r)
  PROVE  /\ UNCHANGED <<drawn, held, buffer>>
         /\ DOMAIN rewardQueue' = Rollouts /\ DOMAIN promptQueue' = Rollouts
         /\ \A s \in Rollouts : AtRollout(s)' = AtRollout(s)
         /\ \A s \in Rollouts : Apart(promptQueue'[s].prompts, rewardQueue'[s])
         /\ \A s \in Rollouts : \E U : rewardQueue'[s] \in Seq(U)
<1>. DEFINE S == promptQueue[r].prompts
            e == [version |-> weightVersion[r], prompts |-> S]
<1>1. /\ rewardQueue' = [rewardQueue EXCEPT ![r] = Append(@, e)]
      /\ promptQueue' = [promptQueue EXCEPT ![r] = NoPrompts]
      /\ UNCHANGED <<drawn, held, buffer>>
  BY DEF GenerateHeld, Generate, fetcherVars, trainVars
<1>2. /\ DOMAIN rewardQueue' = Rollouts /\ DOMAIN promptQueue' = Rollouts
      /\ rewardQueue'[r] = Append(rewardQueue[r], e)
      /\ promptQueue'[r].prompts = {}
      /\ \A s \in Rollouts \ {r} :
           rewardQueue'[s] = rewardQueue[s] /\ promptQueue'[s] = promptQueue[s]
  BY <1>1 DEF DispatchInv, NoPrompts
<1>3. PICK T : rewardQueue[r] \in Seq(T)
  BY DEF DispatchInv
<1>4. \A s \in Rollouts : Apart(promptQueue[s].prompts, rewardQueue[s])
  BY DEF DispatchInv, PromptsAreSeparate, Apart
<1>5. S \cap Waiting(rewardQueue[r]) = {}
  BY <1>4, WaitingIsIndexed DEF Apart
<1>6. /\ Apart({}, Append(rewardQueue[r], e))
      /\ Waiting(Append(rewardQueue[r], e)) = Waiting(rewardQueue[r]) \cup S
  <2>1. Apart(S, rewardQueue[r])
    BY <1>4
  <2>2. e.prompts = S
    OBVIOUS
  <2>3. e.prompts \cap Waiting(rewardQueue[r]) = {}
    BY <1>5, <2>2
  <2>. HIDE DEF e, S
  <2>4. /\ Apart({}, Append(rewardQueue[r], e))
        /\ Waiting(Append(rewardQueue[r], e)) = Waiting(rewardQueue[r]) \cup e.prompts
    BY <1>3, <2>1, <2>3, AppendApart, Zenon
  <2>. QED BY <2>2, <2>4
<1>7. rewardQueue'[r] \in Seq(T \cup {e})
  <2>. HIDE DEF e
  <2>. QED BY <1>2, <1>3, AppendProperties
<1>8. promptQueue'[r].prompts \cup Waiting(rewardQueue'[r]) = AtRollout(r)
  BY <1>2, <1>6, AtRolloutForm
<1>9. \A s \in Rollouts : AtRollout(s)' = AtRollout(s)
  <2>1. AtRollout(r)' = AtRollout(r)
    BY <1>8 DEF AtRollout, Batches, Waiting
  <2>2. \A s \in Rollouts \ {r} : AtRollout(s)' = AtRollout(s)
    BY <1>2 DEF AtRollout, Batches
  <2>. QED BY <2>1, <2>2
<1>10. \A s \in Rollouts : Apart(promptQueue'[s].prompts, rewardQueue'[s])
  BY <1>2, <1>4, <1>6
<1>11. \A s \in Rollouts : \E U : rewardQueue'[s] \in Seq(U)
  BY <1>2, <1>7 DEF DispatchInv
<1>. QED BY <1>1, <1>2, <1>9, <1>10, <1>11

LEMMA GenerateHeldSeparates ==
  ASSUME DispatchInv, NEW r \in Rollouts, GenerateHeld(r)
  PROVE  DispatchInv'
<1>1. /\ UNCHANGED <<drawn, held, buffer>>
      /\ DOMAIN rewardQueue' = Rollouts /\ DOMAIN promptQueue' = Rollouts
      /\ \A s \in Rollouts : AtRollout(s)' = AtRollout(s)
      /\ \A s \in Rollouts : Apart(promptQueue'[s].prompts, rewardQueue'[s])
      /\ \A s \in Rollouts : \E U : rewardQueue'[s] \in Seq(U)
  BY GenerateHeldMoves
<1>2. PromptsAreSeparate'
  <2>1. PromptsAreSeparate
    BY DEF DispatchInv
  <2>. QED BY <1>1, <2>1 DEF PromptsAreSeparate, Apart
<1>. QED BY <1>1, <1>2 DEF DispatchInv

\* Every sample that a report puts into a buffer is of a prompt of the batch.
LEMMA SamplesAreOfBatch ==
  ASSUME NEW batch, NEW K, NEW p \in Policies, NEW s \in Samples(batch, K)[p]
  PROVE  s.at \in batch.prompts
BY DEF Samples

LEMMA ReportedBuffers ==
  ASSUME NEW r \in Rollouts, Report(r), NEW p \in Policies, NEW s \in buffer'[p]
  PROVE  s \in buffer[p] \/ s.at \in Head(rewardQueue[r]).prompts
<1>. DEFINE batch  == Head(rewardQueue[r])
            To(k)  == With(buffer, Samples(batch, 1..k))
            fresh  == FreshCount(batch.version, Cardinality(batch.prompts) * NGen)
            first  == Min({k \in 1..fresh : CanStart(status, To(k))})
            later  == Samples(batch, (first + 1)..fresh)
<1>1. \/ buffer' = To(fresh)
      \/ buffer' = [q \in Policies |-> (To(first)[q] \ NextOf(To(first)[q])) \cup later[q]]
  BY DEF Report, StartStep
<1>2. s \in To(fresh)[p] \/ s \in To(first)[p] \/ s \in later[p]
  BY <1>1
<1>3. \A k : To(k)[p] = buffer[p] \cup Samples(batch, 1..k)[p]
  BY DEF With
<1>. HIDE DEF batch, fresh, first
<1>. QED BY <1>2, <1>3, SamplesAreOfBatch DEF batch

\* The prompts of the oldest batch leave r.
Reports(r, S) ==
  /\ S = Head(rewardQueue[r]).prompts /\ rewardQueue[r] # <<>>
  /\ UNCHANGED <<drawn, held, promptQueue>>
  /\ DOMAIN rewardQueue' = Rollouts
  /\ \A s \in Rollouts : \E U : rewardQueue'[s] \in Seq(U)
  /\ \A s \in Rollouts : Apart(promptQueue'[s].prompts, rewardQueue'[s])
  /\ S \subseteq AtRollout(r) /\ AtRollout(r)' = AtRollout(r) \ S
  /\ \A s \in Rollouts \ {r} : AtRollout(s)' = AtRollout(s)

LEMMA ReportMoves ==
  ASSUME DispatchInv, NEW r \in Rollouts, Report(r)
  PROVE  \E S : Reports(r, S)
<1>. DEFINE q == rewardQueue[r]
            S == Head(q).prompts
<1>1. /\ rewardQueue[r] # <<>>
      /\ rewardQueue' = [rewardQueue EXCEPT ![r] = Tail(@)]
      /\ UNCHANGED <<drawn, held, promptQueue>>
  BY DEF Report, fetcherVars
<1>2. /\ DOMAIN rewardQueue' = Rollouts /\ DOMAIN promptQueue' = Rollouts
      /\ rewardQueue'[r] = Tail(q)
      /\ \A s \in Rollouts \ {r} : rewardQueue'[s] = rewardQueue[s]
  BY <1>1 DEF DispatchInv
<1>3. PICK T : q \in Seq(T)
  BY DEF DispatchInv
<1>4. \A s \in Rollouts : Apart(promptQueue[s].prompts, rewardQueue[s])
  BY DEF DispatchInv, PromptsAreSeparate, Apart
<1>5. /\ Apart(promptQueue[r].prompts, Tail(q))
      /\ Waiting(Tail(q)) = Waiting(q) \ S
      /\ S \subseteq Waiting(q)
      /\ S \cap promptQueue[r].prompts = {}
  BY <1>1, <1>3, <1>4, TailApart, Zenon
<1>6. Tail(q) \in Seq(T)
  BY <1>1, <1>3, TailProperties
<1>. HIDE DEF q
<1>7. S \subseteq AtRollout(r)
  BY <1>5, AtRolloutForm DEF q
<1>8. AtRollout(r)' = AtRollout(r) \ S
  <2>1. promptQueue'[r].prompts \cup Waiting(rewardQueue'[r]) = AtRollout(r) \ S
    BY <1>1, <1>2, <1>5, AtRolloutForm DEF q
  <2>. QED BY <2>1 DEF AtRollout, Batches, Waiting
<1>9. \A s \in Rollouts \ {r} : AtRollout(s)' = AtRollout(s)
  BY <1>1, <1>2 DEF AtRollout, Batches
<1>10. \A s \in Rollouts : Apart(promptQueue'[s].prompts, rewardQueue'[s])
  BY <1>1, <1>2, <1>4, <1>5
<1>11. \A s \in Rollouts : \E U : rewardQueue'[s] \in Seq(U)
  BY <1>2, <1>6 DEF DispatchInv
<1>. QED BY <1>1, <1>2, <1>7, <1>8, <1>9, <1>10, <1>11 DEF Reports, q

LEMMA ReportSeparates ==
  ASSUME DispatchInv, NEW r \in Rollouts, Report(r)
  PROVE  DispatchInv'
<1>. USE DEF Reports
<1>1. PICK S : Reports(r, S)
  BY ReportMoves
<1>2. \A p \in Policies : \A x \in buffer'[p] : x \in buffer[p] \/ x.at \in S
  BY <1>1, ReportedBuffers
<1>3. /\ held \subseteq 1..drawn
      /\ \A s \in Rollouts :
           /\ AtRollout(s) \subseteq (1..drawn) \ held
           /\ \A u \in Rollouts \ {s} : AtRollout(s) \cap AtRollout(u) = {}
           /\ \A p \in Policies : \A x \in buffer[p] : x.at \notin held \cup AtRollout(s)
  BY DEF DispatchInv, PromptsAreSeparate
<1>4. \A s \in Rollouts : S \cap (held \cup AtRollout(s)') = {}
  BY <1>1, <1>3
<1>5. \A s \in Rollouts : AtRollout(s)' \subseteq AtRollout(s)
  BY <1>1
<1>6. PromptsAreSeparate'
  <2>1. \A s \in Rollouts : \A u \in Rollouts \ {s} : AtRollout(s)' \cap AtRollout(u)' = {}
    BY <1>3, <1>5
  <2>2. \A s \in Rollouts : \A p \in Policies : \A x \in buffer'[p] :
          x.at \notin held \cup AtRollout(s)'
    BY <1>2, <1>3, <1>4, <1>5
  <2>. QED BY <1>1, <1>3, <1>5, <2>1, <2>2 DEF PromptsAreSeparate, Apart
<1>7. \A p \in Policies : \A x \in buffer'[p] : x.at \in 1..drawn
  BY <1>1, <1>2, <1>3 DEF DispatchInv
<1>. QED BY <1>1, <1>6, <1>7 DEF DispatchInv

\* The other steps move no prompt and put nothing into a buffer.
LEMMA StillSeparate ==
  ASSUME DispatchInv,
         UNCHANGED <<drawn, held, promptQueue, rewardQueue>>,
         \A p \in Policies : buffer'[p] \subseteq buffer[p]
  PROVE  DispatchInv'
<1>1. \A r \in Rollouts : AtRollout(r)' = AtRollout(r)
  BY DEF AtRollout, Batches
<1>2. PromptsAreSeparate'
  BY <1>1 DEF DispatchInv, PromptsAreSeparate
<1>. QED BY <1>2 DEF DispatchInv

LEMMA TrainAckTakes ==
  ASSUME NEW q \in Policies, TrainAck(q), NEW p \in Policies
  PROVE  buffer'[p] \subseteq buffer[p]
<1>1. \/ buffer' = buffer
      \/ buffer' = [x \in Policies |-> (buffer[x] \ NextOf(buffer[x])) \cup {}]
  BY DEF TrainAck, StartStep
<1>. QED BY <1>1

LEMMA NextSeparates ==
  ASSUME DispatchInv, [Next]_vars
  PROVE  DispatchInv'
<1>1. CASE \E r \in Rollouts : Fetch(r)
  BY <1>1, FetchSeparates
<1>2. CASE \E r \in Rollouts : GenerateHeld(r)
  BY <1>2, GenerateHeldSeparates
<1>3. CASE \E r \in Rollouts : Leave(r)
  BY <1>3, StillSeparate DEF Leave, fetcherVars, trainVars
<1>4. CASE \E r \in Rollouts : Report(r)
  BY <1>4, ReportSeparates
<1>5. CASE \E r \in Rollouts : SendEndSignal(r)
  <2>1. UNCHANGED <<drawn, held, promptQueue, rewardQueue, buffer>>
    BY <1>5 DEF SendEndSignal, fetcherVars, trainVars
  <2>. QED BY <2>1, StillSeparate
<1>6. CASE \E p \in Policies : TrainAck(p)
  <2>1. UNCHANGED <<drawn, held, promptQueue, rewardQueue>>
    BY <1>6 DEF TrainAck, fetcherVars, rolloutVars
  <2>2. \A p \in Policies : buffer'[p] \subseteq buffer[p]
    BY <1>6, TrainAckTakes
  <2>. QED BY <2>1, <2>2, StillSeparate
<1>7. CASE Broadcast
  BY <1>7, StillSeparate DEF Broadcast, fetcherVars, trainVars
<1>8. CASE UNCHANGED vars
  BY <1>8, StillSeparate DEF vars, fetcherVars, trainVars, rolloutVars
<1>. QED BY <1>1, <1>2, <1>3, <1>4, <1>5, <1>6, <1>7, <1>8 DEF Next

-----------------------------------------------------------------------------
(* A prompt is in one place *)

\* get_batched_prompt gives a prompt of the dataset to one rollout, once per epoch, and
\* forgets none that it draws for another rollout or leaves over in fetched_data_buffer;
\* the samples of a prompt are in a buffer only after its rollout has reported it.
THEOREM DispatchIsExclusive == Spec => []PromptsAreSeparate
<1>1. DispatchInv /\ [Next]_vars => DispatchInv'
  BY NextSeparates
<1>2. DispatchInv => PromptsAreSeparate
  BY DEF DispatchInv
<1>. QED BY InitSeparates, <1>1, <1>2, PTL DEF Spec

-----------------------------------------------------------------------------
(* Counting samples *)

LEMMA Parameters ==
  /\ {NumPolicies, NumRollouts, Size, Epochs, TrainBatch, NGen, FetchBatch, SyncInterval}
       \subseteq Nat \ {0}
  /\ GlobalBatch \in Nat \ {0} /\ GlobalBatch = TrainBatch * NumPolicies
  /\ Quota \in Nat /\ PromptsPerVersion \in Nat
  /\ IsFiniteSet(Policies) /\ Cardinality(Policies) = NumPolicies
  /\ IsFiniteSet(Rollouts)
  /\ Prompts = 1..All /\ MaxVersion \in Nat
<1>1. /\ {NumPolicies, NumRollouts, Size, Epochs, TrainBatch, NGen, FetchBatch, SyncInterval}
           \subseteq Nat \ {0}
      /\ MaxVersion \in Nat
  BY ConstantsAssumption DEF ConstantsOK
<1>2. \A a, b \in Nat \ {0} : a * b \in Nat \ {0}
  OBVIOUS
<1>3. GlobalBatch \in Nat \ {0}
  BY <1>1, <1>2 DEF GlobalBatch
<1>4. \A a, b \in Nat \ {0} : (a + b - 1) \div b \in Nat
  OBVIOUS
<1>5. Quota \in Nat /\ PromptsPerVersion \in Nat
  BY <1>1, <1>3, <1>4 DEF Quota, PromptsPerVersion
<1>6. IsFiniteSet(Policies) /\ Cardinality(Policies) = NumPolicies
  <2>1. 0 \in Int /\ NumPolicies - 1 \in Int /\ ~(0 > NumPolicies - 1) /\ NumPolicies - 1 - 0 + 1 = NumPolicies
    BY <1>1
  <2>. QED BY <2>1, FS_Interval DEF Policies
<1>7. IsFiniteSet(Rollouts)
  BY <1>1, FS_Interval DEF Rollouts
<1>. QED BY <1>1, <1>3, <1>5, <1>6, <1>7 DEF GlobalBatch, Prompts, All

\* How many samples wait in the buffers b.
Stored(b) == SumFunction([p \in Policies |-> Cardinality(b[p])])

LEMMA StoredType ==
  ASSUME NEW b, \A p \in Policies : IsFiniteSet(b[p])
  PROVE  Stored(b) \in Nat /\ [p \in Policies |-> Cardinality(b[p])] \in [Policies -> Int]
<1>. DEFINE f == [p \in Policies |-> Cardinality(b[p])]
<1>1. f \in [Policies -> Nat] /\ f \in [Policies -> Int]
  BY FS_CardinalityType
<1>. HIDE DEF f
<1>2. SumFunction(f) \in Nat
  BY <1>1, Parameters, SumNat
<1>. QED BY <1>1, <1>2 DEF f, Stored

\* Samples that are added to the buffers.
LEMMA StoredAdds ==
  ASSUME NEW b, NEW c, NEW d,
         \A p \in Policies : /\ IsFiniteSet(b[p]) /\ IsFiniteSet(c[p]) /\ b[p] \cap c[p] = {}
                             /\ d[p] = b[p] \cup c[p]
  PROVE  /\ \A p \in Policies : IsFiniteSet(d[p])
         /\ Stored(d) = Stored(b) + Stored(c)
<1>. DEFINE F(x) == [p \in Policies |-> Cardinality(x[p])]
<1>0. /\ \A p \in Policies : IsFiniteSet(b[p])
      /\ \A p \in Policies : IsFiniteSet(c[p])
  OBVIOUS
<1>1. \A p \in Policies : IsFiniteSet(d[p]) /\ Cardinality(d[p]) = Cardinality(b[p]) + Cardinality(c[p])
  BY DisjointUnion
<1>2. F(b) \in [Policies -> Int] /\ F(c) \in [Policies -> Int] /\ F(d) \in [Policies -> Int]
  BY <1>0, <1>1, StoredType
<1>3. \A p \in Policies : F(d)[p] = F(b)[p] + F(c)[p] - 0
  <2>1. \A p \in Policies : Cardinality(b[p]) \in Nat /\ Cardinality(c[p]) \in Nat
    BY FS_CardinalityType
  <2>. QED BY <1>1, <2>1
<1>4. Stored(d) = SumFunction(F(d)) /\ Stored(b) = SumFunction(F(b)) /\ Stored(c) = SumFunction(F(c))
  BY DEF Stored
<1>. HIDE DEF F
<1>5. SumFunction(F(d)) = SumFunction(F(b)) + SumFunction(F(c)) - 0 * Cardinality(Policies)
  <2>1. 0 \in Int /\ IsFiniteSet(Policies)
    BY Parameters
  <2>. QED BY <1>2, <1>3, <2>1, SumLinear
<1>6. Stored(b) \in Int /\ Stored(c) \in Int /\ 0 * Cardinality(Policies) = 0
  BY <1>0, Parameters, StoredType
<1>. QED BY <1>1, <1>4, <1>5, <1>6

\* A batch that is taken out of every buffer.
LEMMA StoredTakes ==
  ASSUME NEW b, NEW c, NEW d,
         \A p \in Policies : /\ IsFiniteSet(b[p]) /\ c[p] \in SUBSET b[p]
                             /\ Cardinality(c[p]) = TrainBatch /\ d[p] = b[p] \ c[p]
  PROVE  /\ \A p \in Policies : IsFiniteSet(d[p])
         /\ Stored(d) = Stored(b) - GlobalBatch
<1>. DEFINE F(x) == [p \in Policies |-> Cardinality(x[p])]
            zero == [p \in Policies |-> 0]
<1>0. \A p \in Policies : IsFiniteSet(b[p])
  OBVIOUS
<1>1. \A p \in Policies : IsFiniteSet(d[p]) /\ Cardinality(d[p]) = Cardinality(b[p]) - TrainBatch
  <2>1. ASSUME NEW p \in Policies
        PROVE  IsFiniteSet(b[p] \ c[p]) /\ Cardinality(b[p] \ c[p]) = Cardinality(b[p]) - TrainBatch
    <3>1. b[p] \cap c[p] = c[p] /\ Cardinality(c[p]) = TrainBatch
      OBVIOUS
    <3>2. IsFiniteSet(b[p] \ c[p]) /\ Cardinality(b[p] \ c[p]) = Cardinality(b[p]) - Cardinality(b[p] \cap c[p])
      BY <1>0, FS_Difference
    <3>. QED BY <3>1, <3>2
  <2>. QED BY <2>1
<1>2. F(b) \in [Policies -> Int] /\ F(d) \in [Policies -> Int] /\ zero \in [Policies -> Int]
  BY <1>0, <1>1, StoredType
<1>3. \A p \in Policies : F(d)[p] = F(b)[p] + zero[p] - TrainBatch
  <2>1. \A p \in Policies : Cardinality(b[p]) \in Nat
    BY FS_CardinalityType
  <2>. QED BY <1>1, <2>1, Parameters
<1>4. SumFunction(zero) = 0
  <2>1. \A p \in Policies : zero[p] = 0
    OBVIOUS
  <2>. HIDE DEF zero
  <2>. QED BY <1>2, <2>1, Parameters, SumZero
<1>5. Stored(d) = SumFunction(F(d)) /\ Stored(b) = SumFunction(F(b))
  BY DEF Stored
<1>. HIDE DEF F, zero
<1>6. SumFunction(F(d)) = SumFunction(F(b)) + SumFunction(zero) - TrainBatch * Cardinality(Policies)
  <2>1. TrainBatch \in Int /\ IsFiniteSet(Policies)
    BY Parameters
  <2>. QED BY <1>2, <1>3, <2>1, SumLinear
<1>7. Stored(b) \in Int
  BY <1>0, StoredType
<1>. QED BY <1>1, <1>4, <1>5, <1>6, <1>7, Parameters

\* k = a * n + m with m in 1..n, in one way only.
LEMMA Places ==
  ASSUME NEW n \in Nat \ {0}
  PROVE  /\ \A a, b \in Nat : \A l, m \in 1..n : a * n + l = b * n + m => a = b /\ l = m
         /\ \A c \in Nat : \A k \in 1..(c * n) : \E a \in 0..(c - 1) : \E m \in 1..n : k = a * n + m
         /\ \A c \in Nat : \A a \in 0..(c - 1) : \A m \in 1..n : a * n + m \in 1..(c * n)
<1>0. ASSUME NEW a \in Nat, NEW b \in Nat, a < b PROVE a * n + n <= b * n
  <2>1. PICK e \in Nat : b = a + 1 + e
    <3>1. b - a - 1 \in Nat /\ b = a + 1 + (b - a - 1)
      BY <1>0
    <3>. QED BY <3>1
  <2>2. \A x, y, z \in Nat : (x + 1 + y) * z = x * z + z + y * z /\ y * z \in Nat /\ x * z \in Nat
    OBVIOUS
  <2>. QED BY <2>1, <2>2
<1>m. \A x \in Nat : x * n \in Nat
  OBVIOUS
<1>1. ASSUME NEW a \in Nat, NEW b \in Nat, NEW l \in 1..n, NEW m \in 1..n, a * n + l = b * n + m
      PROVE  a = b /\ l = m
  <2>1. ~(a < b)
    BY <1>0, <1>1, <1>m
  <2>2. ~(b < a)
    BY <1>0, <1>1, <1>m
  <2>3. a = b
    BY <2>1, <2>2
  <2>. QED BY <1>1, <1>m, <2>3
<1>2. ASSUME NEW c \in Nat, NEW k \in 1..(c * n)
      PROVE  \E a \in 0..(c - 1) : \E m \in 1..n : k = a * n + m
  <2>1. k \in Nat \ {0} /\ k <= c * n /\ c * n \in Nat
    BY <1>m
  <2>2. PICK x \in Nat : x = k - 1
    BY <2>1
  <2>3. PICK q \in Nat, l \in Nat : x = n * q + l /\ l < n
    <3>1. x \div n \in Nat /\ x % n \in Nat /\ x = n * (x \div n) + (x % n) /\ x % n < n
      OBVIOUS
    <3>. QED BY <3>1
  <2>4. n * q = q * n
    OBVIOUS
  <2>5. k = q * n + (l + 1) /\ l + 1 \in 1..n
    BY <1>m, <2>1, <2>2, <2>3, <2>4
  <2>6. ~(c <= q)
    <3>1. c < q => c * n + n <= q * n
      BY <1>0
    <3>. QED BY <1>m, <2>1, <2>5, <3>1
  <2>. QED BY <2>5, <2>6
<1>3. ASSUME NEW c \in Nat, NEW a \in 0..(c - 1), NEW m \in 1..n PROVE a * n + m \in 1..(c * n)
  <2>1. a \in Nat /\ a < c
    OBVIOUS
  <2>2. a * n + n <= c * n
    BY <1>0, <2>1
  <2>. QED BY <1>m, <2>1, <2>2
<1>. QED BY <1>1, <1>2, <1>3

-----------------------------------------------------------------------------
(* The samples of a batch, and the share that a step takes *)

\* The order of the dataset.
Ordered == order \in [Prompts -> Indices]

LEMMA RanksOfPrompts ==
  ASSUME Ordered, NEW i \in 1..All
  PROVE  /\ order[i] \in Nat /\ PolicyRank(i) \in Policies
<1>1. order[i] \in 0..(Size - 1) /\ Size \in Nat /\ NumPolicies \in Nat \ {0}
  BY Parameters DEF Ordered, Indices
<1>2. order[i] \in Nat
  BY <1>1
<1>3. \A x \in Nat, n \in Nat \ {0} : x % n \in 0..(n - 1)
  OBVIOUS
<1>. QED BY <1>1, <1>2, <1>3 DEF PolicyRank, Policies

\* A sample is in a buffer once.
Distinct(Q) == \A s, t \in Q : s.at = t.at /\ s.nth = t.nth => s = t

Below(P, i) == {j \in P : j < i}
Number(P, s) == Cardinality(Below(P, s.at)) * NGen + s.nth

LEMMA RanksOfBatch ==
  ASSUME NEW P, P \subseteq 1..All
  PROVE  /\ IsFiniteSet(P) /\ Cardinality(P) \in Nat
         /\ \A i \in P : Cardinality(Below(P, i)) \in 0..(Cardinality(P) - 1)
         /\ \A i, j \in P : Cardinality(Below(P, i)) = Cardinality(Below(P, j)) => i = j
         /\ \A k \in 0..(Cardinality(P) - 1) : \E i \in P : Cardinality(Below(P, i)) = k
<1>. DEFINE below == [i \in P |-> Below(P, i)]
<1>0. All \in Int /\ \A i \in P : i \in Int
  BY AllType
<1>1. IsFiniteSet(P)
  <2>1. IsFiniteSet(1..All)
    BY <1>0, FS_Interval
  <2>. QED BY <2>1, FS_Subset
<1>2. below \in [P -> SUBSET P]
  BY DEF Below
<1>3. \A i \in P : below[i] \subseteq P /\ \A j \in P : j \in below[i] <=> j < i
  BY DEF Below
<1>4. \A i \in P : below[i] = Below(P, i)
  OBVIOUS
<1>. HIDE DEF below
<1>6. \A s \in P : s \notin below[s]
  BY <1>0, <1>3
<1>7. \A s, t \in P : s # t => s \in below[t] \/ t \in below[s]
  BY <1>0, <1>3
<1>8. ASSUME NEW s \in P, NEW t \in P, s \in below[t], NEW j \in below[s] PROVE j \in below[t]
  <2>1. j \in P /\ j < s /\ s < t
    BY <1>3, <1>8
  <2>. QED BY <1>0, <1>3, <2>1
<1>9. /\ \A s \in P : s \notin below[s]
      /\ \A s, t \in P : s # t => s \in below[t] \/ t \in below[s]
      /\ \A s, t \in P : s \in below[t] => below[s] \subseteq below[t]
  BY <1>6, <1>7, <1>8
<1>5. /\ Cardinality(P) \in Nat
      /\ \A s \in P : Cardinality(below[s]) \in 0..(Cardinality(P) - 1)
      /\ \A s, t \in P : Cardinality(below[s]) = Cardinality(below[t]) => s = t
      /\ \A k \in 0..(Cardinality(P) - 1) : \E s \in P : Cardinality(below[s]) = k
  <2>1. LinearlyBelow(P, below)
    BY <1>1, <1>2, <1>9 DEF LinearlyBelow
  <2>2. AreRanks(P, below)
    BY <2>1, Ranks, Zenon
  <2>. QED BY <2>2 DEF AreRanks
<1>. QED BY <1>1, <1>4, <1>5

\* The samples of a batch are numbered from 1 on.
LEMMA Numbers ==
  ASSUME NEW P, P \subseteq 1..All, NEW n, n = Cardinality(P) * NGen
  PROVE  /\ n \in Nat
         /\ \A i, j \in P : \A l, m \in 1..NGen :
              Cardinality(Below(P, i)) * NGen + l = Cardinality(Below(P, j)) * NGen + m
                => i = j /\ l = m
         /\ \A k \in 1..n : \E i \in P : \E m \in 1..NGen :
              k = Cardinality(Below(P, i)) * NGen + m
<1>. DEFINE c == Cardinality(P)
            rank == [i \in P |-> Cardinality(Below(P, i))]
<1>1. /\ c \in Nat
      /\ \A i \in P : rank[i] \in 0..(c - 1)
      /\ \A i, j \in P : rank[i] = rank[j] => i = j
      /\ \A k \in 0..(c - 1) : \E i \in P : rank[i] = k
  <2>1. \A i \in P : rank[i] = Cardinality(Below(P, i))
    OBVIOUS
  <2>. HIDE DEF rank
  <2>2. /\ Cardinality(P) \in Nat
        /\ \A i \in P : Cardinality(Below(P, i)) \in 0..(Cardinality(P) - 1)
        /\ \A i, j \in P : Cardinality(Below(P, i)) = Cardinality(Below(P, j)) => i = j
        /\ \A k \in 0..(Cardinality(P) - 1) : \E i \in P : Cardinality(Below(P, i)) = k
    BY RanksOfBatch
  <2>. QED BY <2>1, <2>2
<1>2. NGen \in Nat \ {0}
  BY Parameters
<1>3. n = c * NGen /\ n \in Nat
  <2>1. \A x, y \in Nat : x * y \in Nat
    OBVIOUS
  <2>2. n = c * NGen
    OBVIOUS
  <2>. HIDE DEF c
  <2>. QED BY <1>1, <1>2, <2>1, <2>2
<1>4. \A i \in P : Cardinality(Below(P, i)) = rank[i]
  OBVIOUS
<1>. HIDE DEF c, rank
<1>5. \A a, b \in Nat : \A l, m \in 1..NGen : a * NGen + l = b * NGen + m => a = b /\ l = m
  BY <1>2, Places
<1>6. \A k \in 1..(c * NGen) : \E a \in 0..(c - 1) : \E m \in 1..NGen : k = a * NGen + m
  <2>1. \A x \in Nat : \A k \in 1..(x * NGen) :
          \E a \in 0..(x - 1) : \E m \in 1..NGen : k = a * NGen + m
    BY <1>2, Places
  <2>. QED BY <1>1, <2>1
<1>7. \A i, j \in P : \A l, m \in 1..NGen :
        rank[i] * NGen + l = rank[j] * NGen + m => i = j /\ l = m
  <2>1. \A i \in P : rank[i] \in Nat
    BY <1>1
  <2>2. ASSUME NEW i \in P, NEW j \in P, NEW l \in 1..NGen, NEW m \in 1..NGen,
               rank[i] * NGen + l = rank[j] * NGen + m
        PROVE  rank[i] = rank[j] /\ l = m
    BY <1>5, <2>1, <2>2
  <2>. QED BY <1>1, <2>2
<1>8. ASSUME NEW k \in 1..n PROVE \E i \in P : \E m \in 1..NGen : k = rank[i] * NGen + m
  <2>1. PICK a \in 0..(c - 1), m \in 1..NGen : k = a * NGen + m
    BY <1>3, <1>6
  <2>2. PICK i \in P : rank[i] = a
    BY <1>1
  <2>. QED BY <2>1, <2>2
<1>. QED BY <1>3, <1>4, <1>7, <1>8

LEMMA SamplesAre ==
  ASSUME Ordered, NEW batch, batch.prompts \subseteq 1..All, NEW K,
         K \subseteq 1..(Cardinality(batch.prompts) * NGen)
  PROVE  /\ \A p \in Policies :
              /\ IsFiniteSet(Samples(batch, K)[p])
              /\ Samples(batch, K)[p] \subseteq
                   [at : batch.prompts, nth : 1..NGen, version : {batch.version}]
              /\ \A s \in Samples(batch, K)[p] : Number(batch.prompts, s) \in K
         /\ Stored(Samples(batch, K)) = Cardinality(K)
<1>. DEFINE P == batch.prompts
            R == [at : P, nth : 1..NGen, version : {batch.version}]
            A == Samples(batch, K)
            n == Cardinality(P) * NGen
            T == {s \in R : Number(P, s) \in K}
            f == [s \in T |-> Number(P, s)]
<1>1. /\ n \in Nat
      /\ \A i, j \in P : \A l, m \in 1..NGen :
           Cardinality(Below(P, i)) * NGen + l = Cardinality(Below(P, j)) * NGen + m
             => i = j /\ l = m
      /\ \A k \in 1..n : \E i \in P : \E m \in 1..NGen : k = Cardinality(Below(P, i)) * NGen + m
  BY Numbers
<1>2. \A p \in Policies : A[p] = {s \in T : PolicyRank(s.at) = p}
  BY DEF Samples, Number, Below
<1>3. \A s \in T : s \in R /\ s.at \in P /\ s.nth \in 1..NGen /\ s.version = batch.version
  OBVIOUS
<1>4. f \in [T -> K]
  OBVIOUS
<1>5. \A s, t \in R : s.at = t.at /\ s.nth = t.nth => s = t
  OBVIOUS
<1>6. \A s, t \in T : f[s] = f[t] => s = t
  <2>1. \A s, t \in T : Number(P, s) = Number(P, t) => s = t
    <3>1. ASSUME NEW s \in T, NEW t \in T, Number(P, s) = Number(P, t)
          PROVE  s.at = t.at /\ s.nth = t.nth
      <4>1. Cardinality(Below(P, s.at)) * NGen + s.nth = Cardinality(Below(P, t.at)) * NGen + t.nth
        BY <3>1 DEF Number
      <4>. HIDE DEF P, R, T, n
      <4>. QED BY <1>1, <1>3, <4>1
    <3>. HIDE DEF P, R, n, T
    <3>. QED BY <1>3, <1>5, <3>1
  <2>. QED BY <2>1
<1>7. \A k \in K : \E s \in T : f[s] = k
  <2>1. ASSUME NEW k \in K PROVE \E s \in T : f[s] = k
    <3>1. PICK i \in P, m \in 1..NGen : k = Cardinality(Below(P, i)) * NGen + m
      BY <1>1
    <3>2. PICK s \in R : s.at = i /\ s.nth = m
      <4>1. [at |-> i, nth |-> m, version |-> batch.version] \in R
        OBVIOUS
      <4>. QED BY <4>1
    <3>3. Number(P, s) = k
      BY <3>1, <3>2 DEF Number
    <3>. QED BY <3>2, <3>3
  <2>. QED BY <2>1
<1>8. IsFiniteSet(K)
  <2>1. IsFiniteSet(1..n)
    BY <1>1, FS_Interval
  <2>. QED BY <2>1, FS_Subset
<1>9. IsFiniteSet(T) /\ Cardinality(T) = Cardinality(K)
  <2>. HIDE DEF T, f
  <2>. QED BY <1>4, <1>6, <1>7, <1>8, CountedBy
<1>10. \A p \in Policies : IsFiniteSet(A[p]) /\ A[p] \in SUBSET T
  <2>1. \A p \in Policies : A[p] \in SUBSET T
    BY <1>2
  <2>. HIDE DEF T, A
  <2>. QED BY <1>9, <2>1, FS_Subset
<1>11. UNION {A[p] : p \in Policies} = T
  <2>1. ASSUME NEW s \in T PROVE \E p \in Policies : s \in A[p]
    <3>1. s.at \in 1..All
      BY <1>3
    <3>2. PolicyRank(s.at) \in Policies
      BY <3>1, RanksOfPrompts
    <3>. HIDE DEF T, A
    <3>. QED BY <1>2, <3>2
  <2>. HIDE DEF T, A
  <2>. QED BY <1>10, <2>1
<1>12. \A p, q \in Policies : p # q => A[p] \cap A[q] = {}
  <2>. HIDE DEF T, A
  <2>. QED BY <1>2
<1>13. Stored(A) = Cardinality(T)
  <2>1. \A p \in Policies : IsFiniteSet(A[p])
    BY <1>10
  <2>2. IsFiniteSet(Policies)
    BY Parameters
  <2>. HIDE DEF T, A
  <2>3. SumFunction([p \in Policies |-> Cardinality(A[p])]) = Cardinality(UNION {A[p] : p \in Policies})
    BY <1>12, <2>1, <2>2, SumOfSets
  <2>. QED BY <1>11, <2>3 DEF Stored
<1>. QED BY <1>3, <1>9, <1>10, <1>13

\* A step takes a share out of a buffer that has enough.
LEMMA NextIsShare ==
  ASSUME Ordered, NEW Q, IsFiniteSet(Q), Distinct(Q), Cardinality(Q) >= TrainBatch,
         \A s \in Q : s.at \in 1..All /\ s.nth \in 1..NGen
  PROVE  NextOf(Q) \in SUBSET Q /\ Cardinality(NextOf(Q)) = TrainBatch
<1>. DEFINE below == [s \in Q |-> {t \in Q : Before(t, s)}]
            N == 0..(TrainBatch - 1)
            T == NextOf(Q)
            f == [s \in T |-> Cardinality(below[s])]
<1>1. below \in [Q -> SUBSET Q]
  OBVIOUS
<1>2. \A s \in Q : s.at \in Int /\ s.nth \in Int /\ order[s.at] \in Int
  BY AllType, Parameters, RanksOfPrompts
<1>3. \A s \in Q : ~Before(s, s)
  BY <1>2 DEF Before
<1>4. \A s, t \in Q : s # t => Before(s, t) \/ Before(t, s)
  <2>1. \A s, t \in Q : s # t => s.at # t.at \/ s.nth # t.nth
    BY DEF Distinct
  <2>. QED BY <1>2, <2>1 DEF Before
<1>5. \A s, t, u \in Q : Before(s, t) /\ Before(t, u) => Before(s, u)
  BY <1>2 DEF Before
<1>6. /\ \A s \in Q : s \notin below[s]
      /\ \A s, t \in Q : s # t => s \in below[t] \/ t \in below[s]
      /\ \A s, t \in Q : s \in below[t] => below[s] \subseteq below[t]
  BY <1>3, <1>4, <1>5
<1>7. T = {s \in Q : Cardinality(below[s]) < TrainBatch}
  BY DEF NextOf
<1>8. \A s \in T : f[s] = Cardinality(below[s])
  OBVIOUS
<1>. HIDE DEF below, T
<1>9. /\ Cardinality(Q) \in Nat
      /\ \A s \in Q : Cardinality(below[s]) \in 0..(Cardinality(Q) - 1)
      /\ \A s, t \in Q : Cardinality(below[s]) = Cardinality(below[t]) => s = t
      /\ \A k \in 0..(Cardinality(Q) - 1) : \E s \in Q : Cardinality(below[s]) = k
  <2>1. LinearlyBelow(Q, below)
    BY <1>1, <1>6 DEF LinearlyBelow
  <2>2. AreRanks(Q, below)
    BY <2>1, Ranks, Zenon
  <2>. QED BY <2>2 DEF AreRanks
<1>10. TrainBatch \in Nat
  BY Parameters
<1>11. f \in [T -> N]
  BY <1>7, <1>9, <1>10
<1>12. \A s, t \in T : f[s] = f[t] => s = t
  BY <1>7, <1>9
<1>13. \A k \in N : \E s \in T : f[s] = k
  <2>1. ASSUME NEW k \in N PROVE \E s \in T : f[s] = k
    <3>1. k \in 0..(Cardinality(Q) - 1) /\ k < TrainBatch
      BY <1>9, <1>10
    <3>2. PICK s \in Q : Cardinality(below[s]) = k
      BY <1>9, <3>1
    <3>. QED BY <1>7, <3>1, <3>2
  <2>. QED BY <2>1
<1>14. IsFiniteSet(N) /\ Cardinality(N) = TrainBatch
  <2>1. 0 \in Int /\ TrainBatch - 1 \in Int /\ ~(0 > TrainBatch - 1) /\ TrainBatch - 1 - 0 + 1 = TrainBatch
    BY <1>10, Parameters
  <2>. QED BY <2>1, FS_Interval
<1>15. Cardinality(T) = Cardinality(N)
  <2>. HIDE DEF f, N
  <2>. QED BY <1>11, <1>12, <1>13, <1>14, CountedBy
<1>. QED BY <1>7, <1>14, <1>15 DEF T

-----------------------------------------------------------------------------
(* The types *)

BatchesOf(d, s) == [version : 0..s, prompts : SUBSET (1..d)]
SamplesOf(d, s) == [at : 1..d, nth : 1..NGen, version : 0..s]
CommandsOf(s) == [step : 0..s, total : Nat]

FetcherTyped ==
  /\ Ordered
  /\ fetched \in [Versions -> [Policies -> 0..Quota]]
  /\ versionCount \in [Versions -> 0..PromptsPerVersion]

QueuesTyped ==
  /\ \A r \in Rollouts : rewardQueue[r] \in Seq(BatchesOf(drawn, currentStep))
  /\ weightVersion \in [Rollouts -> 0..currentStep]

\* Each of the buffers b holds a sample at most once.
Fits(b, d, s) ==
  \A p \in Policies : /\ IsFiniteSet(b[p]) /\ Distinct(b[p])
                      /\ b[p] \subseteq SamplesOf(d, s)

BuffersTyped == Fits(buffer, drawn, currentStep)

StepsTyped ==
  /\ currentStep \in Nat /\ totalSteps \in Nat
  /\ status \in [Policies -> {"READY", "RUNNING", "REDUCED"}]
  /\ DOMAIN steps = Policies /\ \A p \in Policies : steps[p] \in Seq(CommandsOf(currentStep))
  /\ syncs \in Seq(CommandsOf(currentStep))

PlainTyped ==
  /\ samplesOnTheFly \in Int /\ remainSamples \in Int
  /\ ended \in [Rollouts -> BOOLEAN] /\ stopping \in [Rollouts -> BOOLEAN]
  /\ fetchEnd \in [Rollouts -> BOOLEAN]
  /\ stage \in [Rollouts -> {"loop", "ending", "stopped"}]

RankTyped == FetcherTyped /\ QueuesTyped /\ BuffersTyped /\ StepsTyped /\ PlainTyped

LEMMA TypesImply == DispatchInv /\ RankTyped => TypeOK
<1>. SUFFICES ASSUME DispatchInv, RankTyped PROVE TypeOK
  OBVIOUS
<1>. USE DEF RankTyped
<1>1. /\ order \in [Prompts -> Indices]
      /\ fetched \in [Versions -> [Policies -> 0..Quota]]
      /\ versionCount \in [Versions -> 0..PromptsPerVersion]
  BY DEF FetcherTyped, Ordered
<1>2. drawn \in 0..(Epochs * Size) /\ held \subseteq 1..drawn
  BY DEF DispatchInv, PromptsAreSeparate, All
<1>3. {samplesOnTheFly, remainSamples} \subseteq Int
  BY DEF PlainTyped
<1>4. /\ ended \in [Rollouts -> BOOLEAN] /\ stopping \in [Rollouts -> BOOLEAN]
      /\ fetchEnd \in [Rollouts -> BOOLEAN]
      /\ stage \in [Rollouts -> {"loop", "ending", "stopped"}]
  BY DEF PlainTyped
<1>5. /\ {currentStep, totalSteps} \subseteq Nat
      /\ status \in [Policies -> {"READY", "RUNNING", "REDUCED"}]
  BY DEF StepsTyped
<1>6. \A p \in Policies : buffer[p] \subseteq [at : 1..drawn, nth : 1..NGen, version : 0..currentStep]
  BY DEF BuffersTyped, Fits, SamplesOf
<1>7. weightVersion \in [Rollouts -> 0..currentStep]
  BY DEF QueuesTyped
<1>8. \A r \in Rollouts : AtRollout(r) \subseteq 1..drawn
  BY DEF DispatchInv, PromptsAreSeparate
<1>. QED BY <1>1, <1>2, <1>3, <1>4, <1>5, <1>6, <1>7, <1>8 DEF TypeOK

LEMMA InitTyped == Init => RankTyped
<1>. SUFFICES ASSUME Init PROVE RankTyped
  OBVIOUS
<1>1. Ordered
  <2>1. PICK o \in [1..Epochs -> Orders] :
          order = [i \in Prompts |-> o[(i - 1) \div Size + 1][((i - 1) % Size) + 1]]
    BY DEF Init
  <2>2. ASSUME NEW i \in Prompts PROVE o[(i - 1) \div Size + 1][((i - 1) % Size) + 1] \in Indices
    <3>1. i \in 1..All /\ All = Epochs * Size /\ Size \in Nat \ {0} /\ Epochs \in Nat \ {0}
      BY Parameters DEF All
    <3>2. PICK x \in Nat : x = i - 1 /\ x < Epochs * Size
      <4>1. i - 1 \in Nat /\ i - 1 < Epochs * Size
        BY <3>1, AllType
      <4>. QED BY <4>1
    <3>3. PICK q \in Nat, l \in Nat : q = x \div Size /\ l = x % Size /\ x = Size * q + l /\ l < Size
      <4>1. x \div Size \in Nat /\ x % Size \in Nat /\ x = Size * (x \div Size) + (x % Size) /\ x % Size < Size
        BY <3>1
      <4>. QED BY <4>1
    <3>4. q < Epochs
      <4>1. \A a, b, c \in Nat : a <= b => c * a <= c * b /\ c * a \in Nat /\ c * b \in Nat
        OBVIOUS
      <4>2. Epochs <= q => Size * Epochs <= Size * q /\ Size * Epochs \in Nat /\ Size * q \in Nat
        BY <3>1, <4>1
      <4>3. Size * Epochs = Epochs * Size
        BY <3>1
      <4>. QED BY <3>1, <3>2, <3>3, <4>2, <4>3
    <3>5. q + 1 \in 1..Epochs /\ l + 1 \in 1..Size
      BY <3>1, <3>3, <3>4
    <3>6. o[q + 1] \in [1..Size -> Indices]
      BY <3>5, ConstantsAssumption DEF ConstantsOK
    <3>7. o[q + 1][l + 1] \in Indices
      BY <3>5, <3>6
    <3>. QED BY <3>2, <3>3, <3>7
  <2>. QED BY <2>1, <2>2 DEF Ordered
<1>2. fetched \in [Versions -> [Policies -> 0..Quota]]
  BY Parameters DEF Init
<1>3. versionCount \in [Versions -> 0..PromptsPerVersion]
  BY Parameters DEF Init
<1>4. QueuesTyped
  <2>1. \A r \in Rollouts : rewardQueue[r] = <<>>
    BY DEF Init
  <2>2. <<>> \in Seq(BatchesOf(drawn, currentStep))
    OBVIOUS
  <2>3. weightVersion \in [Rollouts -> 0..currentStep]
    BY DEF Init
  <2>. QED BY <2>1, <2>2, <2>3, Zenon DEF QueuesTyped
<1>5. BuffersTyped
  BY FS_EmptySet DEF Init, BuffersTyped, Fits, Distinct
<1>6. StepsTyped
  <2>1. \A p \in Policies : steps[p] = <<>>
    BY DEF Init
  <2>2. <<>> \in Seq(CommandsOf(currentStep)) /\ syncs = <<>>
    BY DEF Init
  <2>3. currentStep \in Nat /\ totalSteps \in Nat
    <3>1. \A a, b, c \in Nat : a * b * c \in Nat
      OBVIOUS
    <3>2. \A a \in Nat, b \in Nat \ {0} : a \div b \in Nat
      OBVIOUS
    <3>3. Epochs * Size * NGen \in Nat
      BY <3>1, Parameters
    <3>. QED BY <3>2, <3>3, Parameters DEF Init
  <2>4. status \in [Policies -> {"READY", "RUNNING", "REDUCED"}] /\ DOMAIN steps = Policies
    BY DEF Init
  <2>. QED BY <2>1, <2>2, <2>3, <2>4, Zenon DEF StepsTyped
<1>7. PlainTyped
  <2>1. samplesOnTheFly \in Int /\ remainSamples \in Int
    <3>1. \A a, b, c \in Nat : a * b * c \in Int
      OBVIOUS
    <3>2. Epochs * Size * NGen \in Int
      BY <3>1, Parameters
    <3>. QED BY <3>2 DEF Init
  <2>2. /\ ended \in [Rollouts -> BOOLEAN] /\ stopping \in [Rollouts -> BOOLEAN]
        /\ fetchEnd \in [Rollouts -> BOOLEAN]
    BY DEF Init
  <2>3. stage \in [Rollouts -> {"loop", "ending", "stopped"}]
    BY DEF Init
  <2>. QED BY <2>1, <2>2, <2>3 DEF PlainTyped
<1>. QED BY <1>1, <1>2, <1>3, <1>4, <1>5, <1>6, <1>7 DEF RankTyped, FetcherTyped

\* How many samples wait, and for which version prompts are given out.
LEMMA PendingType ==
  ASSUME BuffersTyped
  PROVE  Pending \in Nat /\ Pending = Stored(buffer)
<1>1. Stored(buffer) \in Nat
  BY StoredType DEF BuffersTyped, Fits
<1>. QED BY <1>1 DEF Pending, Stored

LEMMA BaseType ==
  ASSUME BuffersTyped, StepsTyped
  PROVE  BaseVersion \in Nat
<1>1. \A a \in Nat, b \in Nat \ {0} : a \div b \in Nat
  OBVIOUS
<1>2. Pending \in Nat /\ currentStep \in Nat
  BY PendingType DEF StepsTyped
<1>3. Pending \div GlobalBatch \in Nat
  BY <1>1, <1>2, Parameters
<1>. QED BY <1>2, <1>3 DEF BaseVersion

LEMMA SequencesGrow ==
  ASSUME NEW A, NEW B, A \subseteq B, NEW q \in Seq(A)
  PROVE  q \in Seq(B)
OBVIOUS

LEMMA CommandsGrow ==
  ASSUME NEW s \in Nat, NEW t \in Nat, s <= t, NEW q \in Seq(CommandsOf(s))
  PROVE  q \in Seq(CommandsOf(t))
<1>1. CommandsOf(s) \subseteq CommandsOf(t)
  <2>1. 0..s \subseteq 0..t
    OBVIOUS
  <2>. QED BY <2>1 DEF CommandsOf
<1>. QED BY <1>1, SequencesGrow

LEMMA BatchesGrow ==
  ASSUME NEW s \in Nat, NEW t \in Nat, s <= t, NEW d \in Nat, NEW e \in Nat, d <= e,
         NEW q \in Seq(BatchesOf(d, s))
  PROVE  q \in Seq(BatchesOf(e, t))
<1>1. BatchesOf(d, s) \subseteq BatchesOf(e, t)
  <2>1. 0..s \subseteq 0..t /\ 1..d \subseteq 1..e
    OBVIOUS
  <2>. QED BY <2>1 DEF BatchesOf
<1>. QED BY <1>1, SequencesGrow

LEMMA SamplesGrow ==
  ASSUME NEW s \in Nat, NEW t \in Nat, s <= t, NEW d \in Nat, NEW e \in Nat, d <= e
  PROVE  SamplesOf(d, s) \subseteq SamplesOf(e, t)
<1>1. 0..s \subseteq 0..t /\ 1..d \subseteq 1..e
  OBVIOUS
<1>. QED BY <1>1 DEF SamplesOf

-----------------------------------------------------------------------------
(* What an answer hands out *)

\* The share of each policy in an answer stays within its quota.
LEMMA SharesFit ==
  ASSUME FetcherTyped, BaseVersion \in Versions, NEW r, NEW n, NEW S \in SUBSET Own(r),
         S \subseteq 1..All, Pick(S, r, n), NEW p \in Policies
  PROVE  fetched[BaseVersion][p] + Cardinality({i \in S : PolicyRank(i) = p}) \in 0..Quota
<1>. DEFINE X == {i \in S : PolicyRank(i) = p}
            f == fetched[BaseVersion][p]
<1>1. f \in 0..Quota /\ f \in Nat /\ Quota \in Nat
  BY Parameters DEF FetcherTyped
<1>2. X \subseteq S /\ X \subseteq 1..All
  OBVIOUS
<1>3. IsFiniteSet(X) /\ Cardinality(X) \in Nat
  <2>1. IsFiniteSet(1..All)
    BY AllType, FS_Interval
  <2>. QED BY <1>2, <2>1, FS_Subset, FS_CardinalityType
<1>4. CASE X = {}
  <2>1. Cardinality(X) = 0
    BY <1>4, FS_EmptySet
  <2>. QED BY <1>1, <2>1
<1>5. CASE X # {}
  <2>1. Max(X) \in X /\ \A y \in X : y <= Max(X)
    BY <1>2, <1>5, AllType, MaxProperties
  <2>2. PICK m \in X : \A y \in X : y <= m
    BY <2>1
  <2>3. m \in S /\ m \in Own(r) /\ PolicyRank(m) = p
    BY <2>2
  <2>4. f + Cardinality({j \in S : j < m /\ PolicyRank(j) = PolicyRank(m)}) < Quota
    BY <2>3 DEF Pick
  <2>5. {j \in S : j < m /\ PolicyRank(j) = PolicyRank(m)} = X \ {m}
    <3>1. \A j \in X : j \in Int /\ m \in Int
      BY <1>2, AllType
    <3>2. \A j \in X : j < m <=> j # m
      BY <2>2, <3>1
    <3>. QED BY <2>3, <3>2
  <2>6. Cardinality(X \ {m}) = Cardinality(X) - 1
    BY <1>3, <2>2, FS_RemoveElement
  <2>7. f + (Cardinality(X) - 1) < Quota
    BY <2>4, <2>5, <2>6
  <2>8. \A a, b, c \in Nat : a + (b - 1) < c => a + b \in 0..c
    OBVIOUS
  <2>. HIDE DEF X, f
  <2>9. f + Cardinality(X) \in 0..Quota
    BY <1>1, <1>3, <2>7, <2>8
  <2>. QED BY <2>9 DEF X, f
<1>. QED BY <1>4, <1>5

\* A version is given at most the prompts it has room for.
LEMMA TagsFit ==
  ASSUME FetcherTyped, BaseVersion \in Nat, NEW v \in Versions, NEW n \in Nat
  PROVE  versionCount[v] + TagsOf(v, n) \in 0..PromptsPerVersion
<1>1. ASSUME NEW u \in Versions PROVE /\ versionCount[u] \in 0..PromptsPerVersion
                                      /\ Room(u) \in 0..(PromptsPerVersion - versionCount[u])
                                      /\ Room(u) \in Nat
  <2>1. versionCount[u] \in 0..PromptsPerVersion /\ PromptsPerVersion \in Nat
    BY <1>1, Parameters DEF FetcherTyped
  <2>. QED BY <2>1 DEF Room
<1>2. RoomBefore(v) \in Nat
  <2>. DEFINE f == [u \in 0..(v - 1) |-> Room(u)]
  <2>1. v \in Nat /\ 0..(v - 1) \subseteq Versions
    BY Parameters DEF Versions
  <2>2. f \in [0..(v - 1) -> Nat]
    BY <1>1, <2>1
  <2>3. IsFiniteSet(0..(v - 1))
    BY <2>1, FS_Interval
  <2>. HIDE DEF f
  <2>4. SumFunction(f) \in Nat
    BY <2>2, <2>3, SumNat
  <2>. QED BY <2>4 DEF RoomBefore, f
<1>3. PICK c \in Nat, a \in Nat, b \in Nat :
        /\ c = versionCount[v] /\ a = Room(v) /\ b = RoomBefore(v)
        /\ c + a <= PromptsPerVersion
  <2>1. versionCount[v] \in Nat /\ Room(v) \in Nat /\ versionCount[v] + Room(v) <= PromptsPerVersion
    BY <1>1, Parameters
  <2>. QED BY <1>2, <2>1
<1>4. TagsOf(v, n) = IF n <= b THEN 0 ELSE Smaller(a, n - b)
  BY <1>3 DEF TagsOf
<1>5. PICK x \in 0..a : x = TagsOf(v, n)
  <2>1. TagsOf(v, n) \in 0..a
    BY <1>4 DEF Smaller
  <2>. QED BY <2>1
<1>6. PromptsPerVersion \in Nat
  BY Parameters
<1>7. c + x \in 0..PromptsPerVersion
  BY <1>3, <1>6
<1>. QED BY <1>3, <1>5, <1>7

LEMMA StageType ==
  ASSUME stage \in [Rollouts -> {"loop", "ending", "stopped"}], NEW r \in Rollouts,
         EndOfRound(r)
  PROVE  stage' \in [Rollouts -> {"loop", "ending", "stopped"}]
<1>1. (IF fetchEnd'[r] /\ promptQueue'[r].prompts = {} THEN "ending" ELSE NextRound(r))
        \in {"loop", "ending", "stopped"}
  BY DEF NextRound
<1>. QED BY <1>1 DEF EndOfRound

\* The buffers when no report changes them.
LEMMA SamplesStay ==
  ASSUME BuffersTyped, drawn \in Nat, drawn' \in Nat, drawn <= drawn',
         currentStep \in Nat, currentStep' \in Nat, currentStep <= currentStep',
         \A p \in Policies : buffer'[p] \in SUBSET buffer[p]
  PROVE  BuffersTyped'
<1>1. ASSUME NEW p \in Policies PROVE IsFiniteSet(buffer'[p]) /\ Distinct(buffer'[p])
  <2>1. IsFiniteSet(buffer[p]) /\ Distinct(buffer[p])
    BY DEF BuffersTyped, Fits
  <2>. QED BY <2>1, FS_Subset DEF Distinct
<1>2. ASSUME NEW p \in Policies PROVE buffer'[p] \subseteq SamplesOf(drawn', currentStep')
  <2>1. buffer[p] \subseteq SamplesOf(drawn, currentStep)
    BY DEF BuffersTyped, Fits
  <2>2. SamplesOf(drawn, currentStep) \subseteq SamplesOf(drawn', currentStep')
    BY SamplesGrow
  <2>. QED BY <2>1, <2>2
<1>. QED BY <1>1, <1>2 DEF BuffersTyped, Fits, Distinct

LEMMA FetchTypes ==
  ASSUME DispatchInv, RankTyped, NEW r \in Rollouts, Fetch(r)
  PROVE  RankTyped'
<1>. USE DEF RankTyped
<1>. DEFINE n == Requested
<1>1. PICK S \in SUBSET Own(r) :
        /\ Pick(S, r, n)
        /\ drawn' = DrawnFor(S, n)
        /\ fetchEnd' = [fetchEnd EXCEPT ![r] = Cardinality(S) < n /\ Left(S, DrawnFor(S, n)) = {}]
        /\ fetched' = [fetched EXCEPT ![BaseVersion] =
             [p \in Policies |-> @[p] + Cardinality({i \in S : PolicyRank(i) = p})]]
        /\ versionCount' = [v \in Versions |-> versionCount[v] + TagsOf(v, Cardinality(S))]
        /\ samplesOnTheFly' = samplesOnTheFly + Cardinality(S) * NGen
        /\ \/ Generate(r, S)
           \/ UNCHANGED rewardQueue
  BY DEF Fetch
<1>2. n \in Nat /\ drawn \in 0..All /\ held \subseteq 1..drawn
  BY RequestedType DEF DispatchInv, PromptsAreSeparate
<1>. HIDE DEF n
<1>3. S \subseteq 1..All
  <2>1. \A i \in Own(r) : i \in held \/ i \in 1..All
    BY DEF Own, Prompts, All
  <2>2. 1..drawn \subseteq 1..All
    BY <1>2, AllType
  <2>. QED BY <1>2, <2>1, <2>2
<1>4. /\ IsFiniteSet(S) /\ Cardinality(S) \in Nat
      /\ drawn' \in drawn..All /\ S \subseteq 1..drawn'
  BY <1>1, <1>2, <1>3, PickIsBounded, DrawnForCovers
<1>5. BaseVersion \in Nat
  BY BaseType
<1>6. UNCHANGED <<order, currentStep, buffer, status, steps, totalSteps, syncs, ended, stopping,
                  weightVersion>>
  BY DEF Fetch, trainVars
<1>7. FetcherTyped'
  <2>1. fetched' \in [Versions -> [Policies -> 0..Quota]]
    <3>1. CASE BaseVersion \in Versions
      <4>. DEFINE g == [p \in Policies |-> fetched[BaseVersion][p] + Cardinality({i \in S : PolicyRank(i) = p})]
      <4>1. g \in [Policies -> 0..Quota]
        BY <1>1, <1>3, <3>1, SharesFit
      <4>2. fetched' = [fetched EXCEPT ![BaseVersion] = g]
        BY <1>1
      <4>. HIDE DEF g
      <4>. QED BY <3>1, <4>1, <4>2 DEF FetcherTyped
    <3>2. CASE BaseVersion \notin Versions
      BY <1>1, <3>2 DEF FetcherTyped
    <3>. QED BY <3>1, <3>2
  <2>2. versionCount' \in [Versions -> 0..PromptsPerVersion]
    <3>1. \A v \in Versions : versionCount[v] + TagsOf(v, Cardinality(S)) \in 0..PromptsPerVersion
      BY <1>4, <1>5, TagsFit
    <3>. QED BY <1>1, <3>1
  <2>. QED BY <1>6, <2>1, <2>2 DEF FetcherTyped, Ordered
<1>8. /\ drawn \in Nat /\ drawn' \in Nat /\ drawn <= drawn' /\ currentStep \in Nat
      /\ currentStep' = currentStep
  BY <1>2, <1>4, <1>6, AllType DEF StepsTyped
<1>9. QueuesTyped'
  <2>1. \A s \in Rollouts : rewardQueue[s] \in Seq(BatchesOf(drawn', currentStep))
    <3>1. \A s \in Rollouts : rewardQueue[s] \in Seq(BatchesOf(drawn, currentStep))
      BY DEF QueuesTyped
    <3>. QED BY <1>8, <3>1, BatchesGrow
  <2>2. CASE Generate(r, S)
    <3>. DEFINE e == [version |-> weightVersion[r], prompts |-> S]
    <3>1. e \in BatchesOf(drawn', currentStep)
      BY <1>4 DEF BatchesOf, QueuesTyped
    <3>2. rewardQueue' = [rewardQueue EXCEPT ![r] = Append(@, e)]
      BY <2>2 DEF Generate
    <3>. HIDE DEF e
    <3>3. Append(rewardQueue[r], e) \in Seq(BatchesOf(drawn', currentStep))
      BY <2>1, <3>1
    <3>4. \A s \in Rollouts : rewardQueue'[s] \in Seq(BatchesOf(drawn', currentStep))
      BY <2>1, <3>2, <3>3 DEF DispatchInv
    <3>. QED BY <1>6, <3>4 DEF QueuesTyped
  <2>3. CASE UNCHANGED rewardQueue
    BY <1>6, <2>1, <2>3 DEF QueuesTyped
  <2>. QED BY <1>1, <2>2, <2>3
<1>10. BuffersTyped'
  <2>1. \A p \in Policies : buffer'[p] \in SUBSET buffer[p]
    BY <1>6
  <2>2. BuffersTyped /\ currentStep' \in Nat /\ currentStep <= currentStep'
    BY <1>8
  <2>. QED BY <1>8, <2>1, <2>2, SamplesStay
<1>11. StepsTyped'
  BY <1>6, <1>8 DEF StepsTyped
<1>12. PlainTyped'
  <2>1. samplesOnTheFly' \in Int
    <3>1. \A a, b \in Nat : a * b \in Int
      OBVIOUS
    <3>2. Cardinality(S) * NGen \in Int
      BY <1>4, <3>1, Parameters
    <3>. QED BY <1>1, <3>2 DEF PlainTyped
  <2>2. stage' \in [Rollouts -> {"loop", "ending", "stopped"}]
    BY StageType DEF Fetch, PlainTyped
  <2>3. fetchEnd' \in [Rollouts -> BOOLEAN]
    <3>1. PICK b \in BOOLEAN : fetchEnd' = [fetchEnd EXCEPT ![r] = b]
      <4>1. (Cardinality(S) < n /\ Left(S, DrawnFor(S, n)) = {}) \in BOOLEAN
        OBVIOUS
      <4>. QED BY <1>1, <4>1, Zenon
    <3>. QED BY <3>1 DEF PlainTyped
  <2>4. UNCHANGED remainSamples
    BY DEF Fetch, trainVars
  <2>. QED BY <1>6, <2>1, <2>2, <2>3, <2>4 DEF PlainTyped
<1>. QED BY <1>7, <1>9, <1>10, <1>11, <1>12

LEMMA GenerateHeldTypes ==
  ASSUME DispatchInv, RankTyped, NEW r \in Rollouts, GenerateHeld(r)
  PROVE  RankTyped'
<1>. USE DEF RankTyped
<1>. DEFINE e == [version |-> weightVersion[r], prompts |-> promptQueue[r].prompts]
<1>1. /\ rewardQueue' = [rewardQueue EXCEPT ![r] = Append(@, e)]
      /\ UNCHANGED <<fetcherVars, samplesOnTheFly, trainVars, totalSteps, syncs, ended, stopping,
                     weightVersion, fetchEnd>>
      /\ EndOfRound(r)
  BY DEF GenerateHeld, Generate
<1>2. e \in BatchesOf(drawn, currentStep)
  <2>1. promptQueue[r].prompts \subseteq 1..drawn
    BY DEF DispatchInv, PromptsAreSeparate, AtRollout
  <2>. QED BY <2>1 DEF BatchesOf, QueuesTyped
<1>. HIDE DEF e
<1>3. \A s \in Rollouts : rewardQueue'[s] \in Seq(BatchesOf(drawn, currentStep))
  <2>1. \A s \in Rollouts : rewardQueue[s] \in Seq(BatchesOf(drawn, currentStep))
    BY DEF QueuesTyped
  <2>2. Append(rewardQueue[r], e) \in Seq(BatchesOf(drawn, currentStep))
    BY <1>2, <2>1
  <2>. QED BY <1>1, <2>1, <2>2 DEF DispatchInv
<1>4. QueuesTyped'
  BY <1>1, <1>3 DEF QueuesTyped, fetcherVars, trainVars
<1>5. BuffersTyped'
  BY <1>1 DEF BuffersTyped, Fits, Distinct, fetcherVars, trainVars
<1>6. FetcherTyped' /\ StepsTyped'
  BY <1>1 DEF FetcherTyped, Ordered, StepsTyped, fetcherVars, trainVars
<1>7. stage' \in [Rollouts -> {"loop", "ending", "stopped"}]
  BY <1>1, StageType DEF PlainTyped
<1>8. PlainTyped'
  BY <1>1, <1>7 DEF PlainTyped, trainVars
<1>. QED BY <1>4, <1>5, <1>6, <1>8

-----------------------------------------------------------------------------
(* Samples that are put into the buffers and taken out of them *)

\* The samples of a batch with the numbers in K, of which none waits yet.
LEMMA PutSamples ==
  ASSUME Ordered, drawn \in 0..All, currentStep \in Nat,
         NEW batch \in BatchesOf(drawn, currentStep),
         NEW K, K \subseteq 1..(Cardinality(batch.prompts) * NGen),
         NEW b, Fits(b, drawn, currentStep),
         \A p \in Policies : \A s \in b[p] :
           s.at \in batch.prompts => Number(batch.prompts, s) \notin K,
         NEW d, \A p \in Policies : d[p] = b[p] \cup Samples(batch, K)[p]
  PROVE  Fits(d, drawn, currentStep) /\ Stored(d) = Stored(b) + Cardinality(K)
<1>. DEFINE P == batch.prompts
            c == Samples(batch, K)
<1>1. P \subseteq 1..drawn /\ P \subseteq 1..All /\ batch.version \in 0..currentStep
  <2>1. P \subseteq 1..drawn /\ batch.version \in 0..currentStep
    BY DEF BatchesOf
  <2>2. 1..drawn \subseteq 1..All
    BY AllType
  <2>. QED BY <2>1, <2>2
<1>2. /\ \A p \in Policies :
           /\ IsFiniteSet(c[p])
           /\ c[p] \subseteq [at : P, nth : 1..NGen, version : {batch.version}]
           /\ \A s \in c[p] : Number(P, s) \in K
      /\ Stored(c) = Cardinality(K)
  BY <1>1, SamplesAre
<1>3. \A p \in Policies : \A s \in c[p] : s.at \in P
  BY <1>2
<1>4. \A p \in Policies : \A s \in b[p], t \in c[p] : ~(s.at = t.at /\ s.nth = t.nth)
  <2>1. ASSUME NEW p \in Policies, NEW s \in b[p], NEW t \in c[p], s.at = t.at, s.nth = t.nth
        PROVE  FALSE
    <3>1. Number(P, s) = Number(P, t)
      BY <2>1 DEF Number
    <3>2. s.at \in P /\ Number(P, t) \in K
      BY <1>2, <1>3, <2>1
    <3>. QED BY <3>1, <3>2
  <2>. QED BY <2>1
<1>5. \A p \in Policies : d[p] = b[p] \cup c[p]
  OBVIOUS
<1>6. \A p \in Policies : b[p] \cap c[p] = {}
  BY <1>4
<1>7. (\A p \in Policies : IsFiniteSet(d[p])) /\ Stored(d) = Stored(b) + Stored(c)
  <2>1. \A p \in Policies : /\ IsFiniteSet(b[p]) /\ IsFiniteSet(c[p]) /\ b[p] \cap c[p] = {}
                            /\ d[p] = b[p] \cup c[p]
    BY <1>2, <1>5, <1>6 DEF Fits
  <2>. HIDE DEF c
  <2>. QED BY <2>1, StoredAdds
<1>8. ASSUME NEW p \in Policies PROVE Distinct(d[p]) /\ d[p] \subseteq SamplesOf(drawn, currentStep)
  <2>1. Distinct(b[p]) /\ b[p] \subseteq SamplesOf(drawn, currentStep)
    BY DEF Fits
  <2>2. Distinct(c[p])
    <3>1. c[p] \subseteq [at : P, nth : 1..NGen, version : {batch.version}]
      BY <1>2
    <3>2. \A s, t \in [at : P, nth : 1..NGen, version : {batch.version}] :
            s.at = t.at /\ s.nth = t.nth => s = t
      OBVIOUS
    <3>. QED BY <3>1, <3>2 DEF Distinct
  <2>3. c[p] \subseteq SamplesOf(drawn, currentStep)
    <3>1. c[p] \subseteq [at : P, nth : 1..NGen, version : {batch.version}]
      BY <1>2
    <3>. QED BY <1>1, <3>1 DEF SamplesOf
  <2>. HIDE DEF c
  <2>4. Distinct(d[p])
    BY <1>4, <1>5, <2>1, <2>2 DEF Distinct
  <2>. QED BY <1>5, <2>1, <2>3, <2>4
<1>. QED BY <1>2, <1>7, <1>8 DEF Fits

\* The share of each policy, when each buffer has one.
LEMMA TakeShares ==
  ASSUME Ordered, drawn \in 0..All, currentStep \in Nat,
         NEW b, Fits(b, drawn, currentStep), RolloutsEnough(b),
         NEW d, \A p \in Policies : d[p] = b[p] \ NextOf(b[p])
  PROVE  Fits(d, drawn, currentStep) /\ Stored(d) = Stored(b) - GlobalBatch
<1>. DEFINE c == [p \in Policies |-> NextOf(b[p])]
<1>1. ASSUME NEW p \in Policies
      PROVE  c[p] \in SUBSET b[p] /\ Cardinality(c[p]) = TrainBatch
  <2>1. IsFiniteSet(b[p]) /\ Distinct(b[p]) /\ b[p] \subseteq SamplesOf(drawn, currentStep)
    BY DEF Fits
  <2>2. Cardinality(b[p]) >= TrainBatch
    BY DEF RolloutsEnough
  <2>3. \A s \in b[p] : s.at \in 1..All /\ s.nth \in 1..NGen
    <3>1. 1..drawn \subseteq 1..All
      BY AllType
    <3>. QED BY <2>1, <3>1 DEF SamplesOf
  <2>4. NextOf(b[p]) \in SUBSET b[p] /\ Cardinality(NextOf(b[p])) = TrainBatch
    BY <2>1, <2>2, <2>3, NextIsShare, Zenon
  <2>. QED BY <2>4
<1>2. \A p \in Policies : d[p] = b[p] \ c[p]
  OBVIOUS
<1>. HIDE DEF c
<1>3. (\A p \in Policies : IsFiniteSet(d[p])) /\ Stored(d) = Stored(b) - GlobalBatch
  <2>1. \A p \in Policies : /\ IsFiniteSet(b[p]) /\ c[p] \in SUBSET b[p]
                            /\ Cardinality(c[p]) = TrainBatch /\ d[p] = b[p] \ c[p]
    BY <1>1, <1>2 DEF Fits
  <2>. QED BY <2>1, StoredTakes
<1>4. \A p \in Policies : Distinct(d[p]) /\ d[p] \subseteq SamplesOf(drawn, currentStep)
  BY <1>2 DEF Fits, Distinct
<1>. QED BY <1>3, <1>4 DEF Fits

LEMMA FreshType ==
  ASSUME NEW version, NEW n \in Nat
  PROVE  FreshCount(version, n) \in 0..n
<1>. DEFINE T == {k \in 0..(n - 1) :
                    currentStep + (k + Pending) \div GlobalBatch - version <= AllowedOutdated}
<1>1. IsFiniteSet(0..(n - 1)) /\ Cardinality(0..(n - 1)) = n
  <2>1. CASE n = 0
    <3>1. 0..(n - 1) = {}
      BY <2>1
    <3>. QED BY <2>1, <3>1, FS_EmptySet
  <2>2. CASE n # 0
    <3>1. 0 \in Int /\ n - 1 \in Int /\ ~(0 > n - 1) /\ n - 1 - 0 + 1 = n
      BY <2>2
    <3>. QED BY <3>1, FS_Interval
  <2>. QED BY <2>1, <2>2
<1>2. T \subseteq 0..(n - 1)
  OBVIOUS
<1>3. FreshCount(version, n) = Cardinality(T)
  BY DEF FreshCount
<1>. HIDE DEF T
<1>4. IsFiniteSet(T) /\ Cardinality(T) <= n /\ Cardinality(T) \in Nat
  BY <1>1, <1>2, FS_Subset, FS_CardinalityType
<1>. QED BY <1>3, <1>4

\* What a report does to the buffers and to remain_samples_num: of the samples of its batch,
\* some are put, the others dropped, and perhaps a share is taken.
LEMMA ReportPuts ==
  ASSUME DispatchInv, RankTyped, NEW r \in Rollouts, Report(r),
         NEW S, S = Head(rewardQueue[r]).prompts
  PROVE  /\ Fits(buffer', drawn, currentStep)
         /\ remainSamples' - Stored(buffer') = remainSamples - Stored(buffer) - Cardinality(S) * NGen
<1>. DEFINE batch  == Head(rewardQueue[r])
            n      == Cardinality(batch.prompts) * NGen
            fresh  == FreshCount(batch.version, n)
            remain == remainSamples - (n - fresh)
            To(k)  == With(buffer, Samples(batch, 1..k))
            starts == {k \in 1..fresh : CanStart(status, To(k))}
            first  == Min(starts)
            later  == Samples(batch, (first + 1)..fresh)
<1>1. /\ rewardQueue[r] # <<>>
      /\ \/ /\ starts = {}
            /\ buffer' = To(fresh)
            /\ remainSamples' = remain
         \/ /\ starts # {}
            /\ remainSamples' = remain - GlobalBatch
            /\ buffer' = [p \in Policies |-> (To(first)[p] \ NextOf(To(first)[p])) \cup later[p]]
  BY DEF Report, StartStep
<1>2. /\ Ordered /\ drawn \in 0..All /\ drawn \in Nat /\ currentStep \in Nat
      /\ Fits(buffer, drawn, currentStep) /\ remainSamples \in Int
      /\ rewardQueue[r] \in Seq(BatchesOf(drawn, currentStep))
  BY AllType DEF DispatchInv, RankTyped, FetcherTyped, BuffersTyped, StepsTyped, PlainTyped, QueuesTyped
<1>3. batch \in BatchesOf(drawn, currentStep) /\ S = batch.prompts
  BY <1>1, <1>2
<1>4. \A p \in Policies : \A s \in buffer[p] : s.at \notin batch.prompts
  <2>1. PICK Q : Reports(r, Q)
    BY ReportMoves
  <2>2. batch.prompts \subseteq AtRollout(r)
    BY <2>1 DEF Reports
  <2>. QED BY <2>2 DEF DispatchInv, PromptsAreSeparate
<1>5. n \in Nat
  <2>1. batch.prompts \subseteq 1..All
    <3>1. batch.prompts \subseteq 1..drawn
      BY <1>3 DEF BatchesOf
    <3>2. 1..drawn \subseteq 1..All
      BY <1>2, AllType
    <3>. QED BY <3>1, <3>2
  <2>2. n = Cardinality(batch.prompts) * NGen
    OBVIOUS
  <2>. HIDE DEF batch, n
  <2>. QED BY <2>1, <2>2, Numbers
<1>6. fresh \in 0..n /\ fresh \in Nat
  <2>1. FreshCount(batch.version, n) \in 0..n
    BY <1>5, FreshType
  <2>. QED BY <1>5, <2>1
<1>7. starts \subseteq Nat /\ \A k \in starts : k \in 1..fresh /\ CanStart(status, To(k))
  BY <1>6
<1>8. GlobalBatch \in Nat /\ Stored(buffer) \in Nat
  <2>1. \A p \in Policies : IsFiniteSet(buffer[p])
    BY <1>2 DEF Fits
  <2>. QED BY <2>1, StoredType, Parameters
<1>9. S = batch.prompts /\ n = Cardinality(S) * NGen
  BY <1>3
<1>. HIDE DEF batch, n, fresh, starts
<1>10. ASSUME NEW k \in 0..fresh
       PROVE  /\ Fits(To(k), drawn, currentStep)
              /\ Stored(To(k)) = Stored(buffer) + k
  <2>1. 1..k \subseteq 1..n /\ k \in Nat
    BY <1>6, <1>5
  <2>2. Cardinality(1..k) = k
    <3>1. CASE k = 0
      <4>1. 1..k = {}
        BY <3>1
      <4>. QED BY <3>1, <4>1, FS_EmptySet
    <3>2. CASE k # 0
      <4>1. 1 \in Int /\ k \in Int /\ ~(1 > k) /\ k - 1 + 1 = k
        BY <2>1, <3>2
      <4>. QED BY <4>1, FS_Interval
    <3>. QED BY <3>1, <3>2
  <2>3. \A p \in Policies : To(k)[p] = buffer[p] \cup Samples(batch, 1..k)[p]
    BY DEF With
  <2>4. \A p \in Policies : \A s \in buffer[p] :
          s.at \in batch.prompts => Number(batch.prompts, s) \notin 1..k
    BY <1>4
  <2>5. 1..k \subseteq 1..(Cardinality(batch.prompts) * NGen)
    BY <2>1, <1>9
  <2>. HIDE DEF To
  <2>6. Fits(To(k), drawn, currentStep) /\ Stored(To(k)) = Stored(buffer) + Cardinality(1..k)
    BY <1>2, <1>3, <2>3, <2>4, <2>5, PutSamples
  <2>. QED BY <2>2, <2>6
<1>11. CASE starts = {}
  <2>1. buffer' = To(fresh) /\ remainSamples' = remainSamples - (n - fresh)
    BY <1>1, <1>11
  <2>2. Fits(To(fresh), drawn, currentStep) /\ Stored(To(fresh)) = Stored(buffer) + fresh
    BY <1>6, <1>10
  <2>. HIDE DEF To
  <2>. QED BY <1>2, <1>5, <1>6, <1>8, <1>9, <2>1, <2>2
<1>12. CASE starts # {}
  <2>. DEFINE rest == [p \in Policies |-> To(first)[p] \ NextOf(To(first)[p])]
              K    == (first + 1)..fresh
  <2>1. first \in 1..fresh /\ CanStart(status, To(first))
    <3>1. Min(starts) \in starts
      BY <1>7, <1>12, MinProperties
    <3>. QED BY <1>7, <3>1
  <2>2. remainSamples' = remainSamples - (n - fresh) - GlobalBatch
    BY <1>1, <1>12
  <2>3. \A p \in Policies : buffer'[p] = rest[p] \cup Samples(batch, K)[p]
    BY <1>1, <1>12
  <2>4. \A p \in Policies : rest[p] = To(first)[p] \ NextOf(To(first)[p])
    OBVIOUS
  <2>5. \A p \in Policies : To(first)[p] = buffer[p] \cup Samples(batch, 1..first)[p]
    BY DEF With
  <2>6. first \in 0..fresh /\ first \in Nat /\ first <= fresh /\ first >= 1
    BY <1>6, <2>1
  <2>7. /\ Fits(To(first), drawn, currentStep) /\ RolloutsEnough(To(first))
        /\ Stored(To(first)) = Stored(buffer) + first
    BY <1>10, <2>1, <2>6 DEF CanStart
  <2>. HIDE DEF first, To, rest
  <2>8. Fits(rest, drawn, currentStep) /\ Stored(rest) = Stored(To(first)) - GlobalBatch
    BY <1>2, <2>4, <2>7, TakeShares
  <2>9. Cardinality(K) = fresh - first
    <3>1. CASE first = fresh
      <4>1. K = {}
        BY <1>6, <2>6, <3>1
      <4>. QED BY <1>6, <3>1, <4>1, FS_EmptySet
    <3>2. CASE first # fresh
      <4>1. first + 1 \in Int /\ fresh \in Int /\ ~(first + 1 > fresh) /\ fresh - (first + 1) + 1 = fresh - first
        BY <1>6, <2>6, <3>2
      <4>. QED BY <4>1, FS_Interval
    <3>. QED BY <3>1, <3>2
  <2>10. K \subseteq 1..(Cardinality(batch.prompts) * NGen)
    <3>1. K \subseteq 1..n
      BY <1>5, <1>6, <2>6
    <3>. QED BY <1>9, <3>1
  <2>11. \A p \in Policies : \A s \in rest[p] :
           s.at \in batch.prompts => Number(batch.prompts, s) \notin K
    <3>1. 1..first \subseteq 1..(Cardinality(batch.prompts) * NGen)
      <4>1. 1..first \subseteq 1..n
        BY <1>5, <1>6, <2>6
      <4>. QED BY <1>9, <4>1
    <3>2. batch.prompts \subseteq 1..All
      <4>1. batch.prompts \subseteq 1..drawn /\ 1..drawn \subseteq 1..All
        BY <1>2, <1>3, AllType DEF BatchesOf
      <4>. QED BY <4>1
    <3>3. \A p \in Policies : \A s \in Samples(batch, 1..first)[p] : Number(batch.prompts, s) \in 1..first
      BY <1>2, <3>1, <3>2, SamplesAre
    <3>4. \A k \in 1..first : k \notin K
      BY <1>6, <2>6
    <3>5. \A p \in Policies : \A s \in rest[p] : s \in buffer[p] \/ s \in Samples(batch, 1..first)[p]
      BY <2>4, <2>5
    <3>. QED BY <1>4, <3>3, <3>4, <3>5
  <2>. HIDE DEF K
  <2>12. Fits(buffer', drawn, currentStep) /\ Stored(buffer') = Stored(rest) + Cardinality(K)
    BY <1>2, <1>3, <2>3, <2>8, <2>10, <2>11, PutSamples
  <2>13. Stored(buffer') = Stored(buffer) + first - GlobalBatch + (fresh - first)
    BY <1>6, <1>8, <2>6, <2>7, <2>8, <2>9, <2>12
  <2>14. remainSamples' - Stored(buffer') = remainSamples - Stored(buffer) - n
    BY <1>2, <1>5, <1>6, <1>8, <2>2, <2>6, <2>13
  <2>. QED BY <1>9, <2>12, <2>14
<1>. QED BY <1>11, <1>12

-----------------------------------------------------------------------------
(* The types, step by step *)

LEMMA FirstOf ==
  ASSUME NEW A, NEW q \in Seq(A), q # <<>>
  PROVE  Head(q) \in A /\ Tail(q) \in Seq(A)
OBVIOUS

\* One step more is started.
LEMMA StartedTypes ==
  ASSUME StepsTyped, currentStep' = currentStep + 1, totalSteps' \in Nat,
         syncs' \in Seq(CommandsOf(currentStep)),
         NEW cmds, \A p \in Policies : cmds[p] \in Seq(CommandsOf(currentStep)),
         NEW total \in Nat,
         status' = [p \in Policies |-> "RUNNING"],
         steps' = [p \in Policies |-> Append(cmds[p], [step |-> currentStep + 1, total |-> total])]
  PROVE  StepsTyped'
<1>. DEFINE e == [step |-> currentStep + 1, total |-> total]
            s == currentStep + 1
<1>1. currentStep \in Nat /\ s \in Nat /\ currentStep <= s
  BY DEF StepsTyped
<1>2. e \in CommandsOf(s)
  BY <1>1 DEF CommandsOf
<1>3. \A p \in Policies : cmds[p] \in Seq(CommandsOf(s))
  <2>1. \A q \in Seq(CommandsOf(currentStep)) : q \in Seq(CommandsOf(s))
    BY <1>1, CommandsGrow
  <2>. QED BY <2>1
<1>4. steps' = [p \in Policies |-> Append(cmds[p], e)] /\ currentStep' = s
  OBVIOUS
<1>5. syncs' \in Seq(CommandsOf(s))
  BY <1>1, CommandsGrow
<1>6. status' \in [Policies -> {"READY", "RUNNING", "REDUCED"}]
  OBVIOUS
<1>. HIDE DEF e, s
<1>7. \A p \in Policies : steps'[p] \in Seq(CommandsOf(s))
  <2>1. \A p \in Policies : steps'[p] = Append(cmds[p], e)
    BY <1>4
  <2>. QED BY <1>2, <1>3, <2>1
<1>8. DOMAIN steps' = Policies
  BY <1>4
<1>. QED BY <1>1, <1>4, <1>5, <1>6, <1>7, <1>8 DEF StepsTyped

\* What the rollouts have when the step counter may have grown.
LEMMA QueuesStay ==
  ASSUME QueuesTyped, drawn \in Nat, drawn' = drawn,
         currentStep \in Nat, currentStep' \in Nat, currentStep <= currentStep',
         \A r \in Rollouts : rewardQueue'[r] \in Seq(BatchesOf(drawn, currentStep)),
         weightVersion' \in [Rollouts -> 0..currentStep]
  PROVE  QueuesTyped'
<1>1. \A r \in Rollouts : rewardQueue'[r] \in Seq(BatchesOf(drawn', currentStep'))
  <2>1. \A q \in Seq(BatchesOf(drawn, currentStep)) : q \in Seq(BatchesOf(drawn, currentStep'))
    <3>1. drawn <= drawn
      OBVIOUS
    <3>. QED BY <3>1, BatchesGrow
  <2>. QED BY <2>1
<1>2. weightVersion' \in [Rollouts -> 0..currentStep']
  <2>1. 0..currentStep \subseteq 0..currentStep'
    OBVIOUS
  <2>. QED BY <2>1
<1>. QED BY <1>1, <1>2 DEF QueuesTyped

LEMMA FetcherStays ==
  ASSUME FetcherTyped, UNCHANGED fetcherVars
  PROVE  FetcherTyped'
BY DEF FetcherTyped, Ordered, fetcherVars

LEMMA LeaveTypes ==
  ASSUME RankTyped, NEW r \in Rollouts, Leave(r)
  PROVE  RankTyped'
<1>. USE DEF RankTyped
<1>1. /\ UNCHANGED <<fetcherVars, samplesOnTheFly, trainVars, totalSteps, syncs, ended, stopping,
                     fetchEnd, promptQueue, rewardQueue, weightVersion>>
      /\ stage' = [stage EXCEPT ![r] = "stopped"]
  BY DEF Leave
<1>2. FetcherTyped'
  BY <1>1, FetcherStays
<1>3. QueuesTyped' /\ BuffersTyped' /\ StepsTyped'
  BY <1>1 DEF QueuesTyped, BuffersTyped, StepsTyped, fetcherVars, trainVars
<1>4. PlainTyped'
  BY <1>1 DEF PlainTyped, trainVars
<1>. QED BY <1>2, <1>3, <1>4

LEMMA ReportTypes ==
  ASSUME DispatchInv, RankTyped, NEW r \in Rollouts, Report(r)
  PROVE  RankTyped'
<1>. USE DEF RankTyped
<1>1. /\ UNCHANGED <<fetcherVars, samplesOnTheFly, totalSteps, syncs, ended, stage, stopping,
                     fetchEnd, promptQueue, weightVersion>>
      /\ rewardQueue[r] # <<>>
      /\ rewardQueue' = [rewardQueue EXCEPT ![r] = Tail(@)]
  BY DEF Report
<1>2. FetcherTyped'
  BY <1>1, FetcherStays
<1>3. StepsTyped' /\ currentStep' \in {currentStep, currentStep + 1}
  <2>1. \/ UNCHANGED <<currentStep, status, steps>>
        \/ /\ currentStep' = currentStep + 1
           /\ status' = [p \in Policies |-> "RUNNING"]
           /\ steps' = [p \in Policies |->
                          Append(steps[p], [step |-> currentStep + 1, total |-> totalSteps])]
    BY DEF Report, StartStep
  <2>2. CASE UNCHANGED <<currentStep, status, steps>>
    BY <1>1, <2>2 DEF StepsTyped
  <2>3. CASE /\ currentStep' = currentStep + 1
             /\ status' = [p \in Policies |-> "RUNNING"]
             /\ steps' = [p \in Policies |->
                            Append(steps[p], [step |-> currentStep + 1, total |-> totalSteps])]
    <3>1. /\ totalSteps \in Nat /\ totalSteps' \in Nat
          /\ syncs' \in Seq(CommandsOf(currentStep))
          /\ \A p \in Policies : steps[p] \in Seq(CommandsOf(currentStep))
      BY <1>1 DEF StepsTyped
    <3>. QED BY <2>3, <3>1, StartedTypes
  <2>. QED BY <2>1, <2>2, <2>3
<1>4. /\ currentStep \in Nat /\ currentStep' \in Nat /\ currentStep <= currentStep'
      /\ drawn \in Nat /\ drawn' = drawn
  BY <1>1, <1>3, AllType DEF StepsTyped, fetcherVars, DispatchInv
<1>5. QueuesTyped'
  <2>1. \A s \in Rollouts : rewardQueue'[s] \in Seq(BatchesOf(drawn, currentStep))
    <3>1. \A s \in Rollouts : rewardQueue[s] \in Seq(BatchesOf(drawn, currentStep))
      BY DEF QueuesTyped
    <3>2. Tail(rewardQueue[r]) \in Seq(BatchesOf(drawn, currentStep))
      BY <1>1, <3>1, FirstOf
    <3>. QED BY <1>1, <3>1, <3>2 DEF DispatchInv
  <2>2. weightVersion' \in [Rollouts -> 0..currentStep]
    BY <1>1 DEF QueuesTyped
  <2>. QED BY <1>4, <2>1, <2>2, QueuesStay
<1>6. BuffersTyped'
  <2>1. Fits(buffer', drawn, currentStep)
    BY ReportPuts
  <2>2. SamplesOf(drawn, currentStep) \subseteq SamplesOf(drawn, currentStep')
    <3>1. drawn <= drawn
      BY <1>4
    <3>. QED BY <1>4, <3>1, SamplesGrow
  <2>3. Fits(buffer', drawn, currentStep')
    BY <2>1, <2>2 DEF Fits
  <2>. QED BY <1>4, <2>3 DEF BuffersTyped
<1>7. PlainTyped'
  <2>1. remainSamples' \in Int
    <3>. DEFINE batch == Head(rewardQueue[r])
                n     == Cardinality(batch.prompts) * NGen
                fresh == FreshCount(batch.version, n)
    <3>1. remainSamples' \in {remainSamples - (n - fresh), remainSamples - (n - fresh) - GlobalBatch}
      BY DEF Report, StartStep
    <3>2. n \in Nat
      <4>1. batch \in BatchesOf(drawn, currentStep)
        BY <1>1, FirstOf DEF QueuesTyped
      <4>2. 1..drawn \subseteq 1..All
        BY AllType DEF DispatchInv
      <4>3. batch.prompts \subseteq 1..All
        BY <4>1, <4>2 DEF BatchesOf
      <4>4. n = Cardinality(batch.prompts) * NGen
        OBVIOUS
      <4>. HIDE DEF batch, n
      <4>. QED BY <4>3, <4>4, Numbers
    <3>3. fresh \in Nat
      <4>1. FreshCount(batch.version, n) \in 0..n
        BY <3>2, FreshType
      <4>. QED BY <3>2, <4>1
    <3>. HIDE DEF n, fresh
    <3>. QED BY <3>1, <3>2, <3>3, Parameters DEF PlainTyped
  <2>. QED BY <1>1, <2>1 DEF PlainTyped
<1>. QED BY <1>2, <1>3, <1>5, <1>6, <1>7

LEMMA SendEndSignalTypes ==
  ASSUME DispatchInv, RankTyped, NEW r \in Rollouts, SendEndSignal(r)
  PROVE  RankTyped'
<1>. USE DEF RankTyped
<1>1. /\ UNCHANGED <<fetcherVars, samplesOnTheFly, syncs, stopping, fetchEnd, promptQueue,
                     rewardQueue, weightVersion, remainSamples, buffer>>
      /\ stage' = [stage EXCEPT ![r] = NextRound(r)]
      /\ ended' = [ended EXCEPT ![r] = TRUE]
  BY DEF SendEndSignal, trainVars
<1>2. FetcherTyped'
  BY <1>1, FetcherStays
<1>3. StepsTyped' /\ currentStep' \in {currentStep, currentStep + 1}
  <2>1. currentStep \in Nat /\ totalSteps \in Nat /\ BaseVersion \in Nat
    BY BaseType DEF StepsTyped
  <2>2. \/ /\ totalSteps' \in {totalSteps, BaseVersion}
           /\ UNCHANGED <<currentStep, status, steps>>
        \/ /\ totalSteps' = currentStep + 1
           /\ currentStep' = currentStep + 1
           /\ status' = [p \in Policies |-> "RUNNING"]
           /\ steps' = [p \in Policies |->
                          Append(steps[p], [step |-> currentStep + 1, total |-> currentStep + 1])]
    BY DEF SendEndSignal, trainVars
  <2>3. CASE /\ totalSteps' \in {totalSteps, BaseVersion}
             /\ UNCHANGED <<currentStep, status, steps>>
    BY <1>1, <2>1, <2>3 DEF StepsTyped
  <2>4. CASE /\ totalSteps' = currentStep + 1
             /\ currentStep' = currentStep + 1
             /\ status' = [p \in Policies |-> "RUNNING"]
             /\ steps' = [p \in Policies |->
                            Append(steps[p], [step |-> currentStep + 1, total |-> currentStep + 1])]
    <3>1. /\ currentStep + 1 \in Nat /\ totalSteps' \in Nat
          /\ syncs' \in Seq(CommandsOf(currentStep))
          /\ \A p \in Policies : steps[p] \in Seq(CommandsOf(currentStep))
      BY <1>1, <2>1, <2>4 DEF StepsTyped
    <3>. QED BY <2>4, <3>1, StartedTypes
  <2>. QED BY <2>2, <2>3, <2>4
<1>4. /\ currentStep \in Nat /\ currentStep' \in Nat /\ currentStep <= currentStep'
      /\ drawn \in Nat /\ drawn' = drawn /\ drawn <= drawn'
  BY <1>1, <1>3, AllType DEF StepsTyped, fetcherVars, DispatchInv
<1>5. QueuesTyped'
  BY <1>1, <1>4, QueuesStay DEF QueuesTyped
<1>6. BuffersTyped'
  <2>1. \A p \in Policies : buffer'[p] \in SUBSET buffer[p]
    BY <1>1
  <2>. QED BY <1>4, <2>1, SamplesStay
<1>7. PlainTyped'
  <2>1. NextRound(r) \in {"loop", "stopped"}
    BY DEF NextRound
  <2>2. stage' \in [Rollouts -> {"loop", "ending", "stopped"}]
    BY <1>1, <2>1 DEF PlainTyped
  <2>. QED BY <1>1, <2>2 DEF PlainTyped
<1>. QED BY <1>2, <1>3, <1>5, <1>6, <1>7

\* The buffers and the counters of the steps, whatever the acknowledgement starts.
LEMMA TrainAckMoves ==
  ASSUME DispatchInv, RankTyped, NEW p \in Policies, TrainAck(p)
  PROVE  /\ StepsTyped' /\ currentStep' \in {currentStep, currentStep + 1}
         /\ Fits(buffer', drawn, currentStep) /\ remainSamples' \in Int
         /\ remainSamples' - Stored(buffer') = remainSamples - Stored(buffer)
<1>. USE DEF RankTyped
<1>. DEFINE cmd   == Head(steps[p])
            acked == [status EXCEPT ![p] = "REDUCED"]
            ready == [q \in Policies |-> "READY"]
            cmds  == [steps EXCEPT ![p] = Tail(@)]
<1>1. /\ currentStep \in Nat /\ totalSteps \in Nat
      /\ status \in [Policies -> {"READY", "RUNNING", "REDUCED"}]
      /\ DOMAIN steps = Policies /\ \A q \in Policies : steps[q] \in Seq(CommandsOf(currentStep))
      /\ syncs \in Seq(CommandsOf(currentStep))
      /\ steps[p] # <<>> /\ UNCHANGED totalSteps
  BY DEF StepsTyped, TrainAck
<1>2. cmd \in CommandsOf(currentStep) /\ Tail(steps[p]) \in Seq(CommandsOf(currentStep))
  BY <1>1, FirstOf
<1>3. /\ acked \in [Policies -> {"READY", "RUNNING", "REDUCED"}]
      /\ ready \in [Policies -> {"READY", "RUNNING", "REDUCED"}]
      /\ DOMAIN cmds = Policies /\ \A q \in Policies : cmds[q] \in Seq(CommandsOf(currentStep))
  BY <1>1, <1>2
<1>4. syncs' \in Seq(CommandsOf(currentStep))
  <2>1. syncs' = syncs \/ syncs' = Append(syncs, cmd)
    BY DEF TrainAck
  <2>. HIDE DEF cmd
  <2>. QED BY <1>1, <1>2, <2>1
<1>5. /\ Ordered /\ drawn \in 0..All /\ Fits(buffer, drawn, currentStep) /\ remainSamples \in Int
  BY DEF DispatchInv, FetcherTyped, BuffersTyped, PlainTyped
<1>6. \/ /\ status' \in {acked, ready} /\ steps' = cmds
         /\ UNCHANGED <<currentStep, remainSamples, buffer>>
      \/ /\ RolloutsEnough(buffer)
         /\ currentStep' = currentStep + 1
         /\ remainSamples' = remainSamples - GlobalBatch
         /\ buffer' = [q \in Policies |-> (buffer[q] \ NextOf(buffer[q])) \cup {}]
         /\ status' = [q \in Policies |-> "RUNNING"]
         /\ steps' = [q \in Policies |->
                        Append(cmds[q], [step |-> currentStep + 1, total |-> totalSteps])]
  BY DEF TrainAck, StartStep, CanStart
<1>. HIDE DEF acked, ready, cmds, cmd
<1>7. CASE /\ status' \in {acked, ready} /\ steps' = cmds
           /\ UNCHANGED <<currentStep, remainSamples, buffer>>
  <2>1. StepsTyped'
    BY <1>1, <1>3, <1>4, <1>7 DEF StepsTyped
  <2>2. Stored(buffer') = Stored(buffer)
    BY <1>7
  <2>. QED BY <1>5, <1>7, <2>1, <2>2
<1>8. CASE /\ RolloutsEnough(buffer)
           /\ currentStep' = currentStep + 1
           /\ remainSamples' = remainSamples - GlobalBatch
           /\ buffer' = [q \in Policies |-> (buffer[q] \ NextOf(buffer[q])) \cup {}]
           /\ status' = [q \in Policies |-> "RUNNING"]
           /\ steps' = [q \in Policies |->
                          Append(cmds[q], [step |-> currentStep + 1, total |-> totalSteps])]
  <2>1. StepsTyped'
    <3>1. StepsTyped /\ totalSteps' \in Nat
      BY <1>1
    <3>. QED BY <1>1, <1>3, <1>4, <1>8, <3>1, StartedTypes
  <2>2. \A q \in Policies : buffer'[q] = buffer[q] \ NextOf(buffer[q])
    BY <1>8
  <2>3. Fits(buffer', drawn, currentStep) /\ Stored(buffer') = Stored(buffer) - GlobalBatch
    BY <1>1, <1>5, <1>8, <2>2, TakeShares
  <2>4. Stored(buffer) \in Nat /\ GlobalBatch \in Nat
    BY <1>5, StoredType, Parameters DEF Fits
  <2>5. remainSamples' \in Int /\ remainSamples' - Stored(buffer') = remainSamples - Stored(buffer)
    BY <1>5, <1>8, <2>3, <2>4
  <2>. QED BY <1>8, <2>1, <2>3, <2>5
<1>. QED BY <1>6, <1>7, <1>8

LEMMA TrainAckTypes ==
  ASSUME DispatchInv, RankTyped, NEW p \in Policies, TrainAck(p)
  PROVE  RankTyped'
<1>. USE DEF RankTyped
<1>1. UNCHANGED <<fetcherVars, totalSteps, ended, rolloutVars>>
  BY DEF TrainAck
<1>2. FetcherTyped'
  BY <1>1, FetcherStays
<1>3. /\ StepsTyped' /\ currentStep' \in {currentStep, currentStep + 1}
      /\ Fits(buffer', drawn, currentStep) /\ remainSamples' \in Int
  BY TrainAckMoves
<1>4. /\ currentStep \in Nat /\ currentStep' \in Nat /\ currentStep <= currentStep'
      /\ drawn \in Nat /\ drawn' = drawn /\ drawn <= drawn'
  BY <1>1, <1>3, AllType DEF StepsTyped, fetcherVars, DispatchInv
<1>5. QueuesTyped'
  BY <1>1, <1>4, QueuesStay DEF QueuesTyped, rolloutVars
<1>6. BuffersTyped'
  <2>1. SamplesOf(drawn, currentStep) \subseteq SamplesOf(drawn, currentStep')
    BY <1>4, SamplesGrow
  <2>2. Fits(buffer', drawn, currentStep')
    BY <1>3, <2>1 DEF Fits
  <2>. QED BY <1>4, <2>2 DEF BuffersTyped
<1>7. PlainTyped'
  <2>1. samplesOnTheFly' \in {samplesOnTheFly, samplesOnTheFly - GlobalBatch}
    BY DEF TrainAck
  <2>2. samplesOnTheFly' \in Int
    BY <2>1, Parameters DEF PlainTyped
  <2>. QED BY <1>1, <1>3, <2>2 DEF PlainTyped, rolloutVars
<1>. QED BY <1>2, <1>3, <1>5, <1>6, <1>7

LEMMA BroadcastTypes ==
  ASSUME DispatchInv, RankTyped, Broadcast
  PROVE  RankTyped'
<1>. USE DEF RankTyped
<1>1. /\ UNCHANGED <<fetcherVars, samplesOnTheFly, trainVars, totalSteps, ended, stage, fetchEnd,
                     promptQueue, rewardQueue>>
      /\ syncs # <<>> /\ syncs' = Tail(syncs)
      /\ weightVersion' = [r \in Rollouts |-> Head(syncs).step]
      /\ stopping' = [r \in Rollouts |-> Head(syncs).step >= Head(syncs).total]
  BY DEF Broadcast
<1>2. Head(syncs) \in CommandsOf(currentStep) /\ Tail(syncs) \in Seq(CommandsOf(currentStep))
  BY <1>1, FirstOf DEF StepsTyped
<1>3. FetcherTyped'
  BY <1>1, FetcherStays
<1>4. StepsTyped'
  BY <1>1, <1>2 DEF StepsTyped, trainVars
<1>5. QueuesTyped'
  BY <1>1, <1>2 DEF QueuesTyped, CommandsOf, trainVars, fetcherVars
<1>6. BuffersTyped'
  BY <1>1 DEF BuffersTyped, trainVars, fetcherVars
<1>7. PlainTyped'
  <2>1. (Head(syncs).step >= Head(syncs).total) \in BOOLEAN
    <3>1. Head(syncs).step \in Int /\ Head(syncs).total \in Int
      BY <1>2 DEF CommandsOf
    <3>. QED BY <3>1
  <2>2. stopping' \in [Rollouts -> BOOLEAN]
    BY <1>1, <2>1, Zenon
  <2>. QED BY <1>1, <2>2 DEF PlainTyped, trainVars
<1>. QED BY <1>3, <1>4, <1>5, <1>6, <1>7

LEMMA NextTyped ==
  ASSUME DispatchInv, RankTyped, [Next]_vars
  PROVE  RankTyped'
<1>1. CASE \E r \in Rollouts : Fetch(r)
  BY <1>1, FetchTypes
<1>2. CASE \E r \in Rollouts : GenerateHeld(r)
  BY <1>2, GenerateHeldTypes
<1>3. CASE \E r \in Rollouts : Leave(r)
  BY <1>3, LeaveTypes
<1>4. CASE \E r \in Rollouts : Report(r)
  BY <1>4, ReportTypes
<1>5. CASE \E r \in Rollouts : SendEndSignal(r)
  BY <1>5, SendEndSignalTypes
<1>6. CASE \E p \in Policies : TrainAck(p)
  BY <1>6, TrainAckTypes
<1>7. CASE Broadcast
  BY <1>7, BroadcastTypes
<1>8. CASE UNCHANGED vars
  <2>1. UNCHANGED <<fetcherVars, samplesOnTheFly, trainVars, totalSteps, syncs, ended, rolloutVars>>
    BY <1>8 DEF vars
  <2>2. FetcherTyped'
    BY <2>1, FetcherStays DEF RankTyped
  <2>3. QueuesTyped' /\ BuffersTyped' /\ StepsTyped' /\ PlainTyped'
    BY <2>1 DEF RankTyped, QueuesTyped, BuffersTyped, StepsTyped, PlainTyped, fetcherVars,
                trainVars, rolloutVars
  <2>. QED BY <2>2, <2>3 DEF RankTyped
<1>. QED BY <1>1, <1>2, <1>3, <1>4, <1>5, <1>6, <1>7, <1>8 DEF Next

-----------------------------------------------------------------------------
(* remain_samples_num *)

\* The prompts at the rollouts, and those that are not reported yet.
Generating == UNION {AtRollout(r) : r \in Rollouts}
Unreported == Epochs * Size - drawn + Cardinality(held) + Cardinality(Generating)

LEMMA UnreportedType ==
  ASSUME DispatchInv
  PROVE  /\ drawn \in Nat /\ IsFiniteSet(held) /\ Cardinality(held) \in Nat
         /\ IsFiniteSet(Generating) /\ Cardinality(Generating) \in Nat
         /\ All = Epochs * Size /\ All \in Nat /\ Unreported \in Int
<1>1. /\ drawn \in 0..All /\ held \subseteq 1..drawn
      /\ \A r \in Rollouts : AtRollout(r) \subseteq 1..drawn
  BY DEF DispatchInv, PromptsAreSeparate
<1>2. drawn \in Nat /\ All \in Nat
  BY <1>1, AllType
<1>3. IsFiniteSet(1..drawn) /\ Generating \subseteq 1..drawn
  BY <1>1, <1>2, FS_Interval DEF Generating
<1>4. /\ IsFiniteSet(held) /\ Cardinality(held) \in Nat
      /\ IsFiniteSet(Generating) /\ Cardinality(Generating) \in Nat
  BY <1>1, <1>3, FS_Subset, FS_CardinalityType
<1>. QED BY <1>2, <1>4 DEF Unreported, All

\* remain_samples_num, with the sum of the buffers.
Counted == remainSamples = Stored(buffer) + NGen * Unreported

LEMMA CountedIsExact ==
  ASSUME BuffersTyped
  PROVE  Counted <=> RemainIsExact
<1>1. Pending = Stored(buffer)
  BY PendingType
<1>. QED BY <1>1 DEF Counted, RemainIsExact, Unreported, Generating

LEMMA InitCounted == Init => Counted
<1>. SUFFICES ASSUME Init PROVE Counted
  OBVIOUS
<1>1. DispatchInv /\ RankTyped
  BY InitSeparates, InitTyped
<1>2. Stored(buffer) = 0
  <2>. DEFINE f == [p \in Policies |-> Cardinality(buffer[p])]
  <2>1. \A p \in Policies : f[p] = 0
    BY FS_EmptySet DEF Init
  <2>2. f \in [Policies -> Int]
    BY <2>1
  <2>. HIDE DEF f
  <2>3. SumFunction(f) = 0
    BY <2>1, <2>2, Parameters, SumZero
  <2>. QED BY <2>3 DEF Stored, f
<1>3. Generating = {}
  <2>1. \A r \in Rollouts : promptQueue[r].prompts = {} /\ rewardQueue[r] = <<>>
    BY DEF Init, NoPrompts
  <2>2. \A r \in Rollouts : Waiting(rewardQueue[r]) = {}
    BY <2>1 DEF Waiting
  <2>3. \A r \in Rollouts : AtRollout(r) = {}
    BY <2>1, <2>2, AtRolloutForm
  <2>. QED BY <2>3 DEF Generating
<1>4. Unreported = All
  <2>1. held = {} /\ drawn = 0 /\ Cardinality({}) = 0
    BY FS_EmptySet DEF Init
  <2>. QED BY <1>3, <2>1, AllType DEF Unreported, All
<1>5. remainSamples = All * NGen
  BY DEF Init, All
<1>6. All * NGen = 0 + NGen * All
  BY AllType, Parameters
<1>. QED BY <1>2, <1>4, <1>5, <1>6 DEF Counted

\* The prompts that an answer moves stay unreported.
LEMMA TakesKeep ==
  ASSUME DispatchInv, DispatchInv', NEW r \in Rollouts, NEW S, Takes(r, S)
  PROVE  /\ Unreported' = Unreported
         /\ Cardinality(S) \in Nat
         /\ Cardinality(Generating') = Cardinality(Generating) + Cardinality(S)
         /\ drawn' - Cardinality(held') = drawn - Cardinality(held) + Cardinality(S)
<1>. USE DEF Takes
<1>. DEFINE new == {i \in 1..All : drawn < i /\ i <= drawn'}
<1>1. /\ drawn \in Nat /\ IsFiniteSet(held) /\ Cardinality(held) \in Nat
      /\ IsFiniteSet(Generating) /\ Cardinality(Generating) \in Nat
      /\ All = Epochs * Size /\ All \in Nat
      /\ held \subseteq 1..drawn /\ drawn \in 0..All
      /\ drawn' \in Nat /\ drawn' \in drawn..All
  <2>. HIDE DEF Takes
  <2>1. /\ drawn \in Nat /\ IsFiniteSet(held) /\ Cardinality(held) \in Nat
        /\ IsFiniteSet(Generating) /\ Cardinality(Generating) \in Nat
        /\ All = Epochs * Size /\ All \in Nat
    BY UnreportedType
  <2>2. held \subseteq 1..drawn /\ drawn \in 0..All
    BY DEF DispatchInv, PromptsAreSeparate
  <2>3. drawn' \in drawn..All
    BY DEF Takes
  <2>4. drawn' \in Nat
    BY <2>1, <2>3
  <2>. QED BY <2>1, <2>2, <2>3, <2>4
<1>2. IsFiniteSet(new) /\ Cardinality(new) = drawn' - drawn
  <2>1. new = (drawn + 1)..drawn'
    BY <1>1
  <2>2. CASE drawn = drawn'
    <3>1. new = {}
      BY <1>1, <2>2
    <3>. HIDE DEF new
    <3>. QED BY <1>1, <2>2, <3>1, FS_EmptySet
  <2>3. CASE drawn # drawn'
    <3>1. drawn + 1 \in Int /\ drawn' \in Int /\ ~(drawn + 1 > drawn') /\ drawn' - (drawn + 1) + 1 = drawn' - drawn
      BY <1>1, <2>3
    <3>. QED BY <2>1, <3>1, FS_Interval
  <2>. QED BY <2>2, <2>3
<1>3. held \cap new = {}
  BY <1>1
<1>4. S \subseteq held \cup new
  <2>1. ASSUME NEW i \in S PROVE i \in held \cup new
    <3>1. i \in 1..All /\ i \in 1..drawn' /\ (i \in 1..drawn => i \in held)
      OBVIOUS
    <3>. QED BY <1>1, <3>1
  <2>. QED BY <2>1
<1>5. held' = (held \cup new) \ S
  OBVIOUS
<1>. HIDE DEF new
<1>6. IsFiniteSet(held \cup new) /\ Cardinality(held \cup new) = Cardinality(held) + (drawn' - drawn)
  BY <1>1, <1>2, <1>3, DisjointUnion
<1>7. IsFiniteSet(S) /\ Cardinality(S) \in Nat
  BY <1>4, <1>6, FS_Subset, FS_CardinalityType
<1>8. Cardinality(held') = Cardinality(held) + (drawn' - drawn) - Cardinality(S)
  <2>1. (held \cup new) \cap S = S
    BY <1>4
  <2>2. Cardinality((held \cup new) \ S) = Cardinality(held \cup new) - Cardinality((held \cup new) \cap S)
    BY <1>6, FS_Difference
  <2>3. Cardinality(held') = Cardinality((held \cup new) \ S)
    BY <1>5, Zenon
  <2>4. Cardinality((held \cup new) \cap S) = Cardinality(S)
    BY <2>1, Zenon
  <2>5. Cardinality(held') = Cardinality(held \cup new) - Cardinality(S)
    BY <2>2, <2>3, <2>4, Zenon
  <2>. HIDE DEF Takes
  <2>. QED BY <1>1, <1>6, <1>7, <2>5
<1>9. Cardinality(Generating') = Cardinality(Generating) + Cardinality(S)
  <2>1. Generating' = Generating \cup S
    <3>1. Generating' = UNION {AtRollout(s)' : s \in Rollouts}
      BY DEF Generating
    <3>2. AtRollout(r)' = AtRollout(r) \cup S
      OBVIOUS
    <3>3. \A s \in Rollouts \ {r} : AtRollout(s)' = AtRollout(s)
      OBVIOUS
    <3>. QED BY <3>1, <3>2, <3>3 DEF Generating
  <2>2. Generating \cap S = {}
    <3>1. \A s \in Rollouts : AtRollout(s) \cap S = {}
      BY DEF DispatchInv, PromptsAreSeparate
    <3>. QED BY <3>1 DEF Generating
  <2>. QED BY <1>1, <1>7, <2>1, <2>2, DisjointUnion
<1>. HIDE DEF Takes
<1>10. All - drawn' + Cardinality(held') + Cardinality(Generating')
         = All - drawn + Cardinality(held) + Cardinality(Generating)
  <2>1. \A a, d, e, h, g, c \in Int : a - e + (h + (e - d) - c) + (g + c) = a - d + h + g
    OBVIOUS
  <2>. QED BY <1>1, <1>7, <1>8, <1>9, <2>1
<1>11. Unreported = All - drawn + Cardinality(held) + Cardinality(Generating)
  BY <1>1 DEF Unreported
<1>12. Unreported' = All - drawn' + Cardinality(held') + Cardinality(Generating')
  BY <1>1 DEF Unreported
<1>13. drawn' - Cardinality(held') = drawn - Cardinality(held) + Cardinality(S)
  <2>1. \A d, e, h, c \in Int : e - (h + (e - d) - c) = d - h + c
    OBVIOUS
  <2>. QED BY <1>1, <1>7, <1>8, <2>1
<1>. QED BY <1>7, <1>9, <1>10, <1>11, <1>12, <1>13

\* The prompts of a report are no longer unreported.
LEMMA ReportsCount ==
  ASSUME DispatchInv, NEW r \in Rollouts, NEW S, Reports(r, S)
  PROVE  /\ Cardinality(S) \in Nat
         /\ Cardinality(Generating') = Cardinality(Generating) - Cardinality(S)
         /\ Unreported' = Unreported - Cardinality(S)
<1>. USE DEF Reports
<1>1. /\ drawn \in Nat /\ Cardinality(held) \in Nat
      /\ IsFiniteSet(Generating) /\ Cardinality(Generating) \in Nat
      /\ All = Epochs * Size /\ All \in Nat
  BY UnreportedType
<1>2. Generating' = Generating \ S
  <2>1. Generating' = UNION {AtRollout(s)' : s \in Rollouts}
    BY DEF Generating
  <2>2. AtRollout(r)' = AtRollout(r) \ S /\ S \subseteq AtRollout(r)
    OBVIOUS
  <2>3. \A s \in Rollouts \ {r} : AtRollout(s)' = AtRollout(s) /\ AtRollout(s) \cap AtRollout(r) = {}
    BY DEF DispatchInv, PromptsAreSeparate
  <2>4. \A s \in Rollouts : AtRollout(s)' = AtRollout(s) \ S
    BY <2>2, <2>3
  <2>. QED BY <2>1, <2>4 DEF Generating
<1>3. S \subseteq Generating
  BY DEF Generating
<1>4. IsFiniteSet(S) /\ Cardinality(S) \in Nat
  BY <1>1, <1>3, FS_Subset, FS_CardinalityType
<1>5. Cardinality(Generating') = Cardinality(Generating) - Cardinality(S)
  <2>1. Generating \cap S = S
    BY <1>3
  <2>2. Cardinality(Generating \ S) = Cardinality(Generating) - Cardinality(Generating \cap S)
    BY <1>1, FS_Difference
  <2>. QED BY <1>2, <2>1, <2>2
<1>6. UNCHANGED <<drawn, held>>
  OBVIOUS
<1>. QED BY <1>1, <1>4, <1>5, <1>6 DEF Unreported

\* The other steps leave the prompts where they are.
LEMMA StillUnreported ==
  ASSUME UNCHANGED <<drawn, held>>, \A r \in Rollouts : AtRollout(r)' = AtRollout(r)
  PROVE  Unreported' = Unreported /\ Generating' = Generating
<1>1. Generating' = UNION {AtRollout(r)' : r \in Rollouts}
  BY DEF Generating
<1>2. Generating' = Generating
  BY <1>1 DEF Generating
<1>. QED BY <1>2 DEF Unreported

LEMMA NextCounted ==
  ASSUME DispatchInv, DispatchInv', RankTyped, Counted, [Next]_vars
  PROVE  Counted'
<1>0. Counted' <=> remainSamples' = Stored(buffer') + NGen * Unreported'
  BY DEF Counted, Stored
<1>1. CASE \E r \in Rollouts : Fetch(r)
  <2>1. PICK r \in Rollouts : Fetch(r)
    BY <1>1
  <2>2. PICK S : Takes(r, S)
    BY <2>1, FetchMoves
  <2>3. Unreported' = Unreported
    BY <2>2, TakesKeep
  <2>4. UNCHANGED <<remainSamples, buffer>>
    BY <2>1 DEF Fetch, trainVars
  <2>. QED BY <1>0, <2>3, <2>4 DEF Counted
<1>2. CASE \E r \in Rollouts : GenerateHeld(r)
  <2>1. PICK r \in Rollouts : GenerateHeld(r)
    BY <1>2
  <2>2. UNCHANGED <<drawn, held>> /\ \A s \in Rollouts : AtRollout(s)' = AtRollout(s)
    BY <2>1, GenerateHeldMoves
  <2>3. UNCHANGED <<remainSamples, buffer>>
    BY <2>1 DEF GenerateHeld, trainVars
  <2>. QED BY <1>0, <2>2, <2>3, StillUnreported DEF Counted
<1>3. CASE \E r \in Rollouts : Report(r)
  <2>1. PICK r \in Rollouts : Report(r)
    BY <1>3
  <2>2. PICK S : Reports(r, S)
    BY <2>1, ReportMoves
  <2>3. S = Head(rewardQueue[r]).prompts
    BY <2>2 DEF Reports
  <2>4. Cardinality(S) \in Nat /\ Unreported' = Unreported - Cardinality(S)
    BY <2>2, ReportsCount
  <2>5. remainSamples' - Stored(buffer') = remainSamples - Stored(buffer) - Cardinality(S) * NGen
    BY <2>1, <2>3, ReportPuts
  <2>6. remainSamples' \in Int /\ remainSamples \in Int /\ Stored(buffer') \in Int /\ Stored(buffer) \in Int
    <3>1. RankTyped'
      BY NextTyped
    <3>2. Fits(buffer', drawn, currentStep) /\ Fits(buffer, drawn, currentStep)
      BY <2>1, <2>3, ReportPuts DEF RankTyped, BuffersTyped
    <3>3. \A b : Fits(b, drawn, currentStep) => Stored(b) \in Int
      BY StoredType DEF Fits
    <3>. QED BY <3>1, <3>2, <3>3 DEF RankTyped, PlainTyped
  <2>7. \A x \in Int, c \in Nat : NGen * (x - c) = NGen * x - c * NGen /\ NGen * x \in Int /\ c * NGen \in Int
    BY Parameters
  <2>8. Unreported \in Int
    BY UnreportedType
  <2>9. /\ NGen * Unreported' = NGen * Unreported - Cardinality(S) * NGen
        /\ NGen * Unreported \in Int /\ Cardinality(S) * NGen \in Int
    BY <2>4, <2>7, <2>8
  <2>. QED BY <1>0, <2>5, <2>6, <2>9 DEF Counted
<1>4. CASE \E p \in Policies : TrainAck(p)
  <2>1. PICK p \in Policies : TrainAck(p)
    BY <1>4
  <2>2. /\ Fits(buffer', drawn, currentStep) /\ remainSamples' \in Int
        /\ remainSamples' - Stored(buffer') = remainSamples - Stored(buffer)
    BY <2>1, TrainAckMoves
  <2>3. remainSamples \in Int /\ Stored(buffer') \in Int /\ Stored(buffer) \in Int
    <3>1. Fits(buffer, drawn, currentStep)
      BY DEF RankTyped, BuffersTyped
    <3>2. \A b : Fits(b, drawn, currentStep) => Stored(b) \in Int
      BY StoredType DEF Fits
    <3>. QED BY <2>2, <3>1, <3>2 DEF RankTyped, PlainTyped
  <2>4. Unreported' = Unreported
    <3>1. UNCHANGED <<drawn, held, promptQueue, rewardQueue>>
      BY <2>1 DEF TrainAck, fetcherVars, rolloutVars
    <3>2. \A s \in Rollouts : AtRollout(s)' = AtRollout(s)
      BY <3>1 DEF AtRollout, Batches
    <3>. QED BY <3>1, <3>2, StillUnreported
  <2>5. NGen * Unreported \in Int
    <3>1. \A x \in Int : NGen * x \in Int
      BY Parameters
    <3>. QED BY <3>1, UnreportedType
  <2>. QED BY <1>0, <2>2, <2>3, <2>4, <2>5 DEF Counted
<1>5. CASE \/ \E r \in Rollouts : Leave(r) \/ SendEndSignal(r)
           \/ Broadcast
           \/ UNCHANGED vars
  <2>1. UNCHANGED <<drawn, held, promptQueue, rewardQueue, remainSamples, buffer>>
    BY <1>5 DEF Leave, SendEndSignal, Broadcast, vars, fetcherVars, trainVars, rolloutVars
  <2>2. \A s \in Rollouts : AtRollout(s)' = AtRollout(s)
    BY <2>1 DEF AtRollout, Batches
  <2>. QED BY <1>0, <2>1, <2>2, StillUnreported DEF Counted
<1>. QED BY <1>1, <1>2, <1>3, <1>4, <1>5 DEF Next

-----------------------------------------------------------------------------
(* samples_on_the_fly *)

InTraining == IF \E p \in Policies : status[p] = "RUNNING" THEN GlobalBatch ELSE 0
UnderWay == Stored(buffer) + NGen * Cardinality(Generating)

\* While a rollout may still ask for prompts, a policy has one step to answer at most, and
\* then it is RUNNING.
Rounds == \A p \in Policies : steps[p] # <<>> => status[p] = "RUNNING" /\ Tail(steps[p]) = <<>>

Serving == \E r \in Rollouts : ~ended[r]

FlightInv == Serving => Rounds /\ samplesOnTheFly >= UnderWay + InTraining

LEMMA FlightImplies ==
  ASSUME BuffersTyped, FlightInv, samplesOnTheFly >= 0
  PROVE  OnTheFlyCovers
<1>1. Pending = Stored(buffer)
  BY PendingType
<1>. QED BY <1>1 DEF FlightInv, Serving, UnderWay, InTraining, Generating, OnTheFlyCovers

LEMMA UnderWayType ==
  ASSUME DispatchInv, RankTyped
  PROVE  /\ Stored(buffer) \in Nat /\ Cardinality(Generating) \in Nat
         /\ NGen * Cardinality(Generating) \in Nat /\ UnderWay \in Nat
         /\ InTraining \in Nat /\ GlobalBatch \in Nat
         /\ samplesOnTheFly \in Int /\ remainSamples \in Int
<1>1. Stored(buffer) \in Nat /\ Cardinality(Generating) \in Nat
  BY PendingType, UnreportedType DEF RankTyped
<1>2. \A c \in Nat : NGen * c \in Nat
  BY Parameters
<1>3. UnderWay \in Nat
  BY <1>1, <1>2 DEF UnderWay
<1>4. InTraining \in Nat /\ GlobalBatch \in Nat
  BY Parameters DEF InTraining
<1>5. samplesOnTheFly \in Int /\ remainSamples \in Int
  BY DEF RankTyped, PlainTyped
<1>. QED BY <1>1, <1>2, <1>3, <1>4, <1>5

LEMMA InitFlight == Init => FlightInv
<1>. SUFFICES ASSUME Init PROVE FlightInv
  OBVIOUS
<1>1. DispatchInv /\ RankTyped /\ Counted
  BY InitSeparates, InitTyped, InitCounted
<1>2. InTraining = 0 /\ Rounds
  BY DEF Init, InTraining, Rounds
<1>3. UnderWay = 0
  <2>1. Unreported = All + Cardinality(Generating) /\ All \in Nat
    <3>1. held = {} /\ drawn = 0 /\ Cardinality({}) = 0
      BY FS_EmptySet DEF Init
    <3>. QED BY <1>1, <3>1, UnreportedType DEF Unreported
  <2>2. Stored(buffer) + NGen * (All + Cardinality(Generating)) = All * NGen
    BY <1>1, <2>1 DEF Counted, Init, All
  <2>3. \A a, c \in Nat : NGen * (a + c) = a * NGen + NGen * c
    BY Parameters
  <2>4. /\ NGen * (All + Cardinality(Generating)) = All * NGen + NGen * Cardinality(Generating)
        /\ All * NGen \in Int
    <3>1. \A a \in Nat : a * NGen \in Int
      BY Parameters
    <3>. QED BY <1>1, <2>1, <2>3, <3>1, UnderWayType
  <2>. QED BY <1>1, <2>2, <2>4, UnderWayType DEF UnderWay
<1>4. samplesOnTheFly = 0
  BY DEF Init
<1>. QED BY <1>2, <1>3, <1>4 DEF FlightInv

\* All policies are sent a step, after the commands they still have.
Begins(cmds) ==
  /\ currentStep' = currentStep + 1
  /\ status' = [p \in Policies |-> "RUNNING"]
  /\ \E e : steps' = [p \in Policies |-> Append(cmds[p], e)]

\* What a report drops and what it starts comes off remain_samples_num.
LEMMA ReportCases ==
  ASSUME DispatchInv, RankTyped, NEW r \in Rollouts, Report(r)
  PROVE  /\ UNCHANGED <<drawn, held, samplesOnTheFly, totalSteps, ended, stage, fetchEnd>>
         /\ \/ /\ UNCHANGED <<currentStep, status, steps>>
               /\ remainSamples' <= remainSamples
            \/ /\ currentStep < totalSteps
               /\ \A p \in Policies : status[p] # "RUNNING"
               /\ Begins(steps)
               /\ remainSamples' <= remainSamples - GlobalBatch
<1>. DEFINE batch  == Head(rewardQueue[r])
            n      == Cardinality(batch.prompts) * NGen
            fresh  == FreshCount(batch.version, n)
            remain == remainSamples - (n - fresh)
            To(k)  == With(buffer, Samples(batch, 1..k))
            starts == {k \in 1..fresh : CanStart(status, To(k))}
            e      == [step |-> currentStep + 1, total |-> totalSteps]
<1>1. \/ remainSamples' = remain /\ UNCHANGED <<currentStep, status, steps>>
      \/ /\ starts # {}
         /\ remainSamples' = remain - GlobalBatch
         /\ currentStep' = currentStep + 1
         /\ status' = [p \in Policies |-> "RUNNING"]
         /\ steps' = [p \in Policies |-> Append(steps[p], e)]
  BY DEF Report, StartStep
<1>2. remain \in Int /\ remain <= remainSamples
  <2>1. batch.prompts \subseteq Generating
    <3>1. \E S : Reports(r, S)
      BY ReportMoves
    <3>. QED BY <3>1 DEF Reports, Generating
  <2>2. Cardinality(batch.prompts) \in Nat
    BY <2>1, UnreportedType, FS_Subset, FS_CardinalityType
  <2>3. \A c \in Nat : c * NGen \in Nat
    BY Parameters
  <2>4. n \in Nat
    BY <2>2, <2>3
  <2>. HIDE DEF n
  <2>5. fresh \in 0..n
    BY <2>4, FreshType
  <2>. HIDE DEF fresh
  <2>. QED BY <2>4, <2>5, UnderWayType
<1>3. remainSamples \in Int /\ GlobalBatch \in Nat /\ currentStep \in Nat /\ totalSteps \in Nat
  BY UnderWayType DEF RankTyped, StepsTyped
<1>4. starts # {} => currentStep < totalSteps /\ \A p \in Policies : status[p] # "RUNNING"
  <2>1. ASSUME NEW k, CanStart(status, To(k))
        PROVE  currentStep < totalSteps /\ \A p \in Policies : status[p] # "RUNNING"
    <3>. HIDE DEF To
    <3>. QED BY <1>3, <2>1 DEF CanStart, TrainingFinished
  <2>. QED BY <2>1
<1>5. UNCHANGED <<drawn, held, samplesOnTheFly, totalSteps, ended, stage, fetchEnd>>
  BY DEF Report, fetcherVars
<1>. HIDE DEF remain, starts, e
<1>6. CASE remainSamples' = remain /\ UNCHANGED <<currentStep, status, steps>>
  BY <1>2, <1>5, <1>6
<1>7. CASE /\ starts # {}
           /\ remainSamples' = remain - GlobalBatch
           /\ currentStep' = currentStep + 1
           /\ status' = [p \in Policies |-> "RUNNING"]
           /\ steps' = [p \in Policies |-> Append(steps[p], e)]
  <2>1. Begins(steps)
    BY <1>7 DEF Begins
  <2>2. remainSamples' <= remainSamples - GlobalBatch
    BY <1>2, <1>3, <1>7
  <2>. QED BY <1>4, <1>5, <1>7, <2>1, <2>2
<1>. QED BY <1>1, <1>6, <1>7

\* An answer, and the last one of a round.
LEMMA TrainAckCases ==
  ASSUME RankTyped, NEW p \in Policies, TrainAck(p)
  PROVE  LET acked == [status EXCEPT ![p] = "REDUCED"]
             cmds  == [steps EXCEPT ![p] = Tail(@)]
         IN  /\ steps[p] # <<>>
             /\ UNCHANGED <<drawn, held, totalSteps, ended, stage, fetchEnd>>
             /\ \/ /\ status' = acked /\ steps' = cmds
                   /\ UNCHANGED <<currentStep, remainSamples, samplesOnTheFly>>
                \/ /\ \A q \in Policies : acked[q] = "REDUCED"
                   /\ samplesOnTheFly' = samplesOnTheFly - GlobalBatch
                   /\ \/ /\ currentStep < totalSteps /\ Begins(cmds)
                         /\ remainSamples' = remainSamples - GlobalBatch
                      \/ /\ status' = [q \in Policies |-> "READY"] /\ steps' = cmds
                         /\ UNCHANGED <<currentStep, remainSamples>>
<1>1. currentStep \in Nat /\ totalSteps \in Nat
  BY DEF RankTyped, StepsTyped
<1>2. UNCHANGED <<drawn, held, totalSteps, ended, stage, fetchEnd>>
  BY DEF TrainAck, fetcherVars, rolloutVars
<1>. DEFINE acked == [status EXCEPT ![p] = "REDUCED"]
            ready == [q \in Policies |-> "READY"]
            cmds  == [steps EXCEPT ![p] = Tail(@)]
            e     == [step |-> currentStep + 1, total |-> totalSteps]
<1>3. /\ steps[p] # <<>>
      /\ \/ /\ status' = acked /\ steps' = cmds
            /\ UNCHANGED <<currentStep, remainSamples, samplesOnTheFly>>
         \/ /\ \A q \in Policies : acked[q] = "REDUCED"
            /\ samplesOnTheFly' = samplesOnTheFly - GlobalBatch
            /\ \/ /\ ~TrainingFinished
                  /\ currentStep' = currentStep + 1
                  /\ status' = [q \in Policies |-> "RUNNING"]
                  /\ steps' = [q \in Policies |-> Append(cmds[q], e)]
                  /\ remainSamples' = remainSamples - GlobalBatch
               \/ /\ status' = ready /\ steps' = cmds
                  /\ UNCHANGED <<currentStep, remainSamples>>
  BY DEF TrainAck, StartStep, CanStart
<1>4. ~TrainingFinished => currentStep < totalSteps
  BY <1>1 DEF TrainingFinished
<1>5. ASSUME /\ currentStep' = currentStep + 1
             /\ status' = [q \in Policies |-> "RUNNING"]
             /\ steps' = [q \in Policies |-> Append(cmds[q], e)]
      PROVE  Begins(cmds)
  <2>. HIDE DEF cmds, e
  <2>. QED BY <1>5 DEF Begins
<1>. HIDE DEF e
<1>. QED BY <1>2, <1>3, <1>4, <1>5

\* A step that nobody has others before to answer.
LEMMA StartedRounds ==
  ASSUME NEW cmds, \A p \in Policies : cmds[p] = <<>>, Begins(cmds)
  PROVE  Rounds' /\ InTraining' = GlobalBatch
<1>1. PICK e : steps' = [p \in Policies |-> Append(cmds[p], e)]
  BY DEF Begins
<1>2. \A p \in Policies : steps'[p] = <<e>> /\ status'[p] = "RUNNING"
  <2>1. \A q : q = <<>> => Append(q, e) = <<e>>
    OBVIOUS
  <2>2. \A p \in Policies : steps'[p] = Append(cmds[p], e) /\ status'[p] = "RUNNING"
    BY <1>1 DEF Begins
  <2>. QED BY <2>1, <2>2
<1>3. Tail(<<e>>) = <<>>
  OBVIOUS
<1>4. 0 \in Policies
  BY Parameters DEF Policies
<1>. QED BY <1>2, <1>3, <1>4 DEF Rounds, InTraining

LEMMA ReportFlight ==
  ASSUME DispatchInv, RankTyped, RankTyped', NEW r \in Rollouts, Report(r), Rounds
  PROVE  Rounds' /\ remainSamples' + InTraining' <= remainSamples + InTraining
<1>1. \/ UNCHANGED <<status, steps>> /\ remainSamples' <= remainSamples
      \/ /\ \A p \in Policies : status[p] # "RUNNING"
         /\ Begins(steps)
         /\ remainSamples' <= remainSamples - GlobalBatch
  BY ReportCases
<1>2. /\ remainSamples \in Int /\ remainSamples' \in Int /\ InTraining \in Nat /\ GlobalBatch \in Nat
  BY UnderWayType DEF RankTyped, PlainTyped
<1>3. CASE UNCHANGED <<status, steps>> /\ remainSamples' <= remainSamples
  <2>1. InTraining' = InTraining /\ Rounds'
    BY <1>3 DEF InTraining, Rounds
  <2>2. PICK m \in Int, m1 \in Int, i \in Nat :
          /\ remainSamples = m /\ remainSamples' = m1 /\ InTraining = i
    BY <1>2
  <2>3. m1 + i <= m + i
    BY <1>3, <2>2
  <2>. QED BY <2>1, <2>2, <2>3
<1>4. CASE /\ \A p \in Policies : status[p] # "RUNNING"
           /\ Begins(steps)
           /\ remainSamples' <= remainSamples - GlobalBatch
  <2>1. \A p \in Policies : steps[p] = <<>>
    BY <1>4 DEF Rounds
  <2>2. InTraining = 0
    BY <1>4 DEF InTraining
  <2>3. Rounds' /\ InTraining' = GlobalBatch
    BY <1>4, <2>1, StartedRounds
  <2>4. PICK m \in Int, m1 \in Int, g \in Nat :
          /\ remainSamples = m /\ remainSamples' = m1 /\ GlobalBatch = g
    BY <1>2
  <2>5. m1 + g <= m + 0
    BY <1>4, <2>4
  <2>. QED BY <2>2, <2>3, <2>4, <2>5
<1>. QED BY <1>1, <1>3, <1>4

\* The last answer of a round takes its samples off both counts.
LEMMA TrainAckFlight ==
  ASSUME DispatchInv, RankTyped, NEW p \in Policies, TrainAck(p), Rounds
  PROVE  /\ Rounds'
         /\ remainSamples' + InTraining' - samplesOnTheFly'
              <= remainSamples + InTraining - samplesOnTheFly
<1>. DEFINE acked == [status EXCEPT ![p] = "REDUCED"]
            ready == [q \in Policies |-> "READY"]
            cmds  == [steps EXCEPT ![p] = Tail(@)]
<1>1. /\ steps[p] # <<>>
      /\ \/ /\ status' = acked /\ steps' = cmds
            /\ UNCHANGED <<remainSamples, samplesOnTheFly>>
         \/ /\ \A q \in Policies : acked[q] = "REDUCED"
            /\ samplesOnTheFly' = samplesOnTheFly - GlobalBatch
            /\ \/ Begins(cmds) /\ remainSamples' = remainSamples - GlobalBatch
               \/ status' = ready /\ steps' = cmds /\ UNCHANGED remainSamples
  BY TrainAckCases
<1>2. /\ remainSamples \in Int /\ samplesOnTheFly \in Int /\ InTraining \in Nat /\ GlobalBatch \in Nat
      /\ status \in [Policies -> {"READY", "RUNNING", "REDUCED"}] /\ DOMAIN steps = Policies
  BY UnderWayType DEF RankTyped, StepsTyped
<1>3. /\ InTraining = GlobalBatch /\ cmds[p] = <<>> /\ acked[p] = "REDUCED"
      /\ \A q \in Policies \ {p} : cmds[q] = steps[q] /\ acked[q] = status[q]
  BY <1>1, <1>2 DEF Rounds, InTraining
<1>. HIDE DEF acked, cmds
<1>4. CASE /\ status' = acked /\ steps' = cmds
           /\ UNCHANGED <<remainSamples, samplesOnTheFly>>
  <2>1. Rounds'
    BY <1>3, <1>4 DEF Rounds
  <2>2. InTraining' <= InTraining /\ InTraining' \in Nat
    BY <1>2, <1>3 DEF InTraining
  <2>3. remainSamples' = remainSamples /\ samplesOnTheFly' = samplesOnTheFly
    BY <1>4
  <2>4. PICK i \in Nat, i1 \in Nat, m \in Int, f \in Int :
          /\ InTraining = i /\ InTraining' = i1 /\ i1 <= i
          /\ remainSamples = m /\ remainSamples' = m
          /\ samplesOnTheFly = f /\ samplesOnTheFly' = f
    BY <1>2, <2>2, <2>3
  <2>5. m + i1 - f <= m + i - f
    BY <2>4
  <2>. QED BY <2>1, <2>4, <2>5
<1>5. ASSUME \A q \in Policies : acked[q] = "REDUCED"
      PROVE  \A q \in Policies : cmds[q] = <<>>
  BY <1>3, <1>5 DEF Rounds
<1>6. CASE /\ \A q \in Policies : acked[q] = "REDUCED"
           /\ samplesOnTheFly' = samplesOnTheFly - GlobalBatch
           /\ Begins(cmds) /\ remainSamples' = remainSamples - GlobalBatch
  <2>1. Rounds' /\ InTraining' = GlobalBatch
    BY <1>5, <1>6, StartedRounds
  <2>. QED BY <1>2, <1>3, <1>6, <2>1
<1>7. CASE /\ \A q \in Policies : acked[q] = "REDUCED"
           /\ samplesOnTheFly' = samplesOnTheFly - GlobalBatch
           /\ status' = ready /\ steps' = cmds /\ UNCHANGED remainSamples
  <2>1. Rounds' /\ InTraining' = 0
    BY <1>5, <1>7 DEF Rounds, InTraining
  <2>. QED BY <1>2, <1>3, <1>7, <2>1
<1>. QED BY <1>1, <1>4, <1>6, <1>7

LEMMA NextFlight ==
  ASSUME DispatchInv, DispatchInv', RankTyped, RankTyped', FlightInv, [Next]_vars
  PROVE  FlightInv'
<1>0. /\ \A r \in Rollouts : ended[r] => ended'[r]
      /\ Serving' => Serving
  <2>1. ended' = ended \/ \E r \in Rollouts : ended' = [ended EXCEPT ![r] = TRUE]
    BY DEF Next, Fetch, GenerateHeld, Leave, Report, SendEndSignal, TrainAck, Broadcast, vars
  <2>. QED BY <2>1 DEF RankTyped, PlainTyped, Serving
<1>. SUFFICES ASSUME Serving, Serving' PROVE Rounds' /\ samplesOnTheFly' >= UnderWay' + InTraining'
  BY <1>0 DEF FlightInv
<1>1. Rounds /\ samplesOnTheFly >= UnderWay + InTraining
  BY DEF FlightInv
<1>2. /\ UnderWay = Stored(buffer) + NGen * Cardinality(Generating)
      /\ UnderWay' = Stored(buffer') + NGen * Cardinality(Generating')
  BY DEF UnderWay, Stored
<1>3. /\ Stored(buffer) \in Nat /\ Cardinality(Generating) \in Nat
      /\ NGen * Cardinality(Generating) \in Nat /\ UnderWay \in Nat /\ InTraining \in Nat
      /\ samplesOnTheFly \in Int /\ remainSamples \in Int
  BY UnderWayType
<1>4. /\ Stored(buffer') \in Nat /\ InTraining' \in Nat
      /\ samplesOnTheFly' \in Int /\ remainSamples' \in Int
  <2>1. Stored(buffer') \in Nat
    BY StoredType DEF RankTyped, BuffersTyped, Fits
  <2>2. InTraining' \in Nat
    BY Parameters DEF InTraining
  <2>. QED BY <2>1, <2>2 DEF RankTyped, PlainTyped
<1>5. CASE \E r \in Rollouts : Fetch(r)
  <2>1. PICK r \in Rollouts : Fetch(r)
    BY <1>5
  <2>2. PICK S : Takes(r, S) /\ samplesOnTheFly' = samplesOnTheFly + Cardinality(S) * NGen
    BY <2>1, FetchMoves
  <2>3. /\ Cardinality(S) \in Nat
        /\ Cardinality(Generating') = Cardinality(Generating) + Cardinality(S)
    BY <2>2, TakesKeep
  <2>4. UNCHANGED <<status, steps, buffer>>
    BY <2>1 DEF Fetch, trainVars
  <2>5. InTraining' = InTraining /\ Rounds'
    BY <1>1, <2>4 DEF InTraining, Rounds
  <2>6. /\ NGen * Cardinality(Generating') = NGen * Cardinality(Generating) + Cardinality(S) * NGen
        /\ Cardinality(S) * NGen \in Nat
    <3>1. \A g, c \in Nat : NGen * (g + c) = NGen * g + c * NGen /\ c * NGen \in Nat
      BY Parameters
    <3>. QED BY <1>3, <2>3, <3>1
  <2>. QED BY <1>1, <1>2, <1>3, <2>2, <2>4, <2>5, <2>6
<1>6. CASE \E r \in Rollouts : Report(r)
  <2>1. PICK r \in Rollouts : Report(r)
    BY <1>6
  <2>2. PICK S : Reports(r, S)
    BY <2>1, ReportMoves
  <2>3. S = Head(rewardQueue[r]).prompts
    BY <2>2 DEF Reports
  <2>4. /\ Cardinality(S) \in Nat
        /\ Cardinality(Generating') = Cardinality(Generating) - Cardinality(S)
    BY <2>2, ReportsCount
  <2>5. remainSamples' - Stored(buffer') = remainSamples - Stored(buffer) - Cardinality(S) * NGen
    BY <2>1, <2>3, ReportPuts
  <2>6. Rounds' /\ remainSamples' + InTraining' <= remainSamples + InTraining
    BY <1>1, <2>1, ReportFlight
  <2>7. samplesOnTheFly' = samplesOnTheFly
    BY <2>1 DEF Report
  <2>8. /\ NGen * Cardinality(Generating') = NGen * Cardinality(Generating) - Cardinality(S) * NGen
        /\ Cardinality(S) * NGen \in Nat
    <3>1. \A g, c \in Nat : NGen * (g - c) = NGen * g - c * NGen /\ c * NGen \in Nat
      BY Parameters
    <3>. QED BY <1>3, <2>4, <3>1
  <2>9. PICK b \in Int, g \in Int, i \in Int, f \in Int, m \in Int :
          /\ Stored(buffer) = b /\ NGen * Cardinality(Generating) = g /\ InTraining = i
          /\ samplesOnTheFly = f /\ remainSamples = m
    BY <1>3
  <2>10. PICK b1 \in Int, i1 \in Int, m1 \in Int, c \in Int :
           /\ Stored(buffer') = b1 /\ InTraining' = i1 /\ remainSamples' = m1
           /\ Cardinality(S) * NGen = c
    BY <1>4, <2>8
  <2>11. f >= b + g + i
    BY <1>1, <1>2, <2>9
  <2>12. m1 - b1 = m - b - c /\ m1 + i1 <= m + i
    BY <2>5, <2>6, <2>9, <2>10
  <2>13. f >= b1 + (g - c) + i1
    BY <2>11, <2>12
  <2>. QED BY <1>2, <2>6, <2>7, <2>8, <2>9, <2>10, <2>13
<1>7. CASE \E p \in Policies : TrainAck(p)
  <2>1. PICK p \in Policies : TrainAck(p)
    BY <1>7
  <2>2. remainSamples' - Stored(buffer') = remainSamples - Stored(buffer)
    BY <2>1, TrainAckMoves
  <2>3. Generating' = Generating
    <3>1. UNCHANGED <<drawn, held, promptQueue, rewardQueue>>
      BY <2>1 DEF TrainAck, fetcherVars, rolloutVars
    <3>2. \A s \in Rollouts : AtRollout(s)' = AtRollout(s)
      BY <3>1 DEF AtRollout, Batches
    <3>. QED BY <3>1, <3>2, StillUnreported
  <2>4. /\ Rounds'
        /\ remainSamples' + InTraining' - samplesOnTheFly'
              <= remainSamples + InTraining - samplesOnTheFly
    BY <1>1, <2>1, TrainAckFlight
  <2>5. PICK b \in Int, g \in Int, i \in Int, f \in Int, m \in Int :
          /\ Stored(buffer) = b /\ NGen * Cardinality(Generating) = g /\ InTraining = i
          /\ samplesOnTheFly = f /\ remainSamples = m
    BY <1>3
  <2>6. PICK b1 \in Int, i1 \in Int, f1 \in Int, m1 \in Int :
          /\ Stored(buffer') = b1 /\ InTraining' = i1 /\ samplesOnTheFly' = f1
          /\ remainSamples' = m1
    BY <1>4
  <2>7. f >= b + g + i
    BY <1>1, <1>2, <2>5
  <2>8. m1 - b1 = m - b /\ m1 + i1 - f1 <= m + i - f
    BY <2>2, <2>4, <2>5, <2>6
  <2>9. f1 >= b1 + g + i1
    BY <2>7, <2>8
  <2>. QED BY <1>2, <2>3, <2>4, <2>5, <2>6, <2>9
<1>8. ASSUME UNCHANGED <<samplesOnTheFly, status, steps, buffer, drawn, held>>,
             \A s \in Rollouts : AtRollout(s)' = AtRollout(s)
      PROVE  Rounds' /\ samplesOnTheFly' >= UnderWay' + InTraining'
  <2>1. Generating' = Generating
    BY <1>8, StillUnreported
  <2>2. InTraining' = InTraining /\ Rounds'
    BY <1>1, <1>8 DEF InTraining, Rounds
  <2>. QED BY <1>1, <1>2, <1>8, <2>1, <2>2
<1>9. CASE \E r \in Rollouts : GenerateHeld(r)
  <2>1. PICK r \in Rollouts : GenerateHeld(r)
    BY <1>9
  <2>2. UNCHANGED <<drawn, held>> /\ \A s \in Rollouts : AtRollout(s)' = AtRollout(s)
    BY <2>1, GenerateHeldMoves
  <2>3. UNCHANGED <<samplesOnTheFly, status, steps, buffer>>
    BY <2>1 DEF GenerateHeld, trainVars
  <2>. QED BY <1>8, <2>2, <2>3
<1>10. CASE \E r \in Rollouts : SendEndSignal(r)
  <2>1. PICK r \in Rollouts : SendEndSignal(r)
    BY <1>10
  <2>2. UNCHANGED trainVars
    <3>1. ~\A s \in Rollouts : ended'[s]
      BY DEF Serving
    <3>. QED BY <2>1, <3>1 DEF SendEndSignal
  <2>3. UNCHANGED <<samplesOnTheFly, status, steps, buffer, drawn, held, promptQueue, rewardQueue>>
    BY <2>1, <2>2 DEF SendEndSignal, trainVars, fetcherVars
  <2>4. \A s \in Rollouts : AtRollout(s)' = AtRollout(s)
    BY <2>3 DEF AtRollout, Batches
  <2>. QED BY <1>8, <2>3, <2>4
<1>11. CASE (\E r \in Rollouts : Leave(r)) \/ Broadcast \/ UNCHANGED vars
  <2>1. UNCHANGED <<samplesOnTheFly, status, steps, buffer, drawn, held, promptQueue, rewardQueue>>
    BY <1>11 DEF Leave, Broadcast, vars, fetcherVars, trainVars, rolloutVars
  <2>2. \A s \in Rollouts : AtRollout(s)' = AtRollout(s)
    BY <2>1 DEF AtRollout, Batches
  <2>. QED BY <1>8, <2>1, <2>2
<1>. QED BY <1>5, <1>6, <1>7, <1>9, <1>10, <1>11 DEF Next

-----------------------------------------------------------------------------
(* samples_on_the_fly after the extra step *)

\* The prompts that have been handed out.
Answered == drawn - Cardinality(held)

\* How many rounds a policy can still take part in, with its commands and its status.
Owed(cmds, st) == Len(cmds) + (IF st = "REDUCED" THEN 1 ELSE 0)

\* So many rounds have ended, each with a global batch taken off, and every policy has
\* answered once for each of them.
LedgerInv ==
  \E k \in Nat :
    /\ samplesOnTheFly = NGen * Answered - GlobalBatch * k
    /\ \A p \in Policies : k + Owed(steps[p], status[p]) <= currentStep

\* No step is promised that the dataset has no samples for.
PromisedInv == currentStep <= totalSteps /\ GlobalBatch * totalSteps <= NGen * All

\* The steps taken so far and what is left are not more than the dataset.
BudgetInv ==
  Serving \/ currentStep < totalSteps => remainSamples + GlobalBatch * currentStep <= NGen * All

\* Who has been told that there are no more prompts found none left.
EndInv ==
  \A r \in Rollouts : /\ stage[r] = "ending" \/ ended[r] => fetchEnd[r]
                      /\ fetchEnd[r] => drawn = All /\ held = {}

LEMMA OwedType ==
  ASSUME NEW cmds, NEW st, Len(cmds) \in Nat
  PROVE  /\ Owed(cmds, st) \in Nat
         /\ st = "REDUCED" => Owed(cmds, st) = Len(cmds) + 1
         /\ st # "REDUCED" => Owed(cmds, st) = Len(cmds)
<1>1. PICK n \in Nat : n = Len(cmds)
  OBVIOUS
<1>2. CASE st = "REDUCED"
  <2>1. Owed(cmds, st) = n + 1
    BY <1>1, <1>2 DEF Owed
  <2>. QED BY <1>1, <1>2, <2>1
<1>3. CASE st # "REDUCED"
  <2>1. Owed(cmds, st) = n + 0
    BY <1>1, <1>3 DEF Owed
  <2>. QED BY <1>1, <1>3, <2>1
<1>. QED BY <1>2, <1>3

LEMMA AnsweredType ==
  ASSUME DispatchInv, RankTyped
  PROVE  /\ Answered \in Int /\ All \in Nat /\ currentStep \in Nat /\ totalSteps \in Nat
         /\ NGen * Answered \in Int /\ NGen * All \in Nat
         /\ GlobalBatch \in Nat \ {0} /\ GlobalBatch * currentStep \in Nat
         /\ samplesOnTheFly \in Int /\ remainSamples \in Int
<1>1. Answered \in Int /\ All \in Nat /\ currentStep \in Nat /\ totalSteps \in Nat
  BY UnreportedType DEF Answered, RankTyped, StepsTyped
<1>2. GlobalBatch \in Nat \ {0}
  BY Parameters
<1>3. \A a \in Int : NGen * a \in Int
  BY Parameters
<1>4. \A a \in Nat : NGen * a \in Nat /\ GlobalBatch * a \in Nat
  BY Parameters
<1>5. samplesOnTheFly \in Int /\ remainSamples \in Int
  BY UnderWayType
<1>. QED BY <1>1, <1>2, <1>3, <1>4, <1>5

\* The prompts that are not handed out, and those that are being generated, are in
\* remain_samples_num, so the steps taken so far have been handed out.
LEMMA StepsAreAnswered ==
  ASSUME DispatchInv, RankTyped, Counted, PromisedInv, BudgetInv, EndInv
  PROVE  GlobalBatch * currentStep <= NGen * Answered
<1>1. /\ Answered \in Int /\ All \in Nat /\ NGen * Answered \in Int /\ NGen * All \in Nat
      /\ GlobalBatch * currentStep \in Nat /\ remainSamples \in Int
      /\ currentStep \in Nat /\ totalSteps \in Nat
  BY AnsweredType
<1>2. CASE Serving \/ currentStep < totalSteps
  <2>1. remainSamples + GlobalBatch * currentStep <= NGen * All
    BY <1>2 DEF BudgetInv
  <2>2. Unreported = All - Answered + Cardinality(Generating) /\ Cardinality(Generating) \in Nat
    <3>1. /\ drawn \in Nat /\ Cardinality(held) \in Nat /\ Cardinality(Generating) \in Nat
          /\ All = Epochs * Size
      BY UnreportedType
    <3>. QED BY <1>1, <3>1 DEF Unreported, Answered
  <2>3. NGen * Unreported = NGen * All - NGen * Answered + NGen * Cardinality(Generating)
    <3>1. PICK a \in Int, b \in Int, c \in Int, n \in Int :
            a = All /\ b = Answered /\ c = Cardinality(Generating) /\ n = NGen
      BY <1>1, <2>2, Parameters
    <3>2. n * (a - b + c) = n * a - n * b + n * c
      OBVIOUS
    <3>. QED BY <2>2, <3>1, <3>2
  <2>4. NGen * Cardinality(Generating) \in Nat /\ Stored(buffer) \in Nat
    BY UnderWayType
  <2>5. remainSamples = Stored(buffer) + NGen * Unreported
    BY DEF Counted
  <2>6. remainSamples >= NGen * All - NGen * Answered
    BY <1>1, <2>3, <2>4, <2>5
  <2>. QED BY <1>1, <2>1, <2>6
<1>3. CASE ~Serving /\ ~(currentStep < totalSteps)
  <2>1. currentStep = totalSteps /\ GlobalBatch * totalSteps <= NGen * All
    BY <1>1, <1>3 DEF PromisedInv
  <2>2. PICK r \in Rollouts : TRUE
    BY Parameters DEF Rollouts
  <2>3. drawn = All /\ held = {}
    BY <1>3, <2>2 DEF EndInv, Serving
  <2>4. Answered = All
    BY <1>1, <2>3, FS_EmptySet DEF Answered
  <2>. QED BY <2>1, <2>4
<1>. QED BY <1>2, <1>3

\* Every round that has ended was of a step that has started.
LEMMA NeverNegative ==
  ASSUME DispatchInv, RankTyped, Counted, LedgerInv, PromisedInv, BudgetInv, EndInv
  PROVE  samplesOnTheFly >= 0
<1>1. PICK k \in Nat :
        /\ samplesOnTheFly = NGen * Answered - GlobalBatch * k
        /\ \A p \in Policies : k + Owed(steps[p], status[p]) <= currentStep
  BY DEF LedgerInv
<1>2. k <= currentStep /\ currentStep \in Nat
  <2>1. 0 \in Policies
    BY Parameters DEF Policies
  <2>2. steps[0] \in Seq(CommandsOf(currentStep)) /\ currentStep \in Nat
    BY <2>1 DEF RankTyped, StepsTyped
  <2>3. Len(steps[0]) \in Nat
    BY <2>2
  <2>4. Owed(steps[0], status[0]) \in Nat
    BY <2>3, OwedType
  <2>. QED BY <1>1, <2>1, <2>2, <2>4
<1>3. GlobalBatch * k <= GlobalBatch * currentStep /\ GlobalBatch * k \in Nat
  <2>1. \A g, a, b \in Nat : a <= b => g * a <= g * b
    OBVIOUS
  <2>2. \A g, a \in Nat : g * a \in Nat
    OBVIOUS
  <2>. QED BY <1>2, <2>1, <2>2, Parameters
<1>4. GlobalBatch * currentStep <= NGen * Answered
  BY StepsAreAnswered
<1>5. NGen * Answered \in Int /\ GlobalBatch * currentStep \in Nat
  BY AnsweredType
<1>. QED BY <1>1, <1>3, <1>4, <1>5

LEMMA InitLedger == Init => LedgerInv /\ PromisedInv /\ BudgetInv /\ EndInv
<1>. SUFFICES ASSUME Init PROVE LedgerInv /\ PromisedInv /\ BudgetInv /\ EndInv
  OBVIOUS
<1>1. /\ All \in Nat /\ NGen \in Nat /\ GlobalBatch \in Nat \ {0}
      /\ currentStep = 0 /\ samplesOnTheFly = 0 /\ remainSamples = All * NGen
      /\ totalSteps = (All * NGen) \div GlobalBatch
  BY AllType, Parameters DEF Init, All
<1>2. LedgerInv
  <2>1. Answered = 0
    <3>1. held = {} /\ drawn = 0 /\ Cardinality({}) = 0
      BY FS_EmptySet DEF Init
    <3>. QED BY <3>1 DEF Answered
  <2>2. 0 = NGen * 0 - GlobalBatch * 0
    BY <1>1
  <2>3. ASSUME NEW p \in Policies PROVE 0 + Owed(steps[p], status[p]) <= currentStep
    <3>1. steps[p] = <<>> /\ status[p] = "READY"
      BY DEF Init
    <3>2. Len(<<>>) = 0
      OBVIOUS
    <3>3. Owed(steps[p], status[p]) = 0
      BY <3>1, <3>2, OwedType
    <3>. QED BY <1>1, <3>3
  <2>. QED BY <1>1, <2>1, <2>2, <2>3 DEF LedgerInv
<1>3. PICK m \in Nat, g \in Nat \ {0}, c \in Nat :
        /\ m = All * NGen /\ m = NGen * All /\ g = GlobalBatch /\ c = m \div g
  <2>1. \A a, b \in Nat : a * b \in Nat /\ a * b = b * a
    OBVIOUS
  <2>2. \A a \in Nat, b \in Nat \ {0} : a \div b \in Nat
    OBVIOUS
  <2>. QED BY <1>1, <2>1, <2>2
<1>4. g * c <= m /\ g * 0 = 0
  BY <1>3
<1>5. PromisedInv /\ BudgetInv
  BY <1>1, <1>3, <1>4 DEF PromisedInv, BudgetInv
<1>6. EndInv
  BY DEF Init, EndInv
<1>. QED BY <1>2, <1>5, <1>6

\* The last end signal lowers the total to what can start, or sends the extra step.
LEMMA EndSignalCases ==
  ASSUME RankTyped, PromisedInv, NEW r \in Rollouts, SendEndSignal(r)
  PROVE  /\ UNCHANGED <<drawn, held, samplesOnTheFly, remainSamples, fetchEnd>>
         /\ \/ UNCHANGED <<currentStep, totalSteps, status, steps>>
            \/ /\ currentStep < totalSteps /\ totalSteps' = BaseVersion
               /\ currentStep < totalSteps'
               /\ UNCHANGED <<currentStep, status, steps>>
            \/ /\ currentStep < totalSteps /\ totalSteps' = currentStep + 1
               /\ ~Serving' /\ Begins(steps)
<1>. DEFINE last     == \A s \in Rollouts : ended'[s]
            newTotal == IF TrainingFinished THEN totalSteps ELSE BaseVersion
            empty    == last /\ newTotal <= currentStep /\ currentStep # totalSteps
            e        == [step |-> currentStep + 1, total |-> currentStep + 1]
<1>1. UNCHANGED <<drawn, held, samplesOnTheFly, remainSamples, fetchEnd>>
  BY DEF SendEndSignal, fetcherVars, trainVars
<1>2. \/ /\ ~empty /\ totalSteps' = (IF last THEN newTotal ELSE totalSteps)
         /\ UNCHANGED <<currentStep, status, steps>>
      \/ /\ empty /\ totalSteps' = currentStep + 1 /\ currentStep' = currentStep + 1
         /\ status' = [p \in Policies |-> "RUNNING"]
         /\ steps' = [p \in Policies |-> Append(steps[p], e)]
  BY DEF SendEndSignal, trainVars
<1>3. /\ currentStep \in Nat /\ totalSteps \in Nat /\ BaseVersion \in Nat
      /\ currentStep <= totalSteps
      /\ TrainingFinished <=> ~(currentStep < totalSteps)
  BY BaseType DEF RankTyped, StepsTyped, PromisedInv, TrainingFinished
<1>4. last => ~Serving'
  BY DEF Serving
<1>. HIDE DEF last, e
<1>5. CASE /\ ~empty /\ totalSteps' = (IF last THEN newTotal ELSE totalSteps)
           /\ UNCHANGED <<currentStep, status, steps>>
  <2>1. CASE last /\ currentStep < totalSteps
    BY <1>1, <1>3, <1>5, <2>1
  <2>2. CASE ~(last /\ currentStep < totalSteps)
    BY <1>1, <1>3, <1>5, <2>2
  <2>. QED BY <2>1, <2>2
<1>6. CASE /\ empty /\ totalSteps' = currentStep + 1 /\ currentStep' = currentStep + 1
           /\ status' = [p \in Policies |-> "RUNNING"]
           /\ steps' = [p \in Policies |-> Append(steps[p], e)]
  <2>1. last /\ currentStep < totalSteps
    BY <1>3, <1>6
  <2>2. Begins(steps)
    BY <1>6 DEF Begins
  <2>. QED BY <1>1, <1>4, <1>6, <2>1, <2>2
<1>. QED BY <1>2, <1>5, <1>6

LEMMA BeginsOwed ==
  ASSUME NEW cmds, NEW p \in Policies, NEW U, cmds[p] \in Seq(U), Begins(cmds)
  PROVE  Owed(steps'[p], status'[p]) = Len(cmds[p]) + 1
<1>1. PICK e : steps'[p] = Append(cmds[p], e)
  BY DEF Begins
<1>2. status'[p] # "REDUCED"
  BY DEF Begins
<1>3. cmds[p] \in Seq(U \cup {e})
  BY SequencesGrow
<1>4. Len(Append(cmds[p], e)) = Len(cmds[p]) + 1 /\ Len(cmds[p]) \in Nat
  BY <1>3
<1>. QED BY <1>1, <1>2, <1>4, OwedType

\* An answer is taken off what its policy owes, and a policy that has answered owes one more
\* than its commands.
LEMMA AnswerOwed ==
  ASSUME RankTyped, NEW p \in Policies, TrainAck(p), NEW q \in Policies
  PROVE  LET acked == [status EXCEPT ![p] = "REDUCED"]
             cmds  == [steps EXCEPT ![p] = Tail(@)]
         IN  /\ \E U : cmds[q] \in Seq(U)
             /\ Len(cmds[q]) \in Nat /\ Owed(steps[q], status[q]) \in Nat
             /\ Owed(cmds[q], acked[q]) <= Owed(steps[q], status[q])
             /\ acked[q] = "REDUCED" => Len(cmds[q]) + 1 <= Owed(steps[q], status[q])
<1>. DEFINE acked == [status EXCEPT ![p] = "REDUCED"]
            cmds  == [steps EXCEPT ![p] = Tail(@)]
            OwesLess(c, a) ==
              /\ \E U : c \in Seq(U)
              /\ Len(c) \in Nat /\ Owed(steps[q], status[q]) \in Nat
              /\ Owed(c, a) <= Owed(steps[q], status[q])
              /\ a = "REDUCED" => Len(c) + 1 <= Owed(steps[q], status[q])
<1>1. /\ DOMAIN steps = Policies /\ steps[q] \in Seq(CommandsOf(currentStep))
      /\ DOMAIN status = Policies /\ steps[p] # <<>>
  BY DEF RankTyped, StepsTyped, TrainAck
<1>2. /\ Len(steps[q]) \in Nat /\ Owed(steps[q], status[q]) \in Nat
      /\ Owed(steps[q], status[q]) \in {Len(steps[q]), Len(steps[q]) + 1}
      /\ status[q] = "REDUCED" => Owed(steps[q], status[q]) = Len(steps[q]) + 1
  <2>1. Len(steps[q]) \in Nat
    BY <1>1
  <2>. QED BY <2>1, OwedType
<1>3. CASE q = p
  <2>1. /\ Tail(steps[q]) \in Seq(CommandsOf(currentStep))
        /\ Len(Tail(steps[q])) = Len(steps[q]) - 1 /\ Len(Tail(steps[q])) \in Nat
    BY <1>1, <1>3
  <2>2. Owed(Tail(steps[q]), "REDUCED") = Len(Tail(steps[q])) + 1
    BY <2>1, OwedType
  <2>3. PICK n \in Nat, m \in Nat, o \in Nat :
          /\ n = Len(steps[q]) /\ m = Len(Tail(steps[q])) /\ o = Owed(steps[q], status[q])
          /\ m = n - 1 /\ o \in {n, n + 1}
    BY <1>2, <2>1
  <2>4. m + 1 <= o
    BY <2>3
  <2>5. OwesLess(Tail(steps[q]), "REDUCED")
    BY <2>1, <2>2, <2>3, <2>4
  <2>6. cmds[q] = Tail(steps[q]) /\ acked[q] = "REDUCED"
    BY <1>1, <1>3
  <2>. HIDE DEF OwesLess, cmds, acked
  <2>7. OwesLess(cmds[q], acked[q])
    BY <2>5, <2>6
  <2>. QED BY <2>7 DEF OwesLess, cmds, acked
<1>4. CASE q # p
  <2>1. OwesLess(steps[q], status[q])
    BY <1>1, <1>2
  <2>2. cmds[q] = steps[q] /\ acked[q] = status[q]
    BY <1>1, <1>4
  <2>. HIDE DEF OwesLess, cmds, acked
  <2>3. OwesLess(cmds[q], acked[q])
    BY <2>1, <2>2
  <2>. QED BY <2>3 DEF OwesLess, cmds, acked
<1>. QED BY <1>3, <1>4

\* A step owes one answer more of each policy, and one step more may have ended.
LEMMA BeginLedger ==
  ASSUME RankTyped, LedgerInv, UNCHANGED <<drawn, held, samplesOnTheFly>>,
         UNCHANGED <<currentStep, status, steps>> \/ Begins(steps)
  PROVE  LedgerInv'
<1>1. PICK k \in Nat :
        /\ samplesOnTheFly = NGen * Answered - GlobalBatch * k
        /\ \A p \in Policies : k + Owed(steps[p], status[p]) <= currentStep
  BY DEF LedgerInv
<1>2. samplesOnTheFly' = NGen * Answered' - GlobalBatch * k
  BY <1>1 DEF Answered
<1>3. ASSUME NEW p \in Policies PROVE k + Owed(steps'[p], status'[p]) <= currentStep'
  <2>1. k + Owed(steps[p], status[p]) <= currentStep
    BY <1>1
  <2>2. CASE UNCHANGED <<currentStep, status, steps>>
    BY <2>1, <2>2
  <2>3. CASE Begins(steps)
    <3>1. steps[p] \in Seq(CommandsOf(currentStep)) /\ currentStep \in Nat
      BY DEF RankTyped, StepsTyped
    <3>2. Owed(steps'[p], status'[p]) = Len(steps[p]) + 1
      BY <2>3, <3>1, BeginsOwed
    <3>3. Len(steps[p]) \in Nat
      BY <3>1
    <3>4. /\ Owed(steps[p], status[p]) \in {Len(steps[p]), Len(steps[p]) + 1}
          /\ currentStep' = currentStep + 1
      BY <2>3, <3>3, OwedType DEF Begins
    <3>. QED BY <2>1, <3>1, <3>2, <3>3, <3>4
  <2>. QED BY <2>2, <2>3
<1>. QED BY <1>2, <1>3 DEF LedgerInv

LEMMA FetchLedger ==
  ASSUME DispatchInv, DispatchInv', RankTyped, LedgerInv, NEW r \in Rollouts, Fetch(r)
  PROVE  LedgerInv'
<1>1. PICK S : Takes(r, S) /\ samplesOnTheFly' = samplesOnTheFly + Cardinality(S) * NGen
  BY FetchMoves
<1>2. /\ Cardinality(S) \in Nat
      /\ drawn' - Cardinality(held') = drawn - Cardinality(held) + Cardinality(S)
  BY <1>1, TakesKeep
<1>3. Answered' = Answered + Cardinality(S)
  BY <1>2 DEF Answered
<1>4. PICK k \in Nat :
        /\ samplesOnTheFly = NGen * Answered - GlobalBatch * k
        /\ \A p \in Policies : k + Owed(steps[p], status[p]) <= currentStep
  BY DEF LedgerInv
<1>5. PICK n \in Int, a \in Int, c \in Int, b \in Int, f \in Int :
        /\ n = NGen /\ a = Answered /\ c = Cardinality(S) /\ b = GlobalBatch * k
        /\ f = samplesOnTheFly
  <2>1. NGen \in Int /\ Answered \in Int /\ samplesOnTheFly \in Int
    BY AnsweredType, Parameters
  <2>2. \A g \in Nat : g * k \in Int
    OBVIOUS
  <2>3. GlobalBatch * k \in Int
    BY <2>2, Parameters
  <2>4. Cardinality(S) \in Int
    BY <1>2
  <2>. QED BY <2>1, <2>3, <2>4
<1>6. f = n * a - b
  BY <1>4, <1>5
<1>7. n * (a + c) = n * a + c * n /\ n * a \in Int /\ c * n \in Int
  OBVIOUS
<1>8. f + c * n = n * (a + c) - b
  BY <1>6, <1>7
<1>9. samplesOnTheFly' = NGen * Answered' - GlobalBatch * k
  BY <1>1, <1>3, <1>5, <1>8
<1>10. UNCHANGED <<currentStep, status, steps>>
  BY DEF Fetch, trainVars
<1>. QED BY <1>4, <1>9, <1>10 DEF LedgerInv

LEMMA TrainAckLedger ==
  ASSUME DispatchInv, RankTyped, LedgerInv, NEW p \in Policies, TrainAck(p)
  PROVE  LedgerInv'
<1>. DEFINE acked == [status EXCEPT ![p] = "REDUCED"]
            ready == [q \in Policies |-> "READY"]
            cmds  == [steps EXCEPT ![p] = Tail(@)]
<1>1. /\ UNCHANGED <<drawn, held>>
      /\ \/ /\ status' = acked /\ steps' = cmds
            /\ UNCHANGED <<currentStep, samplesOnTheFly>>
         \/ /\ \A q \in Policies : acked[q] = "REDUCED"
            /\ samplesOnTheFly' = samplesOnTheFly - GlobalBatch
            /\ \/ Begins(cmds)
               \/ status' = ready /\ steps' = cmds /\ UNCHANGED currentStep
  BY TrainAckCases
<1>2. \A q \in Policies :
        /\ \E U : cmds[q] \in Seq(U)
        /\ Len(cmds[q]) \in Nat /\ Owed(steps[q], status[q]) \in Nat
        /\ Owed(cmds[q], acked[q]) <= Owed(steps[q], status[q])
        /\ acked[q] = "REDUCED" => Len(cmds[q]) + 1 <= Owed(steps[q], status[q])
  BY AnswerOwed
<1>3. PICK k \in Nat :
        /\ samplesOnTheFly = NGen * Answered - GlobalBatch * k
        /\ \A q \in Policies : k + Owed(steps[q], status[q]) <= currentStep
  BY DEF LedgerInv
<1>4. /\ Answered' = Answered /\ NGen * Answered \in Int /\ currentStep \in Nat
      /\ GlobalBatch * (k + 1) = GlobalBatch * k + GlobalBatch
      /\ GlobalBatch * k \in Nat /\ GlobalBatch \in Nat
  <2>1. \A g \in Nat : g * (k + 1) = g * k + g /\ g * k \in Nat
    OBVIOUS
  <2>. QED BY <1>1, <2>1, AnsweredType, Parameters DEF Answered
<1>. HIDE DEF acked, cmds
<1>5. CASE status' = acked /\ steps' = cmds /\ UNCHANGED <<currentStep, samplesOnTheFly>>
  <2>1. ASSUME NEW q \in Policies PROVE k + Owed(steps'[q], status'[q]) <= currentStep'
    <3>1. Owed(cmds[q], acked[q]) \in Nat
      BY <1>2, OwedType
    <3>. QED BY <1>2, <1>3, <1>4, <1>5, <3>1
  <2>. QED BY <1>3, <1>4, <1>5, <2>1 DEF LedgerInv
<1>6. CASE /\ \A q \in Policies : acked[q] = "REDUCED"
           /\ samplesOnTheFly' = samplesOnTheFly - GlobalBatch
           /\ \/ Begins(cmds)
              \/ status' = ready /\ steps' = cmds /\ UNCHANGED currentStep
  <2>1. samplesOnTheFly' = NGen * Answered' - GlobalBatch * (k + 1)
    BY <1>3, <1>4, <1>6
  <2>2. ASSUME NEW q \in Policies PROVE k + 1 + Owed(steps'[q], status'[q]) <= currentStep'
    <3>1. PICK m \in Nat, o \in Nat, c \in Nat :
            /\ m = Len(cmds[q]) /\ o = Owed(steps[q], status[q]) /\ c = currentStep
            /\ m + 1 <= o /\ k + o <= c
      <4>1. acked[q] = "REDUCED"
        BY <1>6
      <4>2. /\ Len(cmds[q]) \in Nat /\ Owed(steps[q], status[q]) \in Nat
            /\ Len(cmds[q]) + 1 <= Owed(steps[q], status[q])
        BY <1>2, <4>1
      <4>3. k + Owed(steps[q], status[q]) <= currentStep /\ currentStep \in Nat
        BY <1>3, <1>4
      <4>. QED BY <4>2, <4>3
    <3>. HIDE DEF ready
    <3>2. CASE Begins(cmds)
      <4>1. Owed(steps'[q], status'[q]) = Len(cmds[q]) + 1
        BY <1>2, <3>2, BeginsOwed
      <4>2. currentStep' = currentStep + 1
        BY <3>2 DEF Begins
      <4>3. k + 1 + (m + 1) <= c + 1
        <5>1. m + 1 <= o /\ k + o <= c
          BY <3>1
        <5>. QED BY <5>1
      <4>. QED BY <3>1, <4>1, <4>2, <4>3
    <3>3. CASE status' = ready /\ steps' = cmds /\ UNCHANGED currentStep
      <4>1. steps'[q] = cmds[q] /\ status'[q] = "READY"
        BY <3>3 DEF ready
      <4>2. Owed(steps'[q], status'[q]) = Len(cmds[q])
        BY <3>1, <4>1, OwedType
      <4>3. k + 1 + m <= c
        <5>1. m + 1 <= o /\ k + o <= c
          BY <3>1
        <5>. QED BY <5>1
      <4>. QED BY <3>1, <3>3, <4>2, <4>3
    <3>. QED BY <1>6, <3>2, <3>3
  <2>3. k + 1 \in Nat
    OBVIOUS
  <2>. QED BY <2>1, <2>2, <2>3 DEF LedgerInv
<1>. QED BY <1>1, <1>5, <1>6

\* A request that is not answered in full, with nothing kept back, has found the end.
LEMMA FetchEnds ==
  ASSUME DispatchInv, RankTyped, EndInv, NEW r \in Rollouts, Fetch(r)
  PROVE  EndInv'
<1>. DEFINE n == Requested
<1>1. PICK S \in SUBSET Own(r) :
        /\ Pick(S, r, n)
        /\ drawn' = DrawnFor(S, n)
        /\ held' = Left(S, DrawnFor(S, n))
        /\ fetchEnd' = [fetchEnd EXCEPT ![r] = Cardinality(S) < n /\ Left(S, DrawnFor(S, n)) = {}]
  BY DEF Fetch
<1>2. ~fetchEnd[r] /\ ended' = ended /\ EndOfRound(r)
  BY DEF Fetch
<1>3. /\ drawn \in 0..All /\ held \subseteq 1..drawn /\ All \in Nat /\ n \in Nat
      /\ stage \in [Rollouts -> {"loop", "ending", "stopped"}] /\ fetchEnd \in [Rollouts -> BOOLEAN]
  BY RequestedType, AllType DEF DispatchInv, PromptsAreSeparate, RankTyped, PlainTyped
<1>4. S \subseteq 1..All
  <2>1. 1..drawn \subseteq 1..All
    BY <1>3
  <2>2. Own(r) \subseteq 1..All
    BY <1>3, <2>1 DEF Own, Prompts, All
  <2>. QED BY <2>2
<1>. HIDE DEF n
<1>5. Cardinality(S) < n => DrawnFor(S, n) = All
  <2>1. IsFiniteSet(S) /\ Cardinality(S) \in Nat
    BY <1>1, <1>3, <1>4, PickIsBounded
  <2>2. PICK c \in Nat : Cardinality({i \in S : i <= drawn}) = c /\ c <= Cardinality(S)
    <3>1. {i \in S : i <= drawn} \subseteq S
      OBVIOUS
    <3>. QED BY <2>1, <3>1, FS_Subset, FS_CardinalityType
  <2>3. Cardinality(S) < n => c # n /\ Cardinality(S) # n
    BY <1>3, <2>1, <2>2
  <2>. QED BY <2>2, <2>3 DEF DrawnFor, All
<1>6. fetchEnd'[r] => drawn' = All /\ held' = {}
  BY <1>1, <1>3, <1>5
<1>7. drawn = All /\ held = {} => drawn' = All /\ held' = {}
  <2>. SUFFICES ASSUME drawn = All, held = {} PROVE drawn' = All /\ held' = {}
    OBVIOUS
  <2>1. DrawnFor(S, n) \in drawn..All
    BY <1>1, <1>3, <1>4, DrawnForCovers
  <2>2. DrawnFor(S, n) = All
    BY <1>3, <2>1
  <2>3. {i \in Prompts : drawn < i /\ i <= All} = {}
    BY <1>3 DEF Prompts, All
  <2>. QED BY <1>1, <2>2, <2>3 DEF Left
<1>8. \A s \in Rollouts \ {r} : fetchEnd'[s] = fetchEnd[s] /\ stage'[s] = stage[s]
  BY <1>1, <1>2, <1>3 DEF EndOfRound
<1>9. stage'[r] = "ending" => fetchEnd'[r]
  BY <1>2, <1>3 DEF EndOfRound, NextRound
<1>10. ~ended[r]
  BY <1>2 DEF EndInv
<1>11. ASSUME NEW s \in Rollouts
       PROVE  /\ stage'[s] = "ending" \/ ended'[s] => fetchEnd'[s]
              /\ fetchEnd'[s] => drawn' = All /\ held' = {}
  <2>1. CASE s = r
    BY <1>2, <1>6, <1>9, <1>10, <2>1
  <2>2. CASE s # r
    BY <1>2, <1>7, <1>8, <2>2 DEF EndInv
  <2>. QED BY <2>1, <2>2
<1>. QED BY <1>11 DEF EndInv

LEMMA NextEnd ==
  ASSUME DispatchInv, RankTyped, PromisedInv, EndInv, [Next]_vars
  PROVE  EndInv'
<1>1. /\ stage \in [Rollouts -> {"loop", "ending", "stopped"}]
      /\ ended \in [Rollouts -> BOOLEAN]
  BY DEF RankTyped, PlainTyped
<1>2. CASE \E r \in Rollouts : Fetch(r)
  BY <1>2, FetchEnds
<1>3. CASE \E r \in Rollouts : GenerateHeld(r)
  <2>1. PICK r \in Rollouts : GenerateHeld(r)
    BY <1>3
  <2>2. UNCHANGED <<drawn, held, fetchEnd, ended>> /\ EndOfRound(r)
    BY <2>1 DEF GenerateHeld, fetcherVars
  <2>3. /\ \A s \in Rollouts \ {r} : stage'[s] = stage[s]
        /\ stage'[r] = "ending" => fetchEnd[r]
    BY <1>1, <2>2 DEF EndOfRound, NextRound
  <2>. QED BY <2>2, <2>3 DEF EndInv
<1>4. CASE \E r \in Rollouts : Leave(r)
  <2>1. PICK r \in Rollouts : Leave(r)
    BY <1>4
  <2>2. /\ UNCHANGED <<drawn, held, fetchEnd, ended>>
        /\ \A s \in Rollouts : stage'[s] \in {stage[s], "stopped"}
    BY <1>1, <2>1 DEF Leave, fetcherVars
  <2>. QED BY <2>2 DEF EndInv
<1>5. CASE \E r \in Rollouts : SendEndSignal(r)
  <2>1. PICK r \in Rollouts : SendEndSignal(r)
    BY <1>5
  <2>2. UNCHANGED <<drawn, held, fetchEnd>>
    BY <2>1, EndSignalCases
  <2>3. /\ stage[r] = "ending"
        /\ \A s \in Rollouts \ {r} : stage'[s] = stage[s] /\ ended'[s] = ended[s]
    BY <1>1, <2>1 DEF SendEndSignal
  <2>. QED BY <2>2, <2>3 DEF EndInv
<1>6. CASE \/ \E r \in Rollouts : Report(r)
           \/ \E p \in Policies : TrainAck(p)
           \/ Broadcast \/ UNCHANGED vars
  <2>1. UNCHANGED <<drawn, held, fetchEnd, ended, stage>>
    BY <1>6 DEF Report, TrainAck, Broadcast, vars, fetcherVars, rolloutVars
  <2>. QED BY <2>1 DEF EndInv
<1>. QED BY <1>2, <1>3, <1>4, <1>5, <1>6 DEF Next

LEMMA NextLedger ==
  ASSUME DispatchInv, DispatchInv', RankTyped, LedgerInv, PromisedInv, [Next]_vars
  PROVE  LedgerInv'
<1>1. CASE \E r \in Rollouts : Fetch(r)
  BY <1>1, FetchLedger
<1>2. CASE \E p \in Policies : TrainAck(p)
  BY <1>2, TrainAckLedger
<1>3. CASE \E r \in Rollouts : Report(r) \/ SendEndSignal(r)
  <2>1. /\ UNCHANGED <<drawn, held, samplesOnTheFly>>
        /\ UNCHANGED <<currentStep, status, steps>> \/ Begins(steps)
    BY <1>3, ReportCases, EndSignalCases
  <2>. QED BY <2>1, BeginLedger
<1>4. CASE (\E r \in Rollouts : GenerateHeld(r) \/ Leave(r)) \/ Broadcast \/ UNCHANGED vars
  <2>1. UNCHANGED <<drawn, held, samplesOnTheFly, currentStep, status, steps>>
    BY <1>4 DEF GenerateHeld, Leave, Broadcast, vars, fetcherVars, trainVars
  <2>. QED BY <2>1, BeginLedger
<1>. QED BY <1>1, <1>2, <1>3, <1>4 DEF Next

\* What a step or a drop does to the counters of steps and samples.
LEMMA NextCounters ==
  ASSUME DispatchInv, RankTyped, RankTyped', PromisedInv, [Next]_vars
  PROVE  /\ Serving' => Serving
         /\ \/ /\ UNCHANGED <<currentStep, totalSteps>>
               /\ remainSamples' <= remainSamples
            \/ /\ currentStep < totalSteps /\ UNCHANGED totalSteps
               /\ currentStep' = currentStep + 1
               /\ remainSamples' <= remainSamples - GlobalBatch
            \/ /\ currentStep < totalSteps /\ totalSteps' = BaseVersion
               /\ currentStep < totalSteps'
               /\ UNCHANGED <<currentStep, remainSamples>>
            \/ /\ currentStep < totalSteps /\ totalSteps' = currentStep + 1
               /\ currentStep' = currentStep + 1 /\ ~Serving'
<1>1. Serving' => Serving
  <2>1. ended' = ended \/ \E r \in Rollouts : ended' = [ended EXCEPT ![r] = TRUE]
    BY DEF Next, Fetch, GenerateHeld, Leave, Report, SendEndSignal, TrainAck, Broadcast, vars
  <2>. QED BY <2>1 DEF RankTyped, PlainTyped, Serving
<1>2. /\ remainSamples \in Int /\ remainSamples' \in Int /\ GlobalBatch \in Nat
  BY UnderWayType DEF RankTyped, PlainTyped
<1>3. CASE \E r \in Rollouts : Report(r)
  BY <1>1, <1>3, ReportCases DEF Begins
<1>4. CASE \E p \in Policies : TrainAck(p)
  <2>1. UNCHANGED totalSteps
    BY <1>4, TrainAckCases
  <2>2. \/ UNCHANGED <<currentStep, remainSamples>>
        \/ /\ currentStep < totalSteps /\ currentStep' = currentStep + 1
           /\ remainSamples' = remainSamples - GlobalBatch
    BY <1>4, TrainAckCases DEF Begins
  <2>3. remainSamples' = remainSamples => remainSamples' <= remainSamples
    BY <1>2
  <2>4. remainSamples' = remainSamples - GlobalBatch => remainSamples' <= remainSamples - GlobalBatch
    BY <1>2
  <2>. QED BY <1>1, <2>1, <2>2, <2>3, <2>4
<1>5. CASE \E r \in Rollouts : SendEndSignal(r)
  <2>1. UNCHANGED remainSamples
    BY <1>5, EndSignalCases
  <2>2. remainSamples' <= remainSamples
    BY <1>2, <2>1
  <2>. QED BY <1>1, <1>5, <2>1, <2>2, EndSignalCases DEF Begins
<1>6. CASE \/ \E r \in Rollouts : Fetch(r) \/ GenerateHeld(r) \/ Leave(r)
           \/ Broadcast \/ UNCHANGED vars
  <2>1. UNCHANGED <<currentStep, totalSteps, remainSamples>>
    BY <1>6 DEF Fetch, GenerateHeld, Leave, Broadcast, vars, trainVars
  <2>2. remainSamples' <= remainSamples
    BY <1>2, <2>1
  <2>. QED BY <1>1, <2>1, <2>2
<1>. QED BY <1>3, <1>4, <1>5, <1>6 DEF Next

LEMMA NextPromised ==
  ASSUME DispatchInv, RankTyped, RankTyped', Counted, PromisedInv, BudgetInv, [Next]_vars
  PROVE  PromisedInv' /\ BudgetInv'
<1>1. /\ currentStep \in Nat /\ totalSteps \in Nat /\ currentStep' \in Nat /\ totalSteps' \in Nat
      /\ remainSamples \in Int /\ remainSamples' \in Int
      /\ NGen * All \in Nat /\ GlobalBatch \in Nat \ {0}
  BY AnsweredType DEF RankTyped, StepsTyped, PlainTyped
<1>2. PICK g \in Nat \ {0}, m \in Nat, c \in Nat, t \in Nat, c1 \in Nat, t1 \in Nat,
           b \in Int, b1 \in Int :
        /\ g = GlobalBatch /\ m = NGen * All /\ c = currentStep /\ t = totalSteps
        /\ c1 = currentStep' /\ t1 = totalSteps' /\ b = remainSamples /\ b1 = remainSamples'
  BY <1>1
<1>3. /\ c <= t /\ g * t <= m
      /\ Serving \/ c < t => b + g * c <= m
  BY <1>2 DEF PromisedInv, BudgetInv
<1>4. /\ PromisedInv' <=> c1 <= t1 /\ g * t1 <= m
      /\ BudgetInv' <=> (Serving' \/ c1 < t1 => b1 + g * c1 <= m)
  BY <1>2 DEF PromisedInv, BudgetInv
<1>5. Serving' => Serving
  BY NextCounters
<1>6. \/ c1 = c /\ t1 = t /\ b1 <= b
      \/ c < t /\ t1 = t /\ c1 = c + 1 /\ b1 <= b - g
      \/ c < t /\ t1 = BaseVersion /\ c < t1 /\ c1 = c /\ b1 = b
      \/ c < t /\ t1 = c + 1 /\ c1 = c + 1 /\ ~Serving'
  BY <1>2, NextCounters
<1>7. g * (c + 1) = g * c + g /\ g * c \in Nat /\ g * t \in Nat /\ g * t1 \in Nat
  OBVIOUS
<1>8. CASE c1 = c /\ t1 = t /\ b1 <= b
  BY <1>3, <1>4, <1>5, <1>7, <1>8
<1>9. CASE c < t /\ t1 = t /\ c1 = c + 1 /\ b1 <= b - g
  <2>1. c1 <= t1 /\ g * t1 <= m
    BY <1>3, <1>9
  <2>2. b1 + g * c1 <= m
    BY <1>3, <1>7, <1>9
  <2>. QED BY <1>4, <2>1, <2>2
<1>10. CASE c < t /\ t1 = BaseVersion /\ c < t1 /\ c1 = c /\ b1 = b
  <2>1. PICK s \in Nat : s = Pending /\ BaseVersion = c + s \div g
    <3>1. Pending \in Nat
      BY PendingType DEF RankTyped
    <3>. QED BY <1>2, <3>1 DEF BaseVersion
  <2>2. s <= b
    <3>1. /\ Stored(buffer) = s
          /\ remainSamples = Stored(buffer) + NGen * Unreported
      BY <2>1, PendingType DEF RankTyped, Counted
    <3>2. Unreported \in Nat
      <4>1. /\ drawn \in 0..All /\ Cardinality(held) \in Nat /\ Cardinality(Generating) \in Nat
            /\ All = Epochs * Size /\ All \in Nat
        BY UnreportedType DEF DispatchInv, PromptsAreSeparate
      <4>. QED BY <4>1 DEF Unreported
    <3>3. NGen * Unreported \in Nat
      <4>1. \A a \in Nat : NGen * a \in Nat
        BY Parameters
      <4>. QED BY <3>2, <4>1
    <3>. QED BY <1>2, <3>1, <3>3
  <2>3. g * (s \div g) <= s /\ s \div g \in Nat
    OBVIOUS
  <2>4. g * t1 = g * c + g * (s \div g)
    <3>1. \A x \in Nat : g * (c + x) = g * c + g * x
      OBVIOUS
    <3>. QED BY <1>10, <2>1, <2>3, <3>1
  <2>5. g * (s \div g) \in Nat
    <3>1. \A x \in Nat : g * x \in Nat
      OBVIOUS
    <3>. QED BY <2>3, <3>1
  <2>6. b + g * c <= m
    BY <1>3, <1>10
  <2>7. g * t1 <= m
    BY <1>7, <2>2, <2>3, <2>4, <2>5, <2>6
  <2>. QED BY <1>4, <1>10, <2>6, <2>7
<1>11. CASE c < t /\ t1 = c + 1 /\ c1 = c + 1 /\ ~Serving'
  <2>1. g * t1 <= g * t
    <3>1. \A x, y \in Nat : x <= y => g * x <= g * y
      OBVIOUS
    <3>. QED BY <1>11, <3>1
  <2>. QED BY <1>3, <1>4, <1>7, <1>11, <2>1
<1>. QED BY <1>6, <1>8, <1>9, <1>10, <1>11

-----------------------------------------------------------------------------
(* Types and counts *)

\* The quotas of the data fetcher and the tags of its answers stay within what a step needs, the
\* commands and the weights are of steps that have started, and a sample waits at the policy
\* once: every variable keeps its type.
THEOREM RankTypeOK == Spec => []TypeOK
<1>1. Init => DispatchInv /\ RankTyped
  BY InitSeparates, InitTyped
<1>2. DispatchInv /\ RankTyped /\ [Next]_vars => DispatchInv' /\ RankTyped'
  BY NextSeparates, NextTyped
<1>3. DispatchInv /\ RankTyped => TypeOK
  BY TypesImply
<1>. QED BY <1>1, <1>2, <1>3, PTL DEF Spec

\* remain_samples_num, which try_trigger_data_fetch_and_training lowers by a global batch and
\* filter_outdated_rollouts by what it drops, counts the samples that wait and n_generation for
\* every prompt that no rollout has reported yet, for any dataset, mesh and batch size.
THEOREM RankRemainCounts == Spec => []RemainIsExact
<1>1. Init => DispatchInv /\ RankTyped /\ Counted
  BY InitSeparates, InitTyped, InitCounted
<1>2. DispatchInv /\ RankTyped /\ Counted /\ [Next]_vars => DispatchInv' /\ RankTyped' /\ Counted'
  BY NextSeparates, NextTyped, NextCounted
<1>3. DispatchInv /\ RankTyped /\ Counted => RemainIsExact
  BY CountedIsExact DEF RankTyped
<1>. QED BY <1>1, <1>2, <1>3, PTL DEF Spec

\* The throttle of get_batched_prompt may be too strict, when dropped samples are still
\* counted, but it never lets more out than it promises: samples_on_the_fly covers what the
\* rollouts hold, what waits in the buffers of all ranks and what is being trained on, as
\* long as anybody can ask, and the assertion of train_ack holds to the end, through the
\* extra step, for any dataset, order, mesh, share and batch size.
THEOREM RankFlightIsCovered == Spec => []OnTheFlyCovers
<1>1. Init => DispatchInv /\ RankTyped /\ Counted
  BY InitSeparates, InitTyped, InitCounted
<1>2. DispatchInv /\ RankTyped /\ Counted /\ [Next]_vars => DispatchInv' /\ RankTyped' /\ Counted'
  BY NextSeparates, NextTyped, NextCounted
<1>3. Init => FlightInv /\ LedgerInv /\ PromisedInv /\ BudgetInv /\ EndInv
  BY InitFlight, InitLedger
<1>4. /\ DispatchInv /\ DispatchInv' /\ RankTyped /\ RankTyped' /\ Counted
      /\ FlightInv /\ LedgerInv /\ PromisedInv /\ BudgetInv /\ EndInv
      /\ [Next]_vars
      => FlightInv' /\ LedgerInv' /\ PromisedInv' /\ BudgetInv' /\ EndInv'
  BY NextFlight, NextLedger, NextPromised, NextEnd
<1>5. /\ DispatchInv /\ RankTyped /\ Counted
      /\ FlightInv /\ LedgerInv /\ PromisedInv /\ BudgetInv /\ EndInv
      => OnTheFlyCovers
  BY FlightImplies, NeverNegative DEF RankTyped
<1>. QED BY <1>1, <1>2, <1>3, <1>4, <1>5, PTL DEF Spec
=============================================================================
