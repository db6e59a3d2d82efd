--------------------------- MODULE MCRankDispatch ---------------------------
EXTENDS RankDispatch

\* What a sampler may yield: the dataset in its order, or in either of two others.
InOrder == {[i \in 1..Size |-> i - 1]}
Shuffled ==
  InOrder \cup {[i \in 1..Size |-> Size - i], [i \in 1..Size |-> (i + Size \div 2) % Size]}
=============================================================================
