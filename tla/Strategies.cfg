CONSTANTS
  Threads = {t1, t2}
  NumBackends = 2
  Weight <- MCWeight
  MaxShare = 4
SYMMETRY MCSymmetry
SPECIFICATION Spec
INVARIANTS ChoiceIsCurrent RoundRobinEven WeightedShare LeastOfTheCall
