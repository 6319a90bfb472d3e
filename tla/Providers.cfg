\* Every service that reads in its own way, two requests at the same time out of two.
SPECIFICATION Spec
CONSTANTS
  Requests = {q1, q2}
  Services <- MCServices
  Life <- MCLife
  MaxAsked = 2
SYMMETRY MCSymmetry
INVARIANTS LowestIsHeard LossesShown AgesBounded
CHECK_DEADLOCK FALSE
