SPECIFICATION Spec
CONSTANTS
  Validators = {v1, v2, v3, v4}
  Self = v1
  SelfIndex = 0
  a = a
  b = b
  v4 = v4
  Blocks = {a, b}
  Nil = Nil
  ProposedBy <- ProposedByFirst
  Unreadable = {b}
  OtherVotes <- RoundVotes
  Equivocators = {}
  Proposals <- RoundProposals
  Parts <- RoundParts
  FastSynced <- None
  MaxHeight = 2
  MaxRound = 1
  MaxCrashes = 0
  MaxLate = 1
  Watched = 1
SYMMETRY Symmetry
CHECK_DEADLOCK FALSE
INVARIANTS
  TypeOK
  VoteBacked
  NoBadStep
  NoMissedCommit
PROPERTIES
  HrsAdvances
  Promise
