SPECIFICATION Spec
CONSTANTS
  Validators = {v1, v2, v3, v4}
  Self = v1
  SelfIndex = 1
  a = a
  b = b
  v4 = v4
  Blocks = {a, b}
  Nil = Nil
  ProposedBy <- ProposedByTurns
  Unreadable = {}
  OtherVotes <- PolVotes
  Equivocators = {}
  Proposals <- PolProposals
  Parts <- PolParts
  FastSynced <- None
  MaxHeight = 2
  MaxRound = 2
  MaxCrashes = 0
  MaxLate = 1
  Watched = 1
SYMMETRY SymmetryBut4
INVARIANTS
  NoBadStep
  OneProposal
PROPERTIES
  Promise
