SPECIFICATION Spec
CONSTANTS
  Validators = {v1, v2, v3, v4}
  Self = v1
  SelfIndex = 0
  a = a
  b = b
  v4 = v4
  Blocks = {a}
  Nil = Nil
  ProposedBy <- ProposedByFirst
  Unreadable = {}
  OtherVotes <- HeightVotes
  Equivocators = {}
  Proposals <- HeightProposals
  Parts <- HeightParts
  FastSynced <- HeightFastSynced
  MaxHeight = 3
  MaxRound = 1
  MaxCrashes = 0
  MaxLate = 0
  Watched = 2
SYMMETRY SymmetryBut4
INVARIANTS
  LastVotesProveLastBlock
  NoBadStep
PROPERTIES
  Promise
