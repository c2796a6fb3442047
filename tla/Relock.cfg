SPECIFICATION Spec
CONSTANTS
  Validators = {v1, v2, v3, v4}
  Self = v1
  SelfIndex = 1
  a = a
  b = b
  v4 = v4
  Blocks = {a}
  Nil = Nil
  ProposedBy <- ProposedByFirst
  Unreadable = {}
  OtherVotes <- RelockVotes
  Equivocators = {}
  Proposals <- None
  Parts <- None
  FastSynced <- None
  MaxHeight = 2
  MaxRound = 2
  MaxCrashes = 1
  MaxLate = 0
  Watched = 1
SYMMETRY Symmetry
INVARIANTS
  LockKept
