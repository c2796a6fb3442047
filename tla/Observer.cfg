SPECIFICATION Spec
CONSTANTS
  Validators = {v1, v2, v3, v4}
  Self = v0
  SelfIndex = 0
  a = a
  b = b
  v4 = v4
  Blocks = {a}
  Nil = Nil
  ProposedBy <- ProposedByFirst
  Unreadable = {}
  OtherVotes <- ObserverVotes
  Equivocators = {v4}
  Proposals <- RoundProposals
  Parts <- RoundParts
  FastSynced <- None
  MaxHeight = 2
  MaxRound = 1
  MaxCrashes = 0
  MaxLate = 0
  Watched = 1
SYMMETRY Symmetry
INVARIANTS
  NoMissedCommit
  LockHasPolka
