SPECIFICATION FairSpec
CONSTANTS
  Validators = {v1, v2, v3, v4}
  Self = v1
  SelfIndex = 0
  a = a
  b = b
  v4 = v4
  Blocks = {a}
  Nil = Nil
  ProposedBy <- ProposedByFirst
  Unreadable = {}
  OtherVotes <- LiveVotes
  Equivocators = {}
  Proposals <- RoundProposals
  Parts <- RoundParts
  FastSynced <- None
  MaxHeight = 2
  MaxRound = 2
  MaxCrashes = 0
  MaxLate = 0
  Watched = 1
PROPERTIES
  HandlersReturn
  CommitsEventually
