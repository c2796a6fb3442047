SPECIFICATION MCSpec
CONSTANTS
  Validators = {v1, v2, v3, v4}
  Faulty = {v4}
  Blocks = {a, b}
  Nil = Nil
  MaxRound = 1
SYMMETRY Symmetry
INVARIANTS
  Agreement
  SafetyInv
