--------------------------- MODULE MCBlockVoting ---------------------------
(***************************************************************************)
(* BlockVoting with the votes of the faulty validators signed up front: a  *)
(* vote only ever enables other votes and commits, so the steps in which   *)
(* faulty validators sign may be taken first.                              *)
(***************************************************************************)
EXTENDS BlockVoting, TLC

FaultyVotes == [voter : Faulty, round : Rounds, type : VoteTypes,
                decision : Decisions]

MCInit ==
  /\ votes = FaultyVotes
  /\ decided = {}

MCSpec == MCInit /\ [][Next]_vars

Symmetry == Permutations(Correct) \cup Permutations(Blocks)

(* TLC evaluates ASSUME: the instance is one agreement is claimed for. *)
ASSUME FewFaulty
=============================================================================
