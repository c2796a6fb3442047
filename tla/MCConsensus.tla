---------------------------- MODULE MCConsensus ----------------------------
(***************************************************************************)
(* Instances of Consensus: what the others may send in a run, as ballots   *)
(* <<height, round, type, decision>> that each of them may cast.           *)
(***************************************************************************)
EXTENDS Consensus, TLC

CONSTANTS a, b, v4

Others == Validators \ {Self}

CastBy(voters, ballots) ==
  {Vote(w[1], v, w[2], w[3], w[4]) : v \in voters, w \in ballots}

Cast(ballots) == CastBy(Others, ballots)

(* Ballots of all others, and ballots that v4 does not cast. *)
CastBut4(all, most) == Cast(all) \cup CastBy(Others \ {v4}, most)

Ballots(h, r, prevotes, precommits) ==
  ({h} \X {r} \X {"prevote"} \X prevotes) \cup ({h} \X {r} \X {"precommit"} \X precommits)

Proposal(h, r, id, polRound) == [height |-> h, round |-> r, id |-> id, polRound |-> polRound]

(* The proposer of height 1, round 0 has index 1, that of round 1 index 2. *)
ProposedByFirst == [x \in Blocks |-> 1]

ProposedByTurns == [x \in Blocks |-> IF x = a THEN 1 ELSE 2]

None == {}

(* One round: polkas for a block this node can decode or not, a commit or  *)
(* a round without decision.                                               *)
RoundVotes == Cast(Ballots(1, 0, {a, b}, {a, Nil}))
RoundProposals == {Proposal(1, 0, x, -1) : x \in Blocks}
RoundParts == {<<1, x>> : x \in Blocks}

(* Two rounds: the others polka a, which this node proposes, do not commit *)
(* it and vote again, for the same block, another or none.                 *)
LockVotes == Cast(Ballots(1, 0, {a}, {}) \cup Ballots(1, 1, {a, b, Nil}, {b}))
LockProposals == {Proposal(1, 1, a, 0), Proposal(1, 1, b, -1)}
LockParts == {<<1, b>>}

(* Two rounds: a polka for a may come before or after the others have gone *)
(* on to round 1, where a is proposed with that polka, b without a polka,  *)
(* or b with the polka of round 0, which is not for b.                     *)
PolVotes == CastBut4(Ballots(1, 0, {}, {Nil}) \cup Ballots(1, 1, {b}, {}), Ballots(1, 0, {a}, {}))
PolProposals == LockProposals \cup {Proposal(1, 1, b, 0)}
PolParts == {<<1, a>>, <<1, b>>}

(* Two rounds with a polka for the same block in each. *)
RelockVotes == Cast(Ballots(1, 0, {a}, {}) \cup Ballots(1, 1, {a}, {}))

(* One round in which this node proposes, and a polka for none in the      *)
(* next; the others send the block back to a node that has restarted.      *)
CrashVotes == CastBut4(Ballots(1, 1, {Nil}, {}), Ballots(1, 0, {a}, {a}))
CrashParts == {<<1, a>>}

(* Two heights, with late precommits and fast sync of the second and, from *)
(* a peer whose commit votes prove nothing, the third.                     *)
HeightVotes ==
  CastBut4(Ballots(1, 0, {}, {a}) \cup Ballots(2, 0, {}, {a}),
           Ballots(1, 0, {a}, {}) \cup Ballots(2, 0, {a}, {}))
HeightProposals == {Proposal(1, 0, a, -1), Proposal(2, 0, a, -1)}
HeightParts == {<<1, a>>, <<2, a>>}
HeightFastSynced == [height : {2, 3}, id : {a}, round : {0}]

(* One round seen by a node that is not a validator. *)
ObserverVotes == Cast(Ballots(1, 0, {a, Nil}, {a, Nil}))

(* The others commit a in round 0, and may go on without this node. *)
LiveVotes ==
  CastBut4(Ballots(1, 0, {a}, {a}) \cup Ballots(1, 1, {Nil}, {}), Ballots(1, 0, {Nil}, {}))

Symmetry == Permutations(Others \ Equivocators)
SymmetryBut4 == Permutations(Others \ {v4})
=============================================================================
