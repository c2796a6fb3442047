---------------------------- MODULE BlockVoting ----------------------------
(***************************************************************************)
(* What the consensus engine promises at one height, stated over the votes *)
(* that have been signed and nothing else.  A correct validator            *)
(*   - signs at most one prevote and one precommit per round, in rounds    *)
(*     that never go back;                                                 *)
(*   - precommits a block only in a round that has +2/3 prevotes for it;   *)
(*   - after a precommit for a block prevotes nothing else, unless a later *)
(*     round has +2/3 prevotes for something else (nil included).          *)
(* Faulty validators sign anything.  Locks, steps, timers, vote sets and   *)
(* write-ahead logs are how package consensus keeps these promises: the    *)
(* module Consensus models them and is shown to implement this one.        *)
(***************************************************************************)
EXTENDS Integers, FiniteSets

CONSTANTS
  Validators,  \* the validator list of the height
  Faulty,      \* validators that may sign anything
  Blocks,      \* identifiers of block part sets
  Nil,         \* the decision of a vote for no block
  MaxRound     \* bound on the round number

ASSUME FiniteValidators == IsFiniteSet(Validators)
ASSUME FaultyValidators == Faulty \subseteq Validators
ASSUME NilIsNoBlock == Nil \notin Blocks
ASSUME MaxRoundIsNat == MaxRound \in Nat

(***************************************************************************)
(* Fewer than a third of the validators are faulty.  The specification     *)
(* does not need it; agreement does.                                       *)
(***************************************************************************)
FewFaulty == 3 * Cardinality(Faulty) < Cardinality(Validators)

VARIABLES
  votes,    \* every vote signed so far
  decided   \* blocks that a correct validator has committed

vars == <<votes, decided>>

Rounds == 0 .. MaxRound

Decisions == Blocks \cup {Nil}

Correct == Validators \ Faulty

VoteTypes == {"prevote", "precommit"}

Vote(v, r, t, x) == [voter |-> v, round |-> r, type |-> t, decision |-> x]

VoteMessage == [voter : Validators, round : Rounds, type : VoteTypes,
                decision : Decisions]

(* Votes are votes of validators for known blocks, and so are decisions. *)
TypeOK ==
  /\ votes \subseteq VoteMessage
  /\ decided \subseteq Blocks

-----------------------------------------------------------------------------
(* Counting *)

Voters(r, t, x) == {v \in Validators : Vote(v, r, t, x) \in votes}

AboutTwoThirds(S) == Cardinality(S) >= (Cardinality(Validators) * 2) \div 3

OverTwoThirds(S) == Cardinality(S) > (Cardinality(Validators) * 2) \div 3

Polka(r, x) == OverTwoThirds(Voters(r, "prevote", x))

(* A round after r has +2/3 prevotes for something other than b. *)
PolkaAgainst(b, r, upTo) ==
  \E q \in Rounds : r < q /\ q <= upTo /\ \E y \in Decisions \ {b} : Polka(q, y)

-----------------------------------------------------------------------------
(* What a correct validator may do *)

FreshInRound(v, r, t) ==
  \A m \in votes : m.voter = v => ~(m.round = r /\ m.type = t)

(* v has signed no vote of type t in round r and no vote in a later round. *)
Fresh(v, r, t) ==
  \A m \in votes : m.voter = v => m.round <= r /\ ~(m.round = r /\ m.type = t)

(* Every block that v has precommitted before r, except x, has been        *)
(* superseded by +2/3 prevotes of a round after that precommit.            *)
Released(v, r, x) ==
  \A m \in votes :
    (/\ m.voter = v
     /\ m.type = "precommit"
     /\ m.round < r
     /\ m.decision \notin {Nil, x}) => PolkaAgainst(m.decision, m.round, r)

Prevote(v, r, x) ==
  /\ Fresh(v, r, "prevote")
  /\ Fresh(v, r, "precommit")
  /\ Released(v, r, x)
  /\ votes' = votes \cup {Vote(v, r, "prevote", x)}
  /\ UNCHANGED decided

Precommit(v, r, x) ==
  /\ Fresh(v, r, "precommit")
  /\ x # Nil => Polka(r, x)
  /\ votes' = votes \cup {Vote(v, r, "precommit", x)}
  /\ UNCHANGED decided

Commit(r, b) ==
  /\ OverTwoThirds(Voters(r, "precommit", b))
  /\ decided' = decided \cup {b}
  /\ UNCHANGED votes

(* A faulty validator signs any vote at any time, two for one round too. *)
FaultyVote(v, r, t, x) ==
  /\ votes' = votes \cup {Vote(v, r, t, x)}
  /\ UNCHANGED decided

Init ==
  /\ votes = {}
  /\ decided = {}

Next ==
  \/ \E v \in Correct, r \in Rounds, x \in Decisions : Prevote(v, r, x)
  \/ \E v \in Correct, r \in Rounds, x \in Decisions : Precommit(v, r, x)
  \/ \E r \in Rounds, b \in Blocks : Commit(r, b)
  \/ \E v \in Faulty, r \in Rounds, t \in VoteTypes, x \in Decisions :
       FaultyVote(v, r, t, x)

Spec == Init /\ [][Next]_vars

-----------------------------------------------------------------------------
(* Properties *)

(* Two blocks are never committed at one height, whatever the faulty       *)
(* validators sign: enterCommit of two correct validators, in whatever     *)
(* rounds, is reached for the same part set.                               *)
Agreement == \A a, b \in decided : a = b

(* The parts of the inductive invariant behind Agreement. *)

OneVote ==
  \A m, n \in votes :
    (/\ m.voter \in Correct
     /\ m.voter = n.voter
     /\ m.round = n.round
     /\ m.type = n.type) => m = n

PrecommitHasPolka ==
  \A m \in votes :
    (/\ m.voter \in Correct
     /\ m.type = "precommit"
     /\ m.decision # Nil) => Polka(m.round, m.decision)

PrevoteReleased ==
  \A m, n \in votes :
    (/\ m.voter \in Correct
     /\ n.voter = m.voter
     /\ m.type = "precommit"
     /\ n.type = "prevote"
     /\ m.round < n.round
     /\ m.decision \notin {Nil, n.decision})
      => PolkaAgainst(m.decision, m.round, n.round)

(* w has moved past round r without a precommit for b there. *)
Out(w, r, b) ==
  /\ Vote(w, r, "precommit", b) \notin votes
  /\ \E m \in votes : m.voter = w /\ m.round > r

(* +2/3 prevotes against b after round r mean that b cannot be committed in *)
(* round r any more: the correct validators among some +2/3 are out of it.  *)
Excluded(b, r) ==
  \E Q \in SUBSET Validators :
    OverTwoThirds(Q) /\ \A w \in Q \cap Correct : Out(w, r, b)

PolkaExcludes ==
  \A b \in Blocks, r \in Rounds :
    PolkaAgainst(b, r, MaxRound) => Excluded(b, r)

DecidedHasQuorum ==
  \A b \in decided : \E r \in Rounds : OverTwoThirds(Voters(r, "precommit", b))

(* The promise behind Agreement, as an inductive invariant: one vote per   *)
(* round and type, precommits backed by a polka, a precommitted block left *)
(* only for a later polka, and no polka against a block that +2/3 have     *)
(* precommitted or can still precommit.                                    *)
SafetyInv ==
  /\ TypeOK
  /\ OneVote
  /\ PrecommitHasPolka
  /\ PrevoteReleased
  /\ PolkaExcludes
  /\ DecidedHasQuorum
=============================================================================
