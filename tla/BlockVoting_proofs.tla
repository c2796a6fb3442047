------------------------- MODULE BlockVoting_proofs -------------------------
(***************************************************************************)
(* Agreement of BlockVoting for every validator list, every set of faulty  *)
(* validators below a third, every set of blocks and every round bound.    *)
(* SafetyInv is inductive without any bound on the faulty validators; the  *)
(* bound enters once, where two sets of over two thirds of the validators  *)
(* are shown to share a correct one.                                       *)
(***************************************************************************)
EXTENDS BlockVoting, FiniteSetTheorems, TLAPS

(* A vote set that grows keeps its +2/3. *)
LEMMA OverTwoThirdsMonotone ==
  ASSUME NEW T \in SUBSET Validators, NEW S \in SUBSET T, OverTwoThirds(S)
  PROVE  OverTwoThirds(T)
<1>1. IsFiniteSet(T) /\ IsFiniteSet(S)
  BY FiniteValidators, FS_Subset
<1>2. Cardinality(S) <= Cardinality(T)
  BY <1>1, FS_Subset
<1>3. Cardinality(S) \in Nat /\ Cardinality(T) \in Nat /\ Cardinality(Validators) \in Nat
  BY <1>1, FiniteValidators, FS_CardinalityType
<1> QED
  BY <1>2, <1>3 DEF OverTwoThirds

(* Two vote sets with +2/3, counted as hasOverTwoThirds counts them, share *)
(* a correct validator when fewer than a third are faulty.                 *)
LEMMA QuorumsMeet ==
  ASSUME FewFaulty,
         NEW S \in SUBSET Validators, NEW T \in SUBSET Validators,
         OverTwoThirds(S), OverTwoThirds(T)
  PROVE  \E v \in S \cap T : v \in Correct
<1> SUFFICES ASSUME S \cap T \subseteq Faulty PROVE FALSE
  BY DEF Correct
<1>1. /\ IsFiniteSet(S) /\ IsFiniteSet(T) /\ IsFiniteSet(Faulty)
      /\ IsFiniteSet(S \cap T) /\ IsFiniteSet(S \cup T)
  BY FiniteValidators, FaultyValidators, FS_Subset, FS_Union
<1>2. /\ Cardinality(S) \in Nat /\ Cardinality(T) \in Nat
      /\ Cardinality(S \cap T) \in Nat /\ Cardinality(S \cup T) \in Nat
      /\ Cardinality(Faulty) \in Nat /\ Cardinality(Validators) \in Nat
  BY <1>1, FiniteValidators, FS_CardinalityType
<1>3. Cardinality(S \cup T) = Cardinality(S) + Cardinality(T) - Cardinality(S \cap T)
  BY <1>1, FS_Union
<1>4. Cardinality(S \cup T) <= Cardinality(Validators)
  BY FiniteValidators, FS_Subset
<1>5. Cardinality(S \cap T) <= Cardinality(Faulty)
  BY <1>1, FS_Subset
<1>6. 3 * Cardinality(S) > 2 * Cardinality(Validators)
  BY <1>2 DEF OverTwoThirds
<1>7. 3 * Cardinality(T) > 2 * Cardinality(Validators)
  BY <1>2 DEF OverTwoThirds
<1> QED
  BY <1>2, <1>3, <1>4, <1>5, <1>6, <1>7 DEF FewFaulty

(* Votes are never withdrawn, so neither is a polka. *)
LEMMA PolkaStable ==
  ASSUME votes \subseteq votes'
  PROVE  /\ \A r, x : Polka(r, x) => Polka(r, x)'
         /\ \A r, x : OverTwoThirds(Voters(r, "precommit", x))
                        => OverTwoThirds(Voters(r, "precommit", x))'
         /\ \A b, r, q : PolkaAgainst(b, r, q) => PolkaAgainst(b, r, q)'
<1>1. ASSUME NEW r, NEW t, NEW x
      PROVE  /\ Voters(r, t, x) \in SUBSET Voters(r, t, x)'
             /\ Voters(r, t, x)' \in SUBSET Validators
  BY DEF Voters
<1>2. ASSUME NEW r, NEW t, NEW x, OverTwoThirds(Voters(r, t, x))
      PROVE  OverTwoThirds(Voters(r, t, x)')
  BY <1>1, <1>2, OverTwoThirdsMonotone
<1>3. \A r, x : Polka(r, x) => Polka(r, x)'
  BY <1>2 DEF Polka, OverTwoThirds
<1>4. \A r, x : OverTwoThirds(Voters(r, "precommit", x))
                  => OverTwoThirds(Voters(r, "precommit", x))'
  BY <1>2 DEF OverTwoThirds
<1>5. \A b, r, q : PolkaAgainst(b, r, q) => PolkaAgainst(b, r, q)'
  BY <1>3 DEF PolkaAgainst
<1> QED
  BY <1>3, <1>4, <1>5

-----------------------------------------------------------------------------
LEMMA TypeCorrectStep == TypeOK /\ [Next]_vars => TypeOK'
<1> SUFFICES ASSUME TypeOK, [Next]_vars PROVE TypeOK'
  OBVIOUS
<1>1. ASSUME NEW v \in Correct, NEW r \in Rounds, NEW x \in Decisions, Prevote(v, r, x)
      PROVE  TypeOK'
  BY <1>1 DEF TypeOK, Prevote, Vote, VoteMessage, VoteTypes, Correct
<1>2. ASSUME NEW v \in Correct, NEW r \in Rounds, NEW x \in Decisions, Precommit(v, r, x)
      PROVE  TypeOK'
  BY <1>2 DEF TypeOK, Precommit, Vote, VoteMessage, VoteTypes, Correct
<1>3. ASSUME NEW r \in Rounds, NEW b \in Blocks, Commit(r, b)
      PROVE  TypeOK'
  BY <1>3 DEF TypeOK, Commit
<1>4. ASSUME NEW v \in Faulty, NEW r \in Rounds, NEW t \in VoteTypes,
             NEW x \in Decisions, FaultyVote(v, r, t, x)
      PROVE  TypeOK'
  BY <1>4, FaultyValidators DEF TypeOK, FaultyVote, Vote, VoteMessage
<1>5. CASE UNCHANGED vars
  BY <1>5 DEF TypeOK, vars
<1> QED
  BY <1>1, <1>2, <1>3, <1>4, <1>5 DEF Next

(* TypeOK holds: every vote names a validator, a round within the bound and *)
(* a decision, and only blocks are committed.                               *)
THEOREM TypeCorrect == Spec => []TypeOK
<1>1. Init => TypeOK
  BY DEF Init, TypeOK
<1> QED
  BY <1>1, TypeCorrectStep, PTL DEF Spec

(* What a step that adds a vote of a correct validator must respect: the   *)
(* guards of Prevote and Precommit, in one place.                          *)
Guarded(m) ==
  /\ Fresh(m.voter, m.round, m.type)
  /\ Fresh(m.voter, m.round, "precommit")
  /\ m.type = "prevote" => Released(m.voter, m.round, m.decision)
  /\ m.type = "precommit" /\ m.decision # Nil => Polka(m.round, m.decision)

LEMMA NewVoteGuarded ==
  ASSUME TypeOK, [Next]_vars, NEW m \in votes', m \notin votes, m.voter \in Correct
  PROVE  votes' = votes \cup {m} /\ Guarded(m)
<1>1. ASSUME NEW v \in Correct, NEW r \in Rounds, NEW x \in Decisions, Prevote(v, r, x)
      PROVE  votes' = votes \cup {m} /\ Guarded(m)
  <2>1. m = Vote(v, r, "prevote", x)
    BY <1>1 DEF Prevote
  <2>2. /\ m.voter = v /\ m.round = r /\ m.type = "prevote" /\ m.decision = x
    BY <2>1 DEF Vote
  <2> QED
    BY <1>1, <2>1, <2>2 DEF Prevote, Guarded
<1>2. ASSUME NEW v \in Correct, NEW r \in Rounds, NEW x \in Decisions, Precommit(v, r, x)
      PROVE  votes' = votes \cup {m} /\ Guarded(m)
  <2>1. m = Vote(v, r, "precommit", x)
    BY <1>2 DEF Precommit
  <2>2. /\ m.voter = v /\ m.round = r /\ m.type = "precommit" /\ m.decision = x
    BY <2>1 DEF Vote
  <2> QED
    BY <1>2, <2>1, <2>2 DEF Precommit, Guarded
<1>3. ASSUME NEW v \in Faulty, NEW r \in Rounds, NEW t \in VoteTypes,
             NEW x \in Decisions, FaultyVote(v, r, t, x)
      PROVE  FALSE
  <2>1. m = Vote(v, r, t, x)
    BY <1>3 DEF FaultyVote
  <2> QED
    BY <2>1 DEF Vote, Correct
<1>4. ASSUME votes' = votes PROVE FALSE
  BY <1>4
<1> QED
  BY <1>1, <1>2, <1>3, <1>4 DEF Next, vars, Commit

LEMMA VotesGrow == [Next]_vars => votes \subseteq votes'
  BY DEF Next, vars, Prevote, Precommit, Commit, FaultyVote

(* A polka against b up to some round is one up to the last round. *)
LEMMA PolkaAgainstWidens ==
  ASSUME NEW b, NEW r, NEW q, PolkaAgainst(b, r, q)
  PROVE  PolkaAgainst(b, r, MaxRound)
  BY MaxRoundIsNat DEF PolkaAgainst, Rounds

(* A correct validator that is out of a round stays out of it. *)
LEMMA OutStable ==
  ASSUME TypeOK, [Next]_vars, NEW w \in Correct, NEW r \in Rounds, NEW b \in Blocks,
         Out(w, r, b)
  PROVE  Out(w, r, b)'
<1>1. PICK m \in votes : m.voter = w /\ m.round > r
  BY DEF Out
<1>2. m \in votes'
  BY VotesGrow
<1>3. ASSUME Vote(w, r, "precommit", b) \in votes' PROVE FALSE
  <2>1. Vote(w, r, "precommit", b) \notin votes
    BY DEF Out
  <2>2. Vote(w, r, "precommit", b).voter = w /\ Vote(w, r, "precommit", b).round = r
    BY DEF Vote
  <2>3. Guarded(Vote(w, r, "precommit", b))
    BY <1>3, <2>1, <2>2, NewVoteGuarded
  <2>4. m.round <= r
    BY <1>1, <2>2, <2>3 DEF Guarded, Fresh
  <2>5. m.round \in Int /\ r \in Int
    BY DEF TypeOK, VoteMessage, Rounds
  <2> QED
    BY <1>1, <2>4, <2>5
<1> QED
  BY <1>1, <1>2, <1>3 DEF Out

-----------------------------------------------------------------------------
(* SafetyInv is inductive, one lemma per conjunct. *)

LEMMA OneVoteStep ==
  ASSUME SafetyInv, [Next]_vars PROVE OneVote'
<1> SUFFICES ASSUME NEW m \in votes', NEW n \in votes',
                    m.voter \in Correct, m.voter = n.voter,
                    m.round = n.round, m.type = n.type
             PROVE  m = n
  BY DEF OneVote, Correct
<1>1. CASE m \in votes /\ n \in votes
  BY <1>1 DEF SafetyInv, OneVote
<1>2. ASSUME NEW k \in votes', NEW l \in votes', k \notin votes,
             k.voter \in Correct, k.voter = l.voter, k.round = l.round, k.type = l.type
      PROVE  k = l
  <2>1. votes' = votes \cup {k} /\ Guarded(k)
    BY <1>2, NewVoteGuarded DEF SafetyInv
  <2> QED
    BY <1>2, <2>1 DEF Guarded, Fresh
<1>3. CASE m \notin votes
  BY <1>2, <1>3
<1>4. CASE n \notin votes
  BY <1>2, <1>4
<1> QED
  BY <1>1, <1>3, <1>4

LEMMA PrecommitHasPolkaStep ==
  ASSUME SafetyInv, [Next]_vars PROVE PrecommitHasPolka'
<1> SUFFICES ASSUME NEW m \in votes', m.voter \in Correct,
                    m.type = "precommit", m.decision # Nil
             PROVE  Polka(m.round, m.decision)'
  BY DEF PrecommitHasPolka, Correct
<1>1. Polka(m.round, m.decision)
  <2>1. CASE m \in votes
    BY <2>1 DEF SafetyInv, PrecommitHasPolka
  <2>2. CASE m \notin votes
    BY <2>2, NewVoteGuarded DEF SafetyInv, Guarded
  <2> QED
    BY <2>1, <2>2
<1> QED
  BY <1>1, VotesGrow, PolkaStable

(* A prevote for y in round q and an earlier precommit for another block,   *)
(* both of a correct validator and both in the new state, are reconciled by *)
(* a polka of the old state.                                                *)
LEMMA ReleasedBefore ==
  ASSUME SafetyInv, [Next]_vars, NEW m \in votes', NEW n \in votes',
         m.voter \in Correct, n.voter = m.voter, m.type = "precommit",
         n.type = "prevote", m.round < n.round, m.decision \notin {Nil, n.decision}
  PROVE  PolkaAgainst(m.decision, m.round, n.round)
<1>0. votes \subseteq VoteMessage
  BY DEF SafetyInv, TypeOK
<1>1. m \in votes
  <2> SUFFICES ASSUME m \notin votes PROVE FALSE
    OBVIOUS
  <2>1. votes' = votes \cup {m} /\ Guarded(m)
    BY NewVoteGuarded DEF SafetyInv
  <2>2. n \in votes
    BY <2>1
  <2>3. n.round <= m.round
    BY <2>1, <2>2 DEF Guarded, Fresh
  <2>4. m \in VoteMessage
    BY TypeCorrectStep DEF SafetyInv, TypeOK
  <2>5. n.round \in Int /\ m.round \in Int
    BY <1>0, <2>2, <2>4 DEF VoteMessage, Rounds
  <2> QED
    BY <2>3, <2>5
<1>2. CASE n \in votes
  BY <1>1, <1>2 DEF SafetyInv, PrevoteReleased
<1>3. CASE n \notin votes
  <2>1. Guarded(n)
    BY <1>3, NewVoteGuarded DEF SafetyInv
  <2> QED
    BY <1>1, <2>1 DEF Guarded, Released
<1> QED
  BY <1>2, <1>3

LEMMA PrevoteReleasedStep ==
  ASSUME SafetyInv, [Next]_vars PROVE PrevoteReleased'
<1> SUFFICES ASSUME NEW m \in votes', NEW n \in votes',
                    m.voter \in Correct, n.voter = m.voter, m.type = "precommit",
                    n.type = "prevote", m.round < n.round,
                    m.decision \notin {Nil, n.decision}
             PROVE  PolkaAgainst(m.decision, m.round, n.round)'
  BY DEF PrevoteReleased, Correct
<1>1. PolkaAgainst(m.decision, m.round, n.round)
  BY ReleasedBefore
<1> QED
  BY <1>1, VotesGrow, PolkaStable

(* The heart of the argument: the first polka against b after round r is   *)
(* made of validators that are out of round r for b, since one that had    *)
(* precommitted b there would have needed an earlier polka to be released. *)
LEMMA PolkaExcludesStep ==
  ASSUME SafetyInv, [Next]_vars PROVE PolkaExcludes'
<1> SUFFICES ASSUME NEW b \in Blocks, NEW r \in Rounds, PolkaAgainst(b, r, MaxRound)'
             PROVE  Excluded(b, r)'
  BY DEF PolkaExcludes, Rounds
<1>0. TypeOK /\ TypeOK'
  BY TypeCorrectStep DEF SafetyInv
<1>1. CASE PolkaAgainst(b, r, MaxRound)
  <2>1. PICK Q \in SUBSET Validators :
               OverTwoThirds(Q) /\ \A w \in Q \cap Correct : Out(w, r, b)
    BY <1>1 DEF SafetyInv, PolkaExcludes, Excluded
  <2>2. \A w \in Q \cap Correct : Out(w, r, b)'
    BY <1>0, <2>1, OutStable
  <2> QED
    BY <2>1, <2>2 DEF Excluded, OverTwoThirds, Correct
<1>2. CASE ~PolkaAgainst(b, r, MaxRound)
  <2>1. PICK q \in Rounds, y \in Decisions \ {b} : r < q /\ Polka(q, y)'
    BY DEF PolkaAgainst, Rounds, Decisions
  <2> DEFINE Q == {v \in Validators : Vote(v, q, "prevote", y) \in votes'}
  <2>2. Q \in SUBSET Validators /\ OverTwoThirds(Q)
    BY <2>1 DEF Polka, Voters, OverTwoThirds
  <2>3. ASSUME NEW w \in Q \cap Correct PROVE Out(w, r, b)'
    <3> DEFINE m == Vote(w, r, "precommit", b)
               n == Vote(w, q, "prevote", y)
    <3>1. n \in votes' /\ n.voter = w /\ n.round = q /\ n.type = "prevote" /\ n.decision = y
      BY DEF Vote
    <3>2. n.round > r
      BY <2>1, <3>1 DEF Rounds
    <3>3. ASSUME m \in votes' PROVE FALSE
      <4>1. m.voter = w /\ m.round = r /\ m.type = "precommit" /\ m.decision = b
        BY DEF Vote
      <4>2. b \notin {Nil, y}
        BY <2>1, NilIsNoBlock
      <4> HIDE DEF m, n
      <4>3. PolkaAgainst(m.decision, m.round, n.round)
        BY <2>1, <3>1, <3>3, <4>1, <4>2, ReleasedBefore
      <4> QED
        BY <1>2, <4>1, <4>3, PolkaAgainstWidens
    <3> QED
      BY <3>1, <3>2, <3>3 DEF Out
  <2> QED
    BY <2>2, <2>3 DEF Excluded, OverTwoThirds, Correct
<1> QED
  BY <1>1, <1>2

LEMMA DecidedHasQuorumStep ==
  ASSUME SafetyInv, [Next]_vars PROVE DecidedHasQuorum'
<1> SUFFICES ASSUME NEW b \in decided'
             PROVE  \E r \in Rounds : OverTwoThirds(Voters(r, "precommit", b))'
  BY DEF DecidedHasQuorum, Rounds
<1>1. \E r \in Rounds : OverTwoThirds(Voters(r, "precommit", b))
  BY DEF SafetyInv, DecidedHasQuorum, Next, vars, Prevote, Precommit, Commit, FaultyVote
<1> QED
  BY <1>1, VotesGrow, PolkaStable

(* The promises of a correct validator (one vote per round and type, a      *)
(* polka behind every precommit, a lock left only for a later polka) and    *)
(* what follows for the quorums hold in every reachable state, whatever and *)
(* however many validators are faulty.                                      *)
THEOREM SafetyInvHolds == Spec => []SafetyInv
<1>1. Init => SafetyInv
  <2> SUFFICES ASSUME Init PROVE SafetyInv
    OBVIOUS
  <2>1. ASSUME NEW r, NEW x PROVE ~Polka(r, x)
    <3>1. Voters(r, "prevote", x) = {}
      BY DEF Init, Voters
    <3>2. Cardinality(Validators) \in Nat
      BY FiniteValidators, FS_CardinalityType
    <3> QED
      BY <3>1, <3>2, FS_EmptySet DEF Polka, OverTwoThirds
  <2>2. PolkaExcludes
    BY <2>1 DEF PolkaExcludes, PolkaAgainst
  <2> QED
    BY <2>2 DEF Init, SafetyInv, TypeOK, OneVote, PrecommitHasPolka,
                PrevoteReleased, DecidedHasQuorum
<1>2. SafetyInv /\ [Next]_vars => SafetyInv'
  <2> SUFFICES ASSUME SafetyInv, [Next]_vars PROVE SafetyInv'
    OBVIOUS
  <2>1. TypeOK'
    BY TypeCorrectStep DEF SafetyInv
  <2> QED
    BY <2>1, OneVoteStep, PrecommitHasPolkaStep, PrevoteReleasedStep,
       PolkaExcludesStep, DecidedHasQuorumStep DEF SafetyInv
<1> QED
  BY <1>1, <1>2, PTL DEF Spec

(* Two blocks are not committed in two rounds (or one). *)
LEMMA QuorumsAgree ==
  ASSUME FewFaulty, SafetyInv,
         NEW a \in Blocks, NEW b \in Blocks, NEW r \in Rounds, NEW q \in Rounds, r <= q,
         OverTwoThirds(Voters(r, "precommit", a)), OverTwoThirds(Voters(q, "precommit", b))
  PROVE  a = b
<1> SUFFICES ASSUME a # b PROVE FALSE
  OBVIOUS
<1>1. CASE r = q
  <2>1. PICK v \in Correct : /\ v \in Voters(r, "precommit", a)
                             /\ v \in Voters(q, "precommit", b)
    BY QuorumsMeet DEF Voters
  <2>2. /\ Vote(v, r, "precommit", a) \in votes
        /\ Vote(v, r, "precommit", b) \in votes
    BY <1>1, <2>1 DEF Voters
  <2>3. Vote(v, r, "precommit", a) = Vote(v, r, "precommit", b)
    BY <2>2 DEF SafetyInv, OneVote, Vote
  <2> QED
    BY <2>3 DEF Vote
<1>2. CASE r < q
  <2>1. PICK w \in Correct : w \in Voters(q, "precommit", b)
    BY QuorumsMeet DEF Voters
  <2>2. Polka(q, b)
    <3>1. Vote(w, q, "precommit", b) \in votes
      BY <2>1 DEF Voters
    <3> QED
      BY <3>1, NilIsNoBlock DEF SafetyInv, PrecommitHasPolka, Vote
  <2>3. PolkaAgainst(a, r, MaxRound)
    BY <1>2, <2>2, MaxRoundIsNat DEF PolkaAgainst, Rounds, Decisions
  <2>4. PICK Q \in SUBSET Validators :
               OverTwoThirds(Q) /\ \A u \in Q \cap Correct : Out(u, r, a)
    BY <2>3 DEF SafetyInv, PolkaExcludes, Excluded
  <2>5. Voters(r, "precommit", a) \in SUBSET Validators
    BY DEF Voters
  <2>6. PICK u \in Correct : u \in Q /\ u \in Voters(r, "precommit", a)
    BY <2>4, <2>5, QuorumsMeet
  <2> QED
    BY <2>4, <2>6 DEF Out, Voters
<1> QED
  BY <1>1, <1>2 DEF Rounds

(* Agreement: with fewer than a third of the validators faulty, no two     *)
(* blocks are committed at one height, for any number of validators, any   *)
(* blocks and any number of rounds.                                        *)
THEOREM AgreementHolds == FewFaulty /\ Spec => []Agreement
<1>1. FewFaulty /\ SafetyInv => Agreement
  <2> SUFFICES ASSUME FewFaulty, SafetyInv, NEW a \in decided, NEW b \in decided
               PROVE  a = b
    BY DEF Agreement
  <2>1. a \in Blocks /\ b \in Blocks
    BY DEF SafetyInv, TypeOK
  <2>2. PICK r \in Rounds : OverTwoThirds(Voters(r, "precommit", a))
    BY DEF SafetyInv, DecidedHasQuorum
  <2>3. PICK q \in Rounds : OverTwoThirds(Voters(q, "precommit", b))
    BY DEF SafetyInv, DecidedHasQuorum
  <2>4. r <= q \/ q <= r
    BY DEF Rounds
  <2> QED
    BY <2>1, <2>2, <2>3, <2>4, QuorumsAgree
<1>2. FewFaulty => []FewFaulty
  <2>1. FewFaulty /\ [TRUE]_vars => FewFaulty'
    BY DEF FewFaulty
  <2> QED
    BY <2>1, PTL
<1> QED
  BY <1>1, <1>2, SafetyInvHolds, PTL
=============================================================================
