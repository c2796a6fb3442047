----------------------------- MODULE Consensus -----------------------------
(***************************************************************************)
(* The consensus engine of one node (src/consensus/consensus.go) and what  *)
(* it keeps on disk, in an open environment: the votes, proposals, block   *)
(* parts and fast-sync results of the other nodes arrive in any order, any *)
(* number of times or never; timers and block manager callbacks come late; *)
(* the process crashes between any two writes and starts again.            *)
(*                                                                         *)
(* Every handler runs under one mutex and calls others, through sendVote   *)
(* even itself.  A handler is therefore a chain of steps, one per Go       *)
(* function: `call' is the function about to run and `recheck' the         *)
(* functions on the stack below it that still have to look at the step     *)
(* they returned to.  Nothing but a crash comes between two of the steps.  *)
(***************************************************************************)
EXTENDS Integers, Sequences, FiniteSets
LOCAL INSTANCE SequencesExt
LOCAL INSTANCE FiniteSetsExt

CONSTANTS
  Validators,    \* the validator list, the same at every height
  Self,          \* this node, a validator or not
  SelfIndex,     \* its index in the validator list
  Blocks,        \* identifiers of block part sets
  Nil,           \* no block
  ProposedBy,    \* the proposer's index in the header of a block
  Unreadable,    \* blocks this node cannot decode
  OtherVotes,    \* votes the other validators may send
  Equivocators,  \* validators that may send two votes for one round
  Proposals,     \* proposals the other validators may send
  Parts,         \* block parts the other nodes may send, as <<height, id>>
  FastSynced,    \* blocks that fast sync may deliver
  MaxHeight,     \* bound on heights
  MaxRound,      \* bound on rounds
  MaxCrashes,    \* bound on crashes and terminations
  Watched,       \* height whose votes are compared with BlockVoting
  MaxLate        \* bound on cancelled callbacks that still wait for the mutex

NewHeight == 0
TransactionWait == 1
NewRound == 2
Propose == 3
Prevote == 4
PrevoteWait == 5
Precommit == 6
PrecommitWait == 7
Commit == 8

Decisions == Blocks \cup {Nil}

VoteTypes == {"prevote", "precommit"}

Heights == 1 .. MaxHeight

Rounds == 0 .. MaxRound

VoteMessage == [height : Heights, voter : Validators, round : Rounds,
                type : VoteTypes, decision : Decisions]

ProposalMessage == [height : Heights, round : Rounds, id : Blocks, polRound : Rounds \cup {-1}]

BlockResult == [height : Heights, id : Blocks, round : Rounds]

ASSUME ValidatorsAssumption == IsFiniteSet(Validators) /\ Validators # {}
ASSUME SelfAssumption == SelfIndex \in 0 .. Cardinality(Validators) - 1
ASSUME BlocksAssumption == Nil \notin Blocks /\ Unreadable \subseteq Blocks
ASSUME ProposedByAssumption == ProposedBy \in [Blocks -> Int]
(* Only +2/3 votes lead to the next round or height, so the bounds on the  *)
(* votes bound the engine: it gets one round and one height further.       *)
ASSUME OtherVotesAssumption ==
  /\ OtherVotes \subseteq VoteMessage
  /\ \A m \in OtherVotes : m.voter # Self /\ m.height < MaxHeight /\ m.round < MaxRound
ASSUME ProposalsAssumption ==
  /\ Proposals \subseteq ProposalMessage
  /\ \A p \in Proposals : p.polRound < p.round
ASSUME PartsAssumption == Parts \subseteq Heights \X Blocks
ASSUME FastSyncedAssumption == FastSynced \subseteq BlockResult
ASSUME BoundsAssumption ==
  MaxHeight \in Nat /\ Watched \in Heights /\ MaxRound \in Nat /\ MaxCrashes \in Nat /\ MaxLate \in Nat

VARIABLES
  cs,             \* fields of the struct consensus
  hvs,            \* votes of the current height
  lastVotes,      \* precommits for the last block
  bpmCache,       \* cached block parts
  prefetchItems,  \* fast-synced blocks of later heights
  callbacks,      \* timers and block manager requests not yet called back
  call,           \* function about to run under the mutex
  recheck,        \* functions below it on the stack with a check to make
  started,        \* the process is up and Start has run
  wal,            \* the round, lock and commit logs: synced and buffered records
  chain,          \* finalized blocks
  proposed,       \* proposals this node has broadcast (history)
  sent,           \* votes this node has signed (history)
  seen,           \* votes of others this node has counted (history)
  crashes         \* number of crashes and terminations so far

vars == <<cs, hvs, lastVotes, bpmCache, prefetchItems, callbacks, call, recheck,
          started, wal, chain, proposed, sent, seen, crashes>>

disk == <<wal, chain>>
history == <<proposed, sent, seen, crashes>>
inputs == <<bpmCache, prefetchItems, lastVotes>>

-----------------------------------------------------------------------------
(* blockPartSet: one part per block, so complete or empty *)

Zero == [id |-> Nil, complete |-> FALSE, block |-> FALSE, validated |-> FALSE]

BlockPartSet == [id : Decisions, complete : BOOLEAN, block : BOOLEAN, validated : BOOLEAN]

IsZero(bps) == bps.id = Nil

SetByPartSetID(bps, id) == IF bps.id = id THEN bps ELSE [Zero EXCEPT !.id = id]

(* AddPart of the only part: the block is decoded, if this node can. *)
AddPart(bps) ==
  [bps EXCEPT !.complete = TRUE, !.block = bps.block \/ bps.id \notin Unreadable]

(* Parts in the cache complete the part set. *)
AddCachedParts(bps, height) ==
  IF <<height, bps.id>> \in bpmCache /\ ~bps.complete THEN AddPart(bps) ELSE bps

PartSetAndBlock(bps, id) ==
  [id |-> id, complete |-> TRUE, block |-> TRUE, validated |-> bps.validated /\ bps.id = id]

-----------------------------------------------------------------------------
(* voteSet and heightVoteSet: a set of votes, one per voter, round and type *)

Vote(h, v, r, t, x) == [height |-> h, voter |-> v, round |-> r, type |-> t, decision |-> x]

SameSlot(m, n) == m.voter = n.voter /\ m.round = n.round /\ m.type = n.type

votesFor(r, t) == {m \in hvs : m.round = r /\ m.type = t}

hasAboutTwoThirds(vs) == Cardinality(vs) >= (Cardinality(Validators) * 2) \div 3

hasOverTwoThirds(vs) == Cardinality(vs) > (Cardinality(Validators) * 2) \div 3

(* The decisions with +2/3, one or none.  The two results of               *)
(* getOverTwoThirdsPartSetID are (x, true) for {x} and (nil, false) for {}. *)
OverTwoThirds(vs) == {x \in Decisions : hasOverTwoThirds({m \in vs : m.decision = x})}

PartSetID(vs) == CHOOSE x \in OverTwoThirds(vs) : TRUE

addedAlways(vs, m, restamped) ==
  \A n \in vs : SameSlot(m, n) => n.decision # m.decision \/ restamped

(* voteSet.add: an equal vote is not added again, and no vote replaces one *)
(* for the decision that has +2/3.  Votes with other timestamps differ.    *)
added(vs, m, restamped) ==
  \A n \in vs : SameSlot(m, n) =>
    /\ n.decision # m.decision \/ restamped
    /\ n.decision \notin OverTwoThirds({k \in vs : k.round = m.round /\ k.type = m.type})

add(vs, m, restamped) ==
  IF added(vs, m, restamped) THEN {n \in vs : ~SameSlot(m, n)} \cup {m} ELSE vs

(* checkAndAdd: late precommits for the last block join those it has. *)
LastVotesWith(m) ==
  IF /\ m.height = cs.height - 1
     /\ cs.step <= TransactionWait
     /\ m.type = "precommit"
     /\ \A n \in lastVotes : n.round = m.round
     /\ m.decision \in OverTwoThirds(lastVotes)
     /\ \A n \in lastVotes : SameSlot(m, n) => n.decision \notin OverTwoThirds(lastVotes)
  THEN {n \in lastVotes : ~SameSlot(m, n)} \cup {m}
  ELSE lastVotes

removeLowerRound(lower, except) == {m \in hvs : m.round >= lower}

removeLowerRoundExcept(lower, except) == {m \in hvs : m.round >= lower \/ m.round = except}

-----------------------------------------------------------------------------
(* Calls, callbacks and steps *)

Frame(op, type, id, round, votes) ==
  [op |-> op, type |-> type, id |-> id, round |-> round, votes |-> votes]

Go(op) == Frame(op, "none", Nil, -1, {})

Idle == Go("idle")

SendVote(type, id) == Frame("sendVote", type, id, -1, {})

Running(op) == started /\ call.op = op

(* The mutex is free. *)
Ready == started /\ call = Idle /\ recheck = {}

At(height, round, step) == [height |-> height, round |-> round, step |-> step]

hrs == At(cs.height, cs.round, cs.step)

Callback(kind, id, at) == [kind |-> kind, id |-> id, hrs |-> at]

Timer(step) == Callback("timer", Nil, At(cs.height, cs.round, step))

isValidTransition(from, to) ==
  CASE to = NewHeight -> from \in {NewHeight, Commit}
    [] to = NewRound  -> TRUE
    [] OTHER          -> from < to

(* A stopped timer or a cancelled request may already wait for the mutex: *)
(* its callback still comes.                                              *)
Cancel(cbs) ==
  {T \in SUBSET callbacks : callbacks \ cbs \subseteq T /\ Cardinality(T \cap cbs) <= MaxLate}

(* endStep: a block import outlives its step, except Propose and Commit. *)
EndStep == Cancel({cb \in callbacks : cb.kind # "import" \/ cs.step \in {Propose, Commit}})

(* resetForNewStep; beginStep panics unless the transition is valid. *)
ResetForNewStep(step, started_callbacks) ==
  /\ isValidTransition(cs.step, step)
  /\ \E T \in EndStep : callbacks' = T \cup started_callbacks

NewRoundOfNext(c, round) ==
  [c EXCEPT !.proposalPOLRound = -1, !.current = Zero, !.round = round + 1, !.step = NewRound]

NewRoundOfLast(c, round) ==
  [c EXCEPT !.proposalPOLRound = -1, !.current = Zero, !.round = round - 1, !.step = NewRound]

(* resetForNewRound without the step. *)
NewRoundOf(c, round) ==
  [c EXCEPT !.proposalPOLRound = -1, !.current = Zero, !.round = round, !.step = NewRound]

Unlocked(c) == [c EXCEPT !.lockedRound = -1, !.locked = Zero]

-----------------------------------------------------------------------------
(* Write-ahead logs.  Sync makes everything written so far durable; of the *)
(* rest any prefix may survive a crash.                                    *)

Logs == {"round", "lock", "commit"}

Record(kind, round, type, id, votes) ==
  [kind |-> kind, height |-> cs.height, round |-> round, type |-> type, id |-> id,
   votes |-> votes]

(* Records that no restart can read any more are left out. *)
Write(w, log, records) ==
  IF crashes < MaxCrashes THEN [w EXCEPT ![log].records = @ \o records] ELSE w

SyncNothing(w, log) == w

Sync(w, log) == [w EXCEPT ![log].synced = Len(w[log].records)]

-----------------------------------------------------------------------------
(* Conditions *)

isProposer ==
  Self \in Validators /\ (cs.height + cs.round) % Cardinality(Validators) = SelfIndex

isProposalAndPOLPrevotesComplete(c) ==
  /\ c.current.complete
  /\ c.proposalPOLRound >= 0 =>
       OverTwoThirds(votesFor(c.proposalPOLRound, "prevote")) \ {Nil} # {}

proposalHasValidProposer ==
  /\ isProposalAndPOLPrevotesComplete(cs)
  /\ cs.proposalPOLRound = -1 =>
       ProposedBy[cs.current.id] = (cs.height + cs.round) % Cardinality(Validators)

-----------------------------------------------------------------------------
(* Messages *)

CountVoteOfRound(m, restamped) ==
  IF m.height = cs.height /\ m.round >= cs.round /\ added(hvs, m, restamped)
  THEN LET vs == add(hvs, m, restamped)
       IN  /\ hvs' = vs
           /\ call' = IF hasOverTwoThirds({n \in vs : n.round = m.round /\ n.type = m.type})
                      THEN Frame(IF m.type = "prevote" THEN "handlePrevoteMessage"
                                                       ELSE "handlePrecommitMessage",
                                 m.type, Nil, m.round, {})
                      ELSE Idle
  ELSE UNCHANGED hvs /\ call' = Idle

CountVoteFirst(m, restamped) ==
  IF m.height = cs.height /\ added(hvs, m, restamped)
  THEN /\ hvs' = add(hvs, m, restamped)
       /\ call' = IF hasOverTwoThirds(votesFor(m.round, m.type))
                  THEN Frame(IF m.type = "prevote" THEN "handlePrevoteMessage"
                                                   ELSE "handlePrecommitMessage",
                             m.type, Nil, m.round, {})
                  ELSE Idle
  ELSE UNCHANGED hvs /\ call' = Idle

(* A vote is counted; with +2/3 votes of its round and type it is handled. *)
CountVote(m, restamped) ==
  IF m.height = cs.height /\ added(hvs, m, restamped)
  THEN LET vs == add(hvs, m, restamped)
       IN  /\ hvs' = vs
           /\ call' = IF hasOverTwoThirds({n \in vs : n.round = m.round /\ n.type = m.type})
                      THEN Frame(IF m.type = "prevote" THEN "handlePrevoteMessage"
                                                       ELSE "handlePrecommitMessage",
                                 m.type, Nil, m.round, {})
                      ELSE Idle
  ELSE UNCHANGED hvs /\ call' = Idle

(* Votes the other nodes can have sent: one per validator, round and type, *)
(* except for those that equivocate.  They send this node's own votes too. *)
Sendable(m) ==
  \/ m.voter \in Equivocators
  \/ \A n \in seen : n.height = m.height /\ SameSlot(m, n) => n = m

ReceiveVoteMessage(m, restamped) ==
  /\ Ready
  /\ Sendable(m) /\ (restamped => m.voter \in Equivocators)
  /\ CountVote(m, restamped)
  /\ seen' = IF m.height = cs.height /\ added(hvs, m, restamped) THEN seen \cup {m} ELSE seen
  /\ lastVotes' = LastVotesWith(m)
  /\ UNCHANGED <<cs, bpmCache, prefetchItems, callbacks, recheck, started, disk,
                 proposed, sent, crashes>>

UnlocksOnAnyPolka(r, vs) ==
  OverTwoThirds(vs) # {} /\ cs.lockedRound < r /\ ~IsZero(cs.locked)

(* A later polka for anything else unlocks. *)
Unlocks(r, vs) ==
  OverTwoThirds(vs) # {} /\ cs.lockedRound < r /\ ~IsZero(cs.locked) /\ cs.locked.id # PartSetID(vs)

handlePrevoteMessage ==
  /\ Running("handlePrevoteMessage")
  /\ LET r  == call.round
         vs == votesFor(r, "prevote")
         ok == OverTwoThirds(vs) # {}
         c  == IF Unlocks(r, vs) THEN Unlocked(cs) ELSE cs
         d  == IF ok /\ cs.round = r /\ PartSetID(vs) # Nil
               THEN [c EXCEPT !.current = SetByPartSetID(@, PartSetID(vs))]
               ELSE c
     IN  \/ /\ cs.step >= Commit
            /\ call' = Idle
            /\ UNCHANGED <<cs, hvs, callbacks>>
         \/ /\ cs.step < Commit /\ r <= cs.round
            /\ cs' = d
            /\ call' = CASE cs.round > r /\ cs.step < Prevote /\ r = cs.proposalPOLRound
                              /\ isProposalAndPOLPrevotesComplete(d) -> Go("enterPrevote")
                         [] cs.round = r /\ cs.step < Prevote -> Go("enterPrevote")
                         [] cs.round = r /\ cs.step = Prevote -> Go("enterPrevoteWait")
                         [] cs.round = r /\ cs.step = PrevoteWait /\ ok -> Go("enterPrecommit")
                         [] OTHER -> Idle
            /\ UNCHANGED <<hvs, callbacks>>
         \/ /\ cs.step < Commit /\ cs.round < r
            /\ cs' = NewRoundOf(c, r)
            /\ hvs' = removeLowerRoundExcept(r - 1, c.lockedRound)
            /\ callbacks' \in Cancel(callbacks)
            /\ call' = Go("enterPrevote")
  /\ UNCHANGED <<inputs, recheck, started, disk, history>>

handlePrecommitMessage ==
  /\ Running("handlePrecommitMessage")
  /\ LET r  == call.round
         vs == votesFor(r, "precommit")
         commit == OverTwoThirds(vs) \ {Nil} # {}
         enterCommitFrame == Frame("enterCommit", "none", PartSetID(vs), r, {})
     IN  \/ /\ cs.step >= Commit \/ r <= cs.round
            /\ call' = CASE r < cs.round /\ cs.step < Commit /\ commit -> enterCommitFrame
                         [] r = cs.round /\ cs.step < Precommit -> Go("enterPrecommit")
                         [] r = cs.round /\ cs.step = Precommit -> Go("enterPrecommitWait")
                         [] r = cs.round /\ cs.step = PrecommitWait /\ commit -> enterCommitFrame
                         [] r = cs.round /\ cs.step = PrecommitWait
                              /\ OverTwoThirds(vs) = {Nil} -> Go("enterNewRound")
                         [] OTHER -> Idle
            /\ UNCHANGED <<cs, hvs, callbacks>>
         \/ /\ cs.step < Commit /\ cs.round < r
            /\ cs' = NewRoundOf(cs, r)
            /\ hvs' = removeLowerRoundExcept(r - 1, cs.lockedRound)
            /\ callbacks' \in Cancel(callbacks)
            /\ call' = Go("enterPrecommit")
  /\ UNCHANGED <<inputs, recheck, started, disk, history>>

(* What follows a new part of the current part set. *)
AfterPart(c) ==
  CASE c.step \in {TransactionWait, Propose} /\ isProposalAndPOLPrevotesComplete(c)
         -> Go("enterPrevote")
    [] c.step = Commit /\ c.current.complete -> Go("commitAndEnterNewHeight")
    [] OTHER -> Idle

(* p is signed by the proposer of its round.  A node that proposes may get *)
(* its own proposal back from the others, and needs it after a restart.    *)
ReceiveProposalMessage(p) ==
  /\ Ready
  /\ p.height = cs.height /\ p.round = cs.round /\ cs.step < Commit
  /\ isProposer => p \in proposed
  /\ IsZero(cs.current)
  /\ LET bps == AddCachedParts(SetByPartSetID(Zero, p.id), cs.height)
         c   == [cs EXCEPT !.proposalPOLRound = p.polRound, !.current = bps]
     IN  cs' = c /\ call' = AfterPart(c)
  /\ UNCHANGED <<hvs, inputs, callbacks, recheck, started, disk, history>>

(* The cache drops older parts to make room. *)
ReceiveBlockPartMessage(height, id) ==
  /\ Ready
  /\ bpmCache' \in IF cs.height <= height /\ height < cs.height + 3
                   THEN {S \cup {<<height, id>>} : S \in SUBSET bpmCache}
                   ELSE {bpmCache}
  /\ IF height = cs.height /\ cs.current.id = id /\ ~cs.current.complete
     THEN LET c == [cs EXCEPT !.current = AddPart(@)]
          IN  cs' = c /\ call' = AfterPart(c)
     ELSE UNCHANGED <<cs, call>>
  /\ UNCHANGED <<hvs, lastVotes, prefetchItems, callbacks, recheck, started, disk, history>>

(* The commit votes that may come with a block of fast sync. *)
CommitVotes(br) ==
  {m \in OtherVotes \cup sent :
     /\ m.height = br.height /\ m.round = br.round
     /\ m.type = "precommit" /\ m.decision = br.id
     /\ Sendable(m)}

(* The votes that come with the block are as many as the peer chose to    *)
(* send.                                                                   *)
ProcessBlock(br) ==
  {Frame("processBlock", "none", br.id, br.round, vs) : vs \in SUBSET CommitVotes(br)}

ReceiveBlock(br) ==
  /\ Ready
  /\ \/ /\ cs.height < br.height
        /\ prefetchItems' = prefetchItems \cup {br}
        /\ UNCHANGED call
     \/ /\ cs.height = br.height /\ ~(cs.step = Commit /\ cs.current.complete)
        /\ call' \in ProcessBlock(br)
        /\ UNCHANGED prefetchItems
  /\ UNCHANGED <<cs, hvs, lastVotes, bpmCache, callbacks, recheck, started, disk, history>>

-----------------------------------------------------------------------------
(* Steps of a round *)

enterPropose ==
  /\ Running("enterPropose")
  /\ \/ /\ isProposer /\ ~IsZero(cs.locked)
        /\ ResetForNewStep(Propose, {Timer(Propose)})
        /\ cs' = [cs EXCEPT !.step = Propose, !.current = cs.locked]
        /\ call' = Frame("sendProposal", "none", cs.locked.id, cs.lockedRound, {})
     \/ /\ isProposer /\ IsZero(cs.locked)
        /\ \E request \in SUBSET {Callback("propose", Nil, At(cs.height, cs.round, Propose))} :
             ResetForNewStep(Propose, {Timer(Propose)} \cup request)
        /\ cs' = [cs EXCEPT !.step = Propose]
        /\ call' = Idle
     \/ /\ ~isProposer
        /\ ResetForNewStep(Propose, {Timer(Propose)})
        /\ cs' = [cs EXCEPT !.step = Propose]
        /\ call' = IF isProposalAndPOLPrevotesComplete(cs) THEN Go("enterPrevote") ELSE Idle
  /\ UNCHANGED <<hvs, inputs, recheck, started, disk, history>>

sendProposalUnlogged ==
  /\ Running("sendProposal")
  /\ call' = [call EXCEPT !.op = "broadcastProposal"]
  /\ UNCHANGED <<cs, hvs, inputs, callbacks, recheck, started, disk, history>>

(* Logged and synced, then broadcast; a new block is prevoted at once, a   *)
(* locked one when the timer fires.                                        *)
sendProposal ==
  /\ Running("sendProposal")
  /\ wal' = Sync(Write(wal, "round", <<Record("proposal", cs.round, "none", call.id, {})>>), "round")
  /\ call' = [call EXCEPT !.op = "broadcastProposal"]
  /\ UNCHANGED <<cs, hvs, inputs, callbacks, recheck, started, chain, history>>

broadcastProposal ==
  /\ Running("broadcastProposal")
  /\ proposed' = proposed \cup {[height |-> cs.height, round |-> cs.round, id |-> call.id,
                                 polRound |-> call.round]}
  /\ call' = IF call.round = -1 THEN Go("enterPrevote") ELSE Idle
  /\ UNCHANGED <<cs, hvs, inputs, callbacks, recheck, started, disk, sent, seen, crashes>>

PrevoteForUnvalidated == IF IsZero(cs.locked) THEN cs.current.id ELSE cs.locked.id

PrevoteForUnlocked == IF cs.current.validated THEN cs.current.id ELSE Nil

PrevoteForProven ==
  CASE ~IsZero(cs.locked) /\ ~(cs.current.block /\ cs.proposalPOLRound >= cs.lockedRound)
         -> cs.locked.id
    [] cs.current.block -> cs.current.id
    [] OTHER            -> Nil

(* The vote of a prevote that needs no import. *)
PrevoteFor ==
  CASE ~IsZero(cs.locked)                        -> cs.locked.id
    [] IsZero(cs.locked) /\ cs.current.validated -> cs.current.id
    [] OTHER                                     -> Nil

(* BlockManager.ImportBlock accepts the request or fails at once. *)
enterPrevote ==
  /\ Running("enterPrevote")
  /\ cs' = [cs EXCEPT !.step = Prevote]
  /\ LET import == /\ IsZero(cs.locked)
                   /\ cs.current.block
                   /\ ~cs.current.validated
                   /\ proposalHasValidProposer
         request == Callback("import", cs.current.id, At(cs.height, cs.round, Prevote))
     IN  \/ /\ import
            /\ ResetForNewStep(Prevote, {request})
            /\ call' = Idle
            /\ recheck' = recheck \cup {"prevote"}
         \/ /\ import
            /\ ResetForNewStep(Prevote, {})
            /\ call' = SendVote("prevote", Nil)
            /\ UNCHANGED recheck
         \/ /\ ~import
            /\ ResetForNewStep(Prevote, {})
            /\ call' = SendVote("prevote", PrevoteFor)
            /\ recheck' = recheck \cup {"prevote"}
  /\ UNCHANGED <<hvs, inputs, started, disk, history>>

enterPrevoteWait ==
  /\ Running("enterPrevoteWait")
  /\ cs' = [cs EXCEPT !.step = PrevoteWait]
  /\ LET vs == votesFor(cs.round, "prevote")
     IN  /\ wal' = Write(wal, "round", <<Record("votes", cs.round, "prevote", Nil, vs)>>)
         /\ \/ /\ OverTwoThirds(vs) # {}
               /\ ResetForNewStep(PrevoteWait, {})
               /\ call' = Go("enterPrecommit")
            \/ /\ OverTwoThirds(vs) = {}
               /\ ResetForNewStep(PrevoteWait, {Timer(PrevoteWait)})
               /\ call' = Idle
  /\ UNCHANGED <<hvs, inputs, recheck, started, chain, history>>

enterPrecommit ==
  /\ Running("enterPrecommit")
  /\ ResetForNewStep(Precommit, {})
  /\ recheck' = recheck \cup {"precommit"}
  /\ LET vs == votesFor(cs.round, "prevote")
         id == PartSetID(vs)
         c  == [cs EXCEPT !.step = Precommit]
     IN  \/ /\ OverTwoThirds(vs) = {}
            /\ cs' = c
            /\ call' = SendVote("precommit", Nil)
            /\ UNCHANGED wal
         \/ /\ OverTwoThirds(vs) = {Nil}
            /\ cs' = Unlocked(c)
            /\ call' = SendVote("precommit", Nil)
            /\ UNCHANGED wal
         \/ /\ OverTwoThirds(vs) \ {Nil} # {} /\ cs.locked.id = id
            /\ cs' = [c EXCEPT !.lockedRound = cs.round]
            /\ call' = SendVote("precommit", id)
            /\ UNCHANGED wal
         \/ /\ OverTwoThirds(vs) \ {Nil} # {} /\ cs.locked.id # id
            /\ cs.current.id = id /\ cs.current.block
            /\ cs' = [c EXCEPT !.lockedRound = cs.round, !.locked = cs.current]
            /\ wal' = Write(wal, "lock", <<Record("votes", cs.round, "prevote", Nil, vs),
                                           Record("part", cs.round, "none", id, {})>>)
            /\ call' = Go("syncLockWAL")
         \/ /\ OverTwoThirds(vs) \ {Nil} # {} /\ cs.locked.id # id
            /\ ~(cs.current.id = id /\ cs.current.complete)
            /\ cs' = [Unlocked(c) EXCEPT !.current = SetByPartSetID(@, id)]
            /\ call' = SendVote("precommit", Nil)
            /\ UNCHANGED wal
  /\ UNCHANGED <<hvs, inputs, started, chain, history>>

skipSyncLockWAL ==
  /\ Running("syncLockWAL")
  /\ call' = SendVote("precommit", cs.locked.id)
  /\ UNCHANGED <<cs, hvs, inputs, callbacks, recheck, started, disk, history>>

(* The lock is on disk before the precommit for it is signed. *)
syncLockWAL ==
  /\ Running("syncLockWAL")
  /\ wal' = Sync(wal, "lock")
  /\ call' = SendVote("precommit", cs.locked.id)
  /\ UNCHANGED <<cs, hvs, inputs, callbacks, recheck, started, chain, history>>

enterPrecommitWait ==
  /\ Running("enterPrecommitWait")
  /\ cs' = [cs EXCEPT !.step = PrecommitWait]
  /\ LET vs == votesFor(cs.round, "precommit")
     IN  /\ wal' = Write(wal, "round", <<Record("votes", cs.round, "precommit", Nil, vs)>>)
         /\ \/ /\ OverTwoThirds(vs) # {}
               /\ ResetForNewStep(PrecommitWait, {})
               /\ call' = IF PartSetID(vs) # Nil
                          THEN Frame("enterCommit", "none", PartSetID(vs), cs.round, {})
                          ELSE Go("enterNewRound")
            \/ /\ OverTwoThirds(vs) = {}
               /\ ResetForNewStep(PrecommitWait, {Timer(PrecommitWait)})
               /\ call' = Idle
  /\ UNCHANGED <<hvs, inputs, recheck, started, chain, history>>

(* The time to propose may be ahead: the proposal then waits for a timer. *)
enterNewRound ==
  /\ Running("enterNewRound")
  /\ cs' = NewRoundOf(cs, cs.round + 1)
  /\ hvs' = removeLowerRoundExcept(cs.round, cs.lockedRound)
  /\ \E T \in Cancel(callbacks) :
       \/ callbacks' = T /\ call' = Go("enterPropose")
       \/ /\ callbacks' = T \cup {Callback("timer", Nil, At(cs.height, cs.round + 1, NewRound))}
          /\ call' = Idle
  /\ UNCHANGED <<inputs, recheck, started, disk, history>>

-----------------------------------------------------------------------------
(* Votes of this node: logged, synced and broadcast, then counted.  A vote *)
(* that a crash keeps from being broadcast is sent by the syncer later.    *)

OwnVote == Vote(cs.height, Self, cs.round, call.type, call.id)

sendVote ==
  /\ Running("sendVote")
  /\ IF Self \in Validators
     THEN /\ wal' = Sync(Write(wal, "round",
                           <<Record("vote", cs.round, call.type, call.id, {OwnVote})>>), "round")
          /\ sent' = sent \cup {OwnVote}
          /\ call' = [call EXCEPT !.op = "countOwnVote"]
     ELSE call' = Idle /\ UNCHANGED <<wal, sent>>
  /\ UNCHANGED <<cs, hvs, inputs, callbacks, recheck, started, chain, proposed, seen, crashes>>

countOwnVote ==
  /\ Running("countOwnVote")
  /\ CountVote(OwnVote, FALSE)
  /\ UNCHANGED <<cs, inputs, callbacks, recheck, started, disk, history>>

recheckPrecommitNever ==
  /\ started /\ call = Idle /\ "newHeight" \notin recheck /\ "precommit" \in recheck
  /\ recheck' = recheck \ {"precommit"}
  /\ UNCHANGED <<cs, hvs, inputs, callbacks, call, started, disk, history>>

recheckPrevoteAgain ==
  /\ started /\ call = Idle /\ recheck = {"prevote"}
  /\ call' = IF cs.step = Prevote /\ hasOverTwoThirds(votesFor(cs.round, "prevote"))
             THEN Go("enterPrevoteWait") ELSE Idle
  /\ UNCHANGED <<cs, hvs, inputs, callbacks, recheck, started, disk, history>>

recheckPrevoteAlways ==
  /\ started /\ call = Idle /\ recheck = {"prevote"}
  /\ recheck' = {}
  /\ call' = IF hasOverTwoThirds(votesFor(cs.round, "prevote"))
             THEN Go("enterPrevoteWait") ELSE Idle
  /\ UNCHANGED <<cs, hvs, inputs, callbacks, started, disk, history>>

(* enterPrevote and enterPrecommit count again once sendVote has returned: *)
(* it may not have voted, or it may have moved on.                         *)
recheckPrecommit ==
  /\ started /\ call = Idle /\ "newHeight" \notin recheck /\ "precommit" \in recheck
  /\ recheck' = recheck \ {"precommit"}
  /\ call' = IF cs.step = Precommit /\ hasOverTwoThirds(votesFor(cs.round, "precommit"))
             THEN Go("enterPrecommitWait") ELSE Idle
  /\ UNCHANGED <<cs, hvs, inputs, callbacks, started, disk, history>>

recheckPrevote ==
  /\ started /\ call = Idle /\ recheck = {"prevote"}
  /\ recheck' = {}
  /\ call' = IF cs.step = Prevote /\ hasOverTwoThirds(votesFor(cs.round, "prevote"))
             THEN Go("enterPrevoteWait") ELSE Idle
  /\ UNCHANGED <<cs, hvs, inputs, callbacks, started, disk, history>>

-----------------------------------------------------------------------------
(* Commit and new height *)

enterCommit ==
  /\ Running("enterCommit")
  /\ ResetForNewStep(Commit, {})
  /\ LET bps == AddCachedParts(SetByPartSetID(cs.current, call.id), cs.height)
     IN  /\ cs' = [cs EXCEPT !.step = Commit, !.commitRound = call.round, !.current = bps]
         /\ call' = IF bps.complete THEN Go("commitAndEnterNewHeight") ELSE Idle
  /\ wal' = Sync(Write(wal, "commit", <<Record("votes", call.round, "precommit", call.id,
                                               votesFor(call.round, "precommit"))>>), "commit")
  /\ UNCHANGED <<hvs, inputs, recheck, started, chain, history>>

(* A block not validated yet is imported by force first. *)
commitAndEnterNewHeight ==
  /\ Running("commitAndEnterNewHeight")
  /\ \/ /\ cs.current.validated
        /\ chain' = Append(chain, cs.current.id)
        /\ call' = Go("enterNewHeight")
        /\ UNCHANGED callbacks
     \/ /\ cs.current.block /\ ~cs.current.validated
        /\ \E T \in Cancel({cb \in callbacks : cb.kind = "import"}) :
             callbacks' = T \cup {Callback("importByForce", cs.current.id, hrs)}
        /\ call' = Idle
        /\ UNCHANGED chain
  /\ UNCHANGED <<cs, hvs, inputs, recheck, started, wal, history>>

NewHeightState(height) ==
  [height |-> height, round |-> 0, step |-> NewHeight, lockedRound |-> -1, locked |-> Zero,
   proposalPOLRound |-> -1, current |-> Zero, commitRound |-> -1]

RoundVotesForLastBlock == votesFor(cs.round, "precommit")

(* The precommits that decided the block, of whatever round. *)
VotesForLastBlock == votesFor(cs.commitRound, "precommit")

(* The time to propose may be ahead, to leave room for late precommits. *)
enterNewHeight ==
  /\ Running("enterNewHeight")
  /\ isValidTransition(cs.step, NewHeight)
  /\ cs' = NewHeightState(Len(chain) + 1)
  /\ hvs' = {}
  /\ lastVotes' = VotesForLastBlock
  /\ \E T \in Cancel(callbacks) :
       \/ /\ callbacks' = T
          /\ call' = Go("processPrefetchItems")
          /\ recheck' = recheck \cup {"newHeight"}
       \/ /\ callbacks' = T \cup {Callback("timer", Nil, At(Len(chain) + 1, 0, NewHeight))}
          /\ call' = Idle
          /\ UNCHANGED recheck
  /\ UNCHANGED <<bpmCache, prefetchItems, started, disk, history>>

(* Items of passed heights are dropped; those behind the first item that   *)
(* is due are not looked at and stay.                                      *)
processPrefetchItems ==
  /\ Running("processPrefetchItems")
  /\ LET due == {br \in prefetchItems : br.height = cs.height}
         passed == {br \in prefetchItems : br.height < cs.height}
     IN  \/ /\ due = {}
            /\ prefetchItems' = prefetchItems \ passed
            /\ call' = Idle
         \/ \E br \in due, dropped \in SUBSET passed :
              /\ prefetchItems' = prefetchItems \ (dropped \cup {br})
              /\ call' \in ProcessBlock(br)
  /\ UNCHANGED <<cs, hvs, lastVotes, bpmCache, callbacks, recheck, started, disk, history>>

(* One turn of the loop in processBlock that adds the commit votes. *)
addCommitVote ==
  /\ Running("processBlock")
  /\ \E m \in call.votes :
       /\ hvs' = add(hvs, m, FALSE)
       /\ seen' = IF added(hvs, m, FALSE) THEN seen \cup {m} ELSE seen
       /\ call' = [call EXCEPT !.votes = @ \ {m}]
  /\ UNCHANGED <<cs, inputs, callbacks, recheck, started, disk, proposed, sent, crashes>>

(* The list of commit votes cannot be decoded, or the next one is not by a *)
(* validator: the block is rejected, and the votes added so far stay.      *)
rejectCommitVotes ==
  /\ Running("processBlock")
  /\ call' = Idle
  /\ UNCHANGED <<cs, hvs, inputs, callbacks, recheck, started, disk, history>>

(* The block is accepted if the votes decide it, and rejected otherwise. *)
processBlock ==
  /\ Running("processBlock") /\ call.votes = {}
  /\ IF OverTwoThirds(votesFor(call.round, "precommit")) = {call.id}
     THEN /\ cs' = [cs EXCEPT !.current = PartSetAndBlock(@, call.id)]
          /\ call' = IF cs.step < Commit
                     THEN Frame("enterCommit", "none", call.id, call.round, {})
                     ELSE Go("commitAndEnterNewHeight")
     ELSE call' = Idle /\ UNCHANGED cs
  /\ UNCHANGED <<hvs, inputs, callbacks, recheck, started, disk, history>>

recheckNewHeightAlways ==
  /\ started /\ call = Idle /\ "newHeight" \in recheck
  /\ recheck' = recheck \ {"newHeight"}
  /\ call' = Go("enterTransactionWait")
  /\ UNCHANGED <<cs, hvs, inputs, callbacks, started, disk, history>>

recheckNewHeight ==
  /\ started /\ call = Idle /\ "newHeight" \in recheck
  /\ recheck' = recheck \ {"newHeight"}
  /\ call' = IF cs.step <= TransactionWait THEN Go("enterTransactionWait") ELSE Idle
  /\ UNCHANGED <<cs, hvs, inputs, callbacks, started, disk, history>>

(* The block manager may make the engine wait for a transaction. *)
enterTransactionWait ==
  /\ Running("enterTransactionWait")
  /\ cs' = [cs EXCEPT !.step = TransactionWait]
  /\ \/ ResetForNewStep(TransactionWait, {}) /\ call' = Go("enterPropose")
     \/ /\ ResetForNewStep(TransactionWait,
             {Callback("transaction", Nil, At(cs.height, cs.round, TransactionWait))})
        /\ call' = Idle
  /\ UNCHANGED <<hvs, inputs, recheck, started, disk, history>>

-----------------------------------------------------------------------------
(* Callbacks take the mutex and look whether they are still wanted. *)

Called(cb) == Ready /\ cb \in callbacks /\ callbacks' = callbacks \ {cb}

onTimerLate(cb) ==
  /\ cb.kind \in {"timer", "transaction"}
  /\ Called(cb)
  /\ call' = CASE cb.hrs.step = NewHeight     -> Go("processPrefetchItems")
               [] cb.hrs.step = TransactionWait -> Go("enterPropose")
               [] cb.hrs.step = NewRound      -> Go("enterPropose")
               [] cb.hrs.step = Propose       -> Go("enterPrevote")
               [] cb.hrs.step = PrevoteWait   -> Go("enterPrecommit")
               [] cb.hrs.step = PrecommitWait -> Go("enterNewRound")
  /\ recheck' = IF cb.hrs.step = NewHeight THEN {"newHeight"} ELSE {}
  /\ UNCHANGED <<cs, hvs, inputs, started, disk, history>>

onTimer(cb) ==
  /\ cb.kind \in {"timer", "transaction"}
  /\ Called(cb)
  /\ IF cb.hrs = hrs
     THEN /\ call' = CASE cs.step = NewHeight       -> Go("processPrefetchItems")
                       [] cs.step = TransactionWait -> Go("enterPropose")
                       [] cs.step = NewRound        -> Go("enterPropose")
                       [] cs.step = Propose         -> Go("enterPrevote")
                       [] cs.step = PrevoteWait     -> Go("enterPrecommit")
                       [] cs.step = PrecommitWait   -> Go("enterNewRound")
          /\ recheck' = IF cs.step = NewHeight THEN {"newHeight"} ELSE {}
     ELSE UNCHANGED <<call, recheck>>
  /\ UNCHANGED <<cs, hvs, inputs, started, disk, history>>

onProposeAnyRound(cb) ==
  /\ cb.kind = "propose"
  /\ Called(cb)
  /\ cs.height = cb.hrs.height /\ cs.step = cb.hrs.step
  /\ \E x \in Blocks :
       /\ cs' = [cs EXCEPT !.current = [id |-> x, complete |-> TRUE, block |-> TRUE,
                                        validated |-> TRUE]]
       /\ call' = Frame("sendProposal", "none", x, -1, {})
  /\ UNCHANGED <<hvs, inputs, recheck, started, disk, history>>

(* The block manager has made a block, or failed to. *)
onPropose(cb) ==
  /\ cb.kind = "propose"
  /\ Called(cb)
  /\ \/ /\ cb.hrs # hrs
        /\ UNCHANGED <<cs, call>>
     \/ /\ cb.hrs = hrs
        /\ call' = Go("enterPrevote")
        /\ UNCHANGED cs
     \/ /\ cb.hrs = hrs
        /\ \E b \in Blocks :
             /\ ProposedBy[b] = SelfIndex
             /\ cs' = [cs EXCEPT !.current = [id |-> b, complete |-> TRUE, block |-> TRUE,
                                              validated |-> TRUE]]
             /\ call' = Frame("sendProposal", "none", b, -1, {})
  /\ UNCHANGED <<hvs, inputs, recheck, started, disk, history>>

(* The prevote that waited for the import, unless it is too late for it. *)
ImportedVote(id) == IF cs.step <= PrevoteWait THEN SendVote("prevote", id) ELSE Idle

(* The block manager has imported a block, or found it invalid. *)
onImport(cb) ==
  /\ cb.kind = "import"
  /\ Called(cb)
  /\ LET late == \/ cb.hrs.height # cs.height
                 \/ cb.hrs.round # cs.round
                 \/ cs.step >= Commit
         same == cs.current.block /\ cs.current.id = cb.id
     IN  \/ /\ late
            /\ UNCHANGED <<cs, call>>
         \/ /\ ~late
            /\ cs' = IF same THEN [cs EXCEPT !.current.validated = TRUE] ELSE cs
            /\ call' = ImportedVote(cs.current.id)
         \/ /\ ~late
            /\ call' = ImportedVote(Nil)
            /\ UNCHANGED cs
  /\ UNCHANGED <<hvs, inputs, recheck, started, disk, history>>

(* An import by force that fails stops the node: see Crash. *)
onImportByForce(cb) ==
  /\ cb.kind = "importByForce"
  /\ Called(cb)
  /\ \/ /\ cb.hrs # hrs
        /\ UNCHANGED <<cs, call, chain>>
     \/ /\ cb.hrs = hrs
        /\ cs' = [cs EXCEPT !.current.validated = TRUE]
        /\ chain' = Append(chain, cs.current.id)
        /\ call' = Go("enterNewHeight")
  /\ UNCHANGED <<hvs, inputs, recheck, started, wal, history>>

-----------------------------------------------------------------------------
(* Crash and recovery *)

(* A polka or a commit of a block that this node cannot decode stops it    *)
(* until it is upgraded.                                                   *)
Panicf ==
  /\ started
  /\ cs.current.complete /\ ~cs.current.block
  /\ \/ call.op = "commitAndEnterNewHeight"
     \/ /\ call.op = "enterPrecommit"
        /\ OverTwoThirds(votesFor(cs.round, "prevote")) = {cs.current.id}
        /\ cs.locked.id # cs.current.id
  /\ started' = FALSE
  /\ UNCHANGED <<cs, hvs, inputs, callbacks, call, recheck, disk, history>>

Stop(kept) ==
  /\ crashes < MaxCrashes
  /\ crashes' = crashes + 1
  /\ wal' = [l \in Logs |-> [records |-> SubSeq(wal[l].records, 1, kept[l]), synced |-> kept[l]]]
  /\ started' = FALSE
  /\ cs' = NewHeightState(Len(chain) + 1)
  /\ hvs' = {} /\ lastVotes' = {} /\ bpmCache' = {} /\ prefetchItems' = {}
  /\ callbacks' = {} /\ call' = Idle /\ recheck' = {}
  /\ UNCHANGED <<chain, proposed, sent, seen>>

(* The process dies; of the records not synced a prefix reaches the disk.  *)
Crash ==
  /\ started
  /\ \E kept \in [Logs -> 0 .. Max({Len(wal[l].records) : l \in Logs})] :
       /\ \A l \in Logs : wal[l].synced <= kept[l] /\ kept[l] <= Len(wal[l].records)
       /\ Stop(kept)

(* A termination closes the logs, which syncs them; callbacks that are     *)
(* still to come find the engine stopped.                                  *)
Term == Ready /\ Stop([l \in Logs |-> Len(wal[l].records)])

(* The state of a replay: the fields of the struct consensus it sets, and  *)
(* the part set of the last polka of the lock log with its round.          *)
Advance(st, round, step) ==
  IF st.round < round \/ (st.round = round /\ st.step < step)
  THEN [st EXCEPT !.round = round, !.step = step]
  ELSE st

StepOf(type) == IF type = "prevote" THEN Prevote ELSE Precommit

addAll(vs, votes) == FoldSet(LAMBDA m, acc : add(acc, m, FALSE), vs, votes)

VotesIn(st, round, type) == {m \in st.hvs : m.round = round /\ m.type = type}

(* A list of votes moves the node on if it has +2/3 votes. *)
ApplyVotes(st, rec) ==
  LET s == [st EXCEPT !.hvs = addAll(@, rec.votes)]
  IN  IF hasOverTwoThirds(VotesIn(s, rec.round, rec.type))
      THEN Advance(s, rec.round, StepOf(rec.type))
      ELSE s

applyRoundWAL(st, rec) ==
  CASE rec.kind = "proposal" -> Advance(st, rec.round, Propose)
    [] rec.kind = "vote"     -> Advance([st EXCEPT !.hvs = addAll(@, rec.votes)],
                                        rec.round, StepOf(rec.type))
    [] rec.kind = "votes"    -> ApplyVotes(st, rec)

applyLockWALWithoutVotes(st, rec) ==
  IF rec.kind = "votes"
  THEN [st EXCEPT !.bpset = PartSetID(rec.votes), !.bpsetLockRound = rec.round]
  ELSE [st EXCEPT !.locked = [id |-> rec.id, complete |-> TRUE, block |-> TRUE,
                              validated |-> FALSE],
                  !.lockedRound = st.bpsetLockRound]

applyLockWAL(st, rec) ==
  CASE rec.kind = "votes" ->
         LET s     == ApplyVotes(st, rec)
             polka == OverTwoThirds(VotesIn(s, rec.round, "prevote"))
         IN  IF polka \ {Nil} # {}
             THEN [s EXCEPT !.bpset = CHOOSE x \in polka : TRUE, !.bpsetLockRound = rec.round]
             ELSE s
    [] rec.kind = "part" ->
         IF st.bpset = rec.id
         THEN [st EXCEPT !.locked = [id |-> rec.id, complete |-> TRUE, block |-> TRUE,
                                     validated |-> FALSE],
                         !.lockedRound = st.bpsetLockRound]
         ELSE st

applyCommitWALOfHeight(st, rec) == IF rec.height = st.height THEN ApplyVotes(st, rec) ELSE st

(* Votes for the last block are restored if they have +2/3 for a block. *)
applyCommitWAL(st, rec) ==
  IF rec.height = st.height
  THEN ApplyVotes(st, rec)
  ELSE LET x == OverTwoThirds(rec.votes)
       IN  IF x \ {Nil} # {}
           THEN [st EXCEPT !.lastVotes = {m \in rec.votes : m.decision \in x}]
           ELSE st

Replay(Apply(_, _), st, log, heights) ==
  FoldLeft(Apply, st, SelectSeq(wal[log].records, LAMBDA rec : rec.height \in heights))

applyWAL ==
  LET h  == Len(chain) + 1
      s0 == [height |-> h, round |-> 0, step |-> NewHeight, hvs |-> {}, lastVotes |-> {},
             bpset |-> Nil, bpsetLockRound |-> -1, locked |-> Zero, lockedRound |-> -1]
      s1 == Replay(applyRoundWAL, s0, "round", {h})
      s2 == Replay(applyLockWAL, s1, "lock", {h})
  IN  Replay(applyCommitWAL, s2, "commit", {h - 1, h})

Start ==
  /\ ~started /\ call = Idle
  /\ started' = TRUE
  /\ LET st == applyWAL
     IN  /\ cs' = [NewHeightState(st.height) EXCEPT
                     !.round = st.round, !.step = st.step, !.current = st.locked,
                     !.locked = st.locked, !.lockedRound = st.lockedRound]
         /\ hvs' = st.hvs
         /\ lastVotes' = st.lastVotes
         /\ call' = CASE st.step = NewHeight /\ st.round = 0 -> Go("enterTransactionWait")
                      [] st.step = NewHeight /\ st.round > 0 -> Go("enterPropose")
                      [] st.step = Propose -> Go("enterPrevote")
                      [] st.step = Prevote /\ hasOverTwoThirds(VotesIn(st, st.round, "prevote"))
                           -> Go("enterPrevoteWait")
                      [] st.step = Precommit /\ hasOverTwoThirds(VotesIn(st, st.round, "precommit"))
                           -> Go("enterPrecommitWait")
                      [] OTHER -> Idle
  /\ UNCHANGED <<bpmCache, prefetchItems, callbacks, recheck, disk, history>>

-----------------------------------------------------------------------------
Init ==
  /\ cs = NewHeightState(1)
  /\ hvs = {} /\ lastVotes = {} /\ bpmCache = {} /\ prefetchItems = {}
  /\ callbacks = {} /\ call = Idle /\ recheck = {}
  /\ started = FALSE
  /\ wal = [l \in Logs |-> [records |-> <<>>, synced |-> 0]]
  /\ chain = <<>>
  /\ proposed = {} /\ sent = {} /\ seen = {}
  /\ crashes = 0

(* What the mutex holder does next. *)
Step ==
  \/ handlePrevoteMessage \/ handlePrecommitMessage
  \/ enterPropose \/ sendProposal \/ broadcastProposal
  \/ enterPrevote \/ enterPrevoteWait
  \/ enterPrecommit \/ syncLockWAL \/ enterPrecommitWait \/ enterNewRound
  \/ sendVote \/ countOwnVote \/ recheckPrecommit \/ recheckPrevote
  \/ enterCommit \/ commitAndEnterNewHeight \/ enterNewHeight
  \/ processPrefetchItems \/ addCommitVote \/ rejectCommitVotes \/ processBlock
  \/ recheckNewHeight \/ enterTransactionWait
  \/ Panicf

Callbacks ==
  \E cb \in callbacks : onTimer(cb) \/ onPropose(cb) \/ onImport(cb) \/ onImportByForce(cb)

OnReceive ==
  \/ \E m \in OtherVotes \cup sent, restamped \in BOOLEAN : ReceiveVoteMessage(m, restamped)
  \/ \E p \in Proposals \cup proposed : ReceiveProposalMessage(p)
  \/ \E bp \in Parts : ReceiveBlockPartMessage(bp[1], bp[2])
  \/ \E br \in FastSynced : ReceiveBlock(br)

Next == Step \/ Callbacks \/ OnReceive \/ Start \/ Term \/ Crash

Spec == Init /\ [][Next]_vars

(* The mutex holder runs on and callbacks get the mutex in the end; the    *)
(* syncers of the others send votes and parts until they have arrived.     *)
Fairness ==
  /\ WF_vars(Step) /\ WF_vars(Start) /\ WF_vars(Callbacks)
  /\ \A m \in OtherVotes : WF_vars(ReceiveVoteMessage(m, FALSE))
  /\ \A bp \in Parts : WF_vars(ReceiveBlockPartMessage(bp[1], bp[2]))

FairSpec == Spec /\ Fairness

-----------------------------------------------------------------------------
(* Properties *)

(* The fields of the engine, its votes, caches and logs have the values    *)
(* the handlers give them; no round or height is skipped past the bounds.  *)
TypeOK ==
  /\ cs \in [height : Heights, round : Rounds, step : NewHeight .. Commit,
             lockedRound : Rounds \cup {-1}, locked : BlockPartSet, current : BlockPartSet,
             proposalPOLRound : Rounds \cup {-1}, commitRound : Rounds \cup {-1}]
  /\ hvs \subseteq VoteMessage /\ lastVotes \subseteq VoteMessage
  /\ sent \subseteq VoteMessage /\ seen \subseteq VoteMessage
  /\ bpmCache \subseteq Parts /\ prefetchItems \subseteq FastSynced
  /\ recheck \subseteq {"newHeight", "prevote", "precommit"}
  /\ chain \in Seq(Blocks) /\ Len(chain) < MaxHeight
  /\ started \in BOOLEAN /\ crashes \in 0 .. MaxCrashes
  /\ \A l \in Logs : wal[l].synced \in 0 .. Len(wal[l].records)

(* The votes signed at one height, and the block finalized there. *)
VotesAt(h) ==
  {[voter |-> m.voter, round |-> m.round, type |-> m.type, decision |-> m.decision] :
     m \in {k \in sent \cup seen : k.height = h}}

DecidedAt(h) == IF h <= Len(chain) THEN {chain[h]} ELSE {}

BV == INSTANCE BlockVoting
        WITH Faulty <- Validators \ {Self}, votes <- VotesAt(Watched),
             decided <- DecidedAt(Watched)

(* The engine keeps the promises of a correct validator at height Watched: *)
(* every vote of sendVote is a Prevote or Precommit of BlockVoting, every  *)
(* Finalize a Commit.  Checked without crashes for any change of lock, and *)
(* with a crash for a lock taken once: a relock is not in the lock log.    *)
Promise == BV!Spec

(* A vote for a block is sent only with the block at hand, and a prevote   *)
(* only for the locked block or one that the block manager has validated:  *)
(* the import callback prevotes currentBlockParts as it finds it.          *)
VoteBacked ==
  (call.op = "sendVote" /\ call.id # Nil) =>
    \/ cs.locked.id = call.id /\ cs.locked.block
    \/ cs.current.id = call.id /\ cs.current.validated /\ call.type = "prevote"

StepOfCall ==
  [op \in {"enterTransactionWait", "enterPropose", "enterPrevote", "enterPrevoteWait",
           "enterPrecommit", "enterPrecommitWait", "enterCommit", "enterNewHeight"} |->
     CASE op = "enterTransactionWait" -> TransactionWait
       [] op = "enterPropose"         -> Propose
       [] op = "enterPrevote"         -> Prevote
       [] op = "enterPrevoteWait"     -> PrevoteWait
       [] op = "enterPrecommit"       -> Precommit
       [] op = "enterPrecommitWait"   -> PrecommitWait
       [] op = "enterCommit"          -> Commit
       [] op = "enterNewHeight"       -> NewHeight]

(* beginStep never panics with a bad step transition and processBlock      *)
(* never with "shall not happen", however the handlers nest.               *)
NoBadStep ==
  /\ call.op \in DOMAIN StepOfCall => isValidTransition(cs.step, StepOfCall[call.op])
  /\ call.op = "processBlock" => ~(cs.step = Commit /\ cs.current.complete)

(* A lock comes with the +2/3 prevotes it was made on, which sendProposal  *)
(* sends along: no round change or conflicting vote drops them, and a      *)
(* restart takes both from the lock log.                                   *)
LockHasPolka ==
  ~IsZero(cs.locked) => OverTwoThirds(votesFor(cs.lockedRound, "prevote")) = {cs.locked.id}

(* lastVotes prove the last block, for the next proposal and for getCommit, *)
(* also after a restart from the commit log.                                *)
LastVotesProveLastBlock ==
  (started /\ cs.height > 1 /\ cs.height = Len(chain) + 1) =>
    OverTwoThirds(lastVotes) = {chain[cs.height - 1]}

(* With the mutex free, +2/3 precommits for a block have been acted on: the *)
(* engine is in Commit.                                                     *)
NoMissedCommit ==
  Ready => \A r \in Rounds :
    OverTwoThirds(votesFor(r, "precommit")) \ {Nil} # {} => cs.step = Commit

(* This node proposes only in its turn and once per height and round,      *)
(* across crashes and however late the block manager calls back.           *)
OneProposal ==
  \A p, q \in proposed :
    /\ (p.height + p.round) % Cardinality(Validators) = SelfIndex
    /\ p.height = q.height /\ p.round = q.round => p = q

(* Until it crashes the engine never goes back to an earlier height, round *)
(* or step.                                                                *)
HrsAdvances ==
  [][started /\ started' =>
       \/ cs'.height > cs.height
       \/ cs'.height = cs.height /\ cs'.round > cs.round
       \/ cs'.height = cs.height /\ cs'.round = cs.round /\ cs'.step >= cs.step]_vars

(* A precommit for a block keeps the node locked on the block, from that   *)
(* round at least, until a later round has +2/3 prevotes for something     *)
(* else: it is signed only when the lock is on disk.                       *)
LockKept ==
  started => \A m \in sent :
    (m.height = cs.height /\ m.height = Watched /\ m.type = "precommit" /\ m.decision # Nil) =>
      \/ cs.locked.id = m.decision /\ cs.lockedRound >= m.round
      \/ BV!PolkaAgainst(m.decision, m.round, MaxRound)

(* However the handlers call each other, they return and free the mutex. *)
HandlersReturn == []<>Ready

(* Precommits of +2/3 for a block and its parts, delivered in any order    *)
(* and in any round, finalize the block.                                   *)
CommitsEventually == <>(chain # <<>>)
=============================================================================
