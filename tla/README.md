# Goloop: a TLA+ verification project

This project models the consensus core of goloop, checks it with TLC and proves its agreement property with TLAPS.
It follows the code under `src/`. `PROJECT.json` maps every definition to the lines it stands for.

## The system

Goloop is the node software of the ICON 2.0 network. A node runs one or more chains, and a chain is a stack of managers:

| part | state | operations | talks to |
|---|---|---|---|
| consensus engine (`consensus/consensus.go`) | height, round, step; lock and lock round; current block parts; votes of the height; votes for the last block; one timer; one block request | receive proposal, block part, vote, vote list, fast-synced block; timers; callbacks of propose and import; start with recovery; term | block manager, three logs, network, syncer |
| vote sets (`voteset.go`) | one vote per validator, round and type, with counters per decision | add, +2/3 queries, drop lower rounds | engine |
| write-ahead log (`wal.go`) | a row of files, a buffer, a housekeeping goroutine | write, sync, rotate, remove oldest, read, repair | engine (round, lock and commit logs) |
| syncer (`syncer.go`) | one goroutine and one round state per peer | send missing votes and parts, start fast sync | engine, network, fast sync |
| fast sync (`fastsync/`) | heights to fetch, active peers, pending results; server queue per peer | fetch, result, consume, reject, join, leave, cancel | engine, network |
| double sign log (`dsmlog.go`), `service/dsrmanager.go` | recent messages; reports to send and sent | log and check, commit | engine, service |
| block manager (`block/`) | tree of candidate blocks with reference counts, finalized block, database | propose, import, finalize, dispose, cancel | service manager, engine |
| service (`service/`) | transitions in validation or execution, transaction pools, world state | create, patch, execute, cancel, finalize; add, drop and remove transactions | execution engines, block manager |
| network (`network/`) | peers, roles, queues, streams | unicast, multicast, broadcast, join, leave | every reactor |
| chain (`chain/`) | life cycle state and running task | init, start, stop, reset, prune, backup, terminate | all managers |
| BTP, ICON platform (`btp/`, `icon/`) | proof contexts, rewards, staking | computation inside a transition | service |
| node, server, client, execution engines | | administration, JSON-RPC, contract virtual machines | chain |

A block is made like this. In each round the proposer asks the block manager for a block, signs a proposal and sends the
parts. Validators import the block and prevote it. With +2/3 prevotes (a polka) they lock it and precommit it. With +2/3
precommits they finalize it and go to the next height. Votes and proposals go to the round log, locks to the lock
log and commits to the commit log, so that a restarted node knows what it has signed. All handlers of the engine run
under one mutex. Everything that waits (timers, block manager callbacks, syncer, fast sync) calls back later and has to find out whether it is still wanted.

What is hard here: handlers that call themselves through their own vote; late timers and callbacks; votes, parts and
blocks in any order and from several sources; a crash between a log write and its sync or between a sync and a send; a
log torn by the crash; validators that vote twice; locks that move from round to round. What must hold: no two blocks at
one height; no conflicting vote or proposal of a correct node, across restarts too; what was synced is read back; the
votes for the last block are there when the next one is proposed; handlers end, and a decided block is finalized.
`PROJECT.json` lists the hazards at the lines where they bite.

## Modules

**`BlockVoting`** states what the engine promises at one height, over nothing but the set of signed votes and the set of
finalized blocks. A correct validator votes once per round and type, in rounds that do not go back. It precommits a block
only with a polka in that round. It does not prevote against a block it has precommitted unless a later round has a polka
for something else. Faulty validators sign anything.

**`Consensus`** is the engine of one node, in an environment that may send any vote, proposal, part or block of given
sets at any time. A Go handler is a chain of actions, one per Go function: `call` is the function about to run, with its
arguments, and `recheck` holds the functions further up the stack that look at the step again when the call comes back
(`enterPrevote`, `enterPrecommit`, `enterNewHeight`). Only a crash comes between two actions of a chain, and an action
that writes a log and the action that syncs it are two, so a crash may fall in between.

| TLA+ | Go |
|---|---|
| `cs` | `hrs`, `lockedRound`, `lockedBlockParts`, `currentBlockParts`, `proposalPOLRound`, `commitRound` |
| `hvs`, `lastVotes` | `hvs`, `lastVotes`, as sets of votes |
| `wal` | the three logs: records, and how many of them are synced |
| `chain` | the block manager's finalized blocks |
| `bpmCache`, `prefetchItems` | the fields of these names |
| `callbacks` | `timer`, `cancelBlockRequest`, and cancelled callbacks whose goroutines still wait for the mutex |
| `started`, `crashes` | `started`; crashes and terminations so far, for the bound |
| `sent`, `seen`, `proposed` | history: votes signed by this node, votes of others, own proposals |

Actions carry the names of the Go functions. `ReceiveVoteListMessage` is a sequence of `ReceiveVoteMessage`.
`PartSet`, blocks and messages are identifiers with the few attributes that a handler branches on (complete, decoded,
validated, proposer index, readable or not). The block manager is external and seen through its callbacks: Propose and
Import succeed, fail or come late. The other nodes also send this node its own votes, proposals and parts, which matters
after a restart. `prefetchItems` is a set, so the items of passed heights that `processPrefetchItems` drops before it
comes to one that is due are any of them. The commit votes of a fast-synced block are any of the votes of validators; the
list may end at any point in a signer that is no validator (`rejectCommitVotes`), and the votes before it stay.

**`MCConsensus`** gives the sets of messages for each run.

**`Wal`** is the log by itself. A frame is four cells, two for the header and two for the payload, so a crash may cut it
within the header, behind it or within the payload. Housekeeping is two actions because the code reads the file sizes
before it takes the lock (`readWALInfo`, then `doHousekeeping`). `OpenWALForRead`, `ReadBytes`, `CloseAndRepair` and
`OpenWALForWrite` are the restart.

**`BlockVoting_proofs`** has the theorems.

`Consensus` implements `BlockVoting`: its property `Promise` is `BlockVoting!Spec` under the mapping that takes the votes
of one height (`Watched`) as `votes`, the block finalized there as `decided`, and everyone but this node as faulty. What
`Agreement` needs of each correct validator is thus checked of the engine, with its steps, timers, logs and crashes,
within the limits named under Runs.
`Consensus` uses an abstract log (records and a synced prefix); that `Wal` keeps what was synced is the run `wal`.

A crash keeps, of each log, everything synced and any prefix of the rest. `sendVote` logs, syncs and sends in one action,
since a vote that is on disk and was never sent is the same to the model as one lost in the network; the lock log's sync
and the broadcast of a proposal are actions of their own. `Term` is a stop with the mutex free; it closes the logs, which
syncs them.

## Runs

| run | what it asks | result |
|---|---|---|
| `block_voting` | `Agreement` and the inductive invariant `SafetyInv`, four validators, one faulty | holds |
| `rounds` | one round and the start of the next, with late callbacks and a block that cannot be decoded: types, no bad step, no unbacked vote, no missed commit, heights, rounds and steps advance, `Promise` | holds |
| `locks` | lock, relock and unlock over three rounds and two blocks: `LockHasPolka`, `LockKept`, `Promise` | holds |
| `pol` | proposals with a POL round whose polka is for the proposed block, for another, or late; timers and `Propose` callbacks that come a step or a round late: `NoBadStep`, `OneProposal`, `Promise` | holds |
| `crash` | one crash anywhere or a termination, of a proposer, and recovery: `LockKept`, `LockHasPolka`, `LastVotesProveLastBlock`, `OneProposal`, `Promise` | holds |
| `heights` | two heights, late precommits, fast sync of this height and later ones, good and rejected: `LastVotesProveLastBlock`, `NoBadStep`, `Promise` | holds |
| `observer` | a node that is not a validator, with one validator voting twice: `NoMissedCommit`, `LockHasPolka` | holds |
| `liveness` | `HandlersReturn`, `CommitsEventually` under `FairSpec` | holds |
| `relock` | `LockKept` when the same block gets a polka in two rounds and the node crashes | violated |
| `wal` | `TypeOK`, `Durable`, `FilesInRow`: rotation, removal, two stops, every tear | holds |
| `wal_repair` | `RepairKeepsValidPrefix`: the log after `CloseAndRepair` is what was read | violated |

The two violations are findings about the code:

- **`relock`.** `enterPrecommit` moves `lockedRound` forward and precommits (`consensus.go:851-854`) without the lock log
  that a new lock writes (855-876). After a restart the lock has the earlier round, and a polka of a round in between
  would release a block the node has precommitted later.
- **`wal_repair`.** `CloseAndRepair` (`wal.go:436-440`) removes `fileFor(w.id, idx)` for every later file `i`: the file
  with the valid frames goes and the torn one stays. It takes a torn frame at the start of a file. With two or more later
  files the second removal fails with `os.ErrNotExist`, which `applyWAL` (`consensus.go:1671-1679`) takes for a log that
  is not there, so `Start` goes on.

What the passing runs leave out, because the code does not have it:

- `crash` has a polka for a block in round 0 only. With a relock and a crash `LockKept` fails (run `relock`), and a
  polka of a round in between, seen late, would then allow a prevote that `Promise` forbids (no run here has the rounds
  it takes). So the refinement is
  shown for crashes without a relock and for relocks without a crash.
- `NoMissedCommit` is checked without fast sync and without crashes. A rejected block leaves the commit votes added before
  the bad signer in the vote set, +2/3 or not, and nobody looks at them until the next vote or block. `Start` resumes
  from the last logged round and does not act on +2/3 precommits of an earlier round it finds in the logs; the node waits
  for the next vote or for the syncer.
- `Durable` and `FilesInRow` are stated up to the first restart that leaves a log it did not read in full (`damaged`): the
  wrong removal above, or a tear exactly behind a header, which `ReadBytes` reports as `io.EOF`, a clean end
  (`wal.go:395`), so that nothing is repaired and later records follow a header without payload.

### Bounds

Four validators are the least number with a faulty one, and the least for which +2/3 (three) is neither a majority nor
all. One round is enough for a commit or a polka without commit, two for a lock and a change of mind about it; `MaxRound`
is one more than the rounds with votes, so that the engine always has a round to go to. Two heights reach everything
`enterNewHeight` and fast sync do across heights. One crash reaches each window between two writes, and recovery
starts from a log written by a run of any length within the bounds. `MaxLate` bounds cancelled callbacks that still wait
for the mutex; one is enough to meet each guard (`rounds` for a node that does not propose, `pol` for one that does). Two blocks are enough to disagree. In `Wal` files hold one or two frames
(`FileLimit` 4) and the log three (`TotalLimit` 12), so six records rotate, trim and restart twice.
The sets of votes are chosen per run (`MCConsensus`); within a set any subset arrives in any order, repeated or not.
The other validators that may cast the same votes are interchangeable, hence the symmetry (in `pol`, `crash` and `heights` `v4`
casts fewer votes and is left out of it); the liveness run uses none.

`rounds` does not check deadlock: on +2/3 prevotes for a block it cannot decode the engine stops itself with a panic
(`consensus.go:877-880`). All other runs check it.

### Fairness

`FairSpec` assumes that a handler that holds the mutex goes on (Go runs it), that a node that is down starts, that a timer
or callback eventually gets the mutex (`time.AfterFunc` and goroutines), and that each vote and part of the run is
eventually delivered if it stays deliverable: the syncer sends peers what their round state says they lack, every 300 ms
(`syncer.go`). Nothing is assumed of proposals or of fast sync.

## Proofs

For every finite list of validators, every subset of faulty ones, every set of blocks and every round bound
(`BlockVoting_proofs`, from the four named assumptions on the constants in `BlockVoting`):

- `TypeCorrect`: `Spec => []TypeOK`;
- `SafetyInvHolds`: `Spec => []SafetyInv`;
- `AgreementHolds`: `FewFaulty /\ Spec => []Agreement`, with less than a third of the validators faulty.

`Agreement` is not inductive: it says nothing of votes. `SafetyInv` adds what a vote of a correct validator implies
(`OneVote`, `PrecommitHasPolka`, `PrevoteReleased`), that decisions have +2/3 precommits (`DecidedHasQuorum`), and the
heart of it, `PolkaExcludes`: once a round after r has a polka against b, the correct members of some +2/3 have left
round r without precommitting b, so b cannot be decided in r any more. A new polka against b has to come from +2/3 of
prevotes; a correct one among them either never precommitted b in r and is past it, or has seen an earlier polka against
b, to which the invariant already applies. `PolkaExcludes` has one step per action; votes only grow, which keeps polkas
(`PolkaStable`). `QuorumsMeet` (two sets of more than n*2/3, in integer division as the code has it, share a correct
validator when less than a third is faulty) enters only in the last theorem: the invariant holds whatever the number of
faulty validators.

The engine's own properties, the refinement, and all of `Wal` are checked by TLC on the instances above. Liveness under
fairness and ENABLED, what a recursive definition computes for all inputs, and modules with RECURSIVE operators are out
of the prover's reach and stay with TLC.

## Not modelled

- In the engine: round evidence patches, double sign reports, BTP signatures, the genesis branch of `Start`. They add
  data to messages or start other components and do not change what is voted.
- Failing disks. The engine logs a WAL error and votes all the same (`consensus.go:1291-1296`).
- Change of the validator list between heights: one list is used for all heights of a run.
- Signatures and hashes: a vote of a correct validator cannot be forged, a part set id determines the block.
- Time: a timer may fire at any moment after it is set.
- The components listed as `not_modelled` in `PROJECT.json`, with the reason there.

## Plan

1. `FastSync`: client (height set, validPeers, nActivePeers, pending results, consume, reject, leave, timeouts) and
   server queue. Every height not yet consumed is pending, fetched or to be fetched; the fetch ends or goes on. Abstract
   specification: blocks are delivered once, in order. Compose with the engine's `prefetchItems`. Three peers, four heights.
2. `VoteSet`: the counters with swap-remove and `maxIndex` against a recount of the messages, for all sequences of adds
   of four voters and three decisions. Theorem: the counters are the recount.
3. `Syncer` with `BitArray`: peer goroutines, wake-up channel, round state exchange; a peer that lacks votes gets them.
   `Flip` at a multiple of the word size.
4. `BlockManager`: tree of candidates, reference counts, cancel against callback, finalize with its several database
   writes and a crash between them.
5. `Transition`: step machine with cancel and report. `TxPool`: limit, drops in another goroutine, waiters.
   `ChainTask`: life cycle and termination.
6. `DoubleSign`: dsmLog and dsrManager.
7. Compositions: engines of four nodes over a lossy network at one height against `BlockVoting`; engine over `Wal`.
8. Theorems: `Wal` (types, files in a row, durability); `VoteSet`; `FastSync` bookkeeping; `Consensus` types,
   `OneProposal` and the safety part of the refinement.
