# DeWhirlpooler in TLA+

DeWhirlpooler analyses Whirlpool CoinJoin activity on Bitcoin. One part scans
the chain and keeps a historical index in SQLite; another walks forward from a
transaction and reports how its outputs were exposed; a web server answers from
both, with a cache in front of the second. This directory models these parts,
checks the models with TLC, and proves the central theorems with TLAPS. Paths
below are relative to the repository root; the Python files are in
`src/dewhirlpooler/`.

## Inventory

| Part | State | Operations | Interacts with |
|---|---|---|---|
| Chain index, `ChainIndex` (`chainindex.py`) | SQLite tables `chain_blocks`, `pool_utxos`, `coordinator_fee_utxos`, `indexed_tx0s`, `indexed_rounds`, `coordinator_spends`, `pool_snapshots`; in memory the unspent pool and fee outputs, known coordinator scripts, totals per pool | open, `apply_block`, `rollback_after`, `status`, `block_hash`, close | scanner (calls), reader (shared file) |
| Scanner, `ChainScanner` and the `chain-index` command (`chainindex.py`, `cli.py`, `deploy/systemd`) | target height, reconciliation candidate, futures of prefetched blocks, retries | `scan`, `_reconcile_reorg`, `_scan_heights`, `_retry_rpc` | Bitcoin Core over RPC, worker threads, the index, systemd |
| Index reader and network endpoints (`ChainIndexReader`, `web.py`) | a read-only connection per request | `status`, `latest_pool_snapshots`, `coordinator_summary`, `pool_history` | the writer's commits |
| Report cache and trace endpoint (`cache.py`, `web.py`) | table `trace_reports` | `get`, `put`, prune, bypass | concurrent requests, the clock |
| Exposure tracer (`trace.py`) | frontier, visited set, nodes, edges, findings, budgets | `trace` and its `_follow_*` steps | resolver, detectors |
| Detectors (`whirlpool.py`, `postmix.py`) | none | classify one transaction | tracer, index |
| Resolver (`resolver.py`) | memo of transactions, spenders and heights | `transaction`, `prevouts`, `spending_transaction` | Electrum client |
| Electrum client (`electrum.py`), Core client, block source (`core.py`, `blocksource.py`) | one connection per request | one request and its answer | servers |
| Front end (`static/app.js`) | report, pool history, disabled buttons | submit, choose a pool, render | both endpoints |
| Parser (`bitcoin.py`), commands and configuration (`cli.py`, `config.py`) | none | decode; parse arguments | all |

What is hard, and what would make each part correct:

* **Index.** Tables and memory are updated by different code: SQL in
  `_write_block` and `rollback_after`, dictionaries at the end of
  `apply_block`, queries in `_reload_active_state`. It is correct when memory
  is always the reload of the tables, when a rollback restores exactly the
  tables from before the blocks it undoes, when the recorded pool history agrees
  with the output rows, and when a failure at any statement leaves nothing
  behind. `_coordinator_fee_output` makes the verdict on a block depend on
  earlier blocks (known scripts), so a small divergence propagates.
* **Scanner.** The node's active chain moves between any two calls: during the
  walk down to the common block, between two prefetched blocks, between a fetch
  and the application of its block. Calls fail and are retried, and the process
  or the machine may stop anywhere. It must never discard a block it should
  keep, never index two branches at once, and catch up.
* **Reader and web.** An overview is five queries with no transaction around
  them; the writer commits between them.
* **Cache.** Requests for the same key run in parallel threads; a `get` deletes
  in a transaction other than the one it read in; the clock may be set back.
* **Tracer.** The walk must end within its budgets, say when it was cut, and
  make of one spend reached along several ways one consistent set of findings,
  although what it knows of the spend's inputs grows meanwhile.
* **Resolver.** One answer is put together from many questions to a server whose
  chain and mempool go on.
* **Front end.** Answers come back in any order.

The hazards, each at its line and with the property that covers it, are listed
in `PROJECT.json`.

## Modules

| Module | Models |
|---|---|
| `ChainLedger` | What staging, writing, absorbing, rolling back and reloading compute, and what makes a database sound. Operators only. |
| `ReplayLedger` | The abstract promise of the index: a ladder of databases, one per height, each the replay of its block on the one below. What a database is and what replaying means are its parameters. |
| `ChainIndex` | One index over one database: open, apply, roll back, close, checkpoint, crash, power loss. Refines `ReplayLedger`. |
| `BlockTransaction` | The ten statements of `_write_block` and the nine of `rollback_after`, with the schema's keys and foreign keys and a failure or death at each. Refines `ChainIndex`. |
| `ChainScanner` | The command: reconciliation, prefetch window, retries, a moving node, several processes. Refines `ChainIndex` when there is one process. |
| `IndexReader` | The overview and the pool history, query by query, against a committing writer. |
| `TraceCache` | `get`, `put` and their deletions, in request threads of the trace endpoint. |
| `Whirlpool`, `Postmix` | The detectors. Operators only. |
| `ExposureTracer` | The walk, one action per way an iteration of its loop ends. Extends `Postmix`. |
| `Resolver` | The memo of one trace and the lookups that fill it, against a changing server. |
| `ElectrumLine` | Assembling a response line from chunks. |
| `TracePage` | The page's two conversations with the server. |
| `MCTree`, `MC...` | The instances TLC runs on. `MCDetectors` also builds the detectors' inputs step by step and states their properties. |
| `ChainLedgerLemmas`, `ChainIndexProofs`, `ChainScannerProofs`, `IndexReaderProofs`, `TraceCacheProofs`, `ExposureTracerProofs`, `ResolverProofs`, `DetectorProofs` | Lemmas and theorems, each of the module it is named after. `ChainIndexProofs` is also about `BlockTransaction`, `ResolverProofs` about `ElectrumLine`, `TraceCacheProofs` about `TracePage`; `DetectorProofs` is about `Whirlpool`, `Postmix` and `MCDetectors`. |

### How the models correspond to the code

**Index.** A database is a record with one field per table. A nullable column,
or a row that may be absent, is a set with at most one element: `db.pool[o]` is
the set of rows of outpoint `o`, and `row.spent` is empty or holds the height
and the spender. An outpoint is a constant with a fixed value and script, since
its txid commits to them. A block is its hash, with parent, height and
transactions as constants; a transaction carries the detector's verdict, which
depends on it and its complete previous outputs only.

| Code | Model |
|---|---|
| loop body of `apply_block`, `_stage_tx0` | `StageTx`, one transaction after the other in `Staging`; `Staged` is the last |
| `_tracked_pool_inputs`, `_is_liquidity_rollover`, `_coordinator_fee_output` | `Tracked`, `IsLiquidityRollover`, `CoordinatorFee` |
| `_snapshots_after_changes` | `Snapshot`, and its three refusals in `Reconciles` |
| `_write_block`, primary keys, foreign keys | `WriteBlock` as a whole; `Applying`, `KeyTaken`, `HeightsKnown` by statement |
| the dictionary updates after the commit | `Absorb` |
| `rollback_after`, `_reload_active_state` | `Rollback`, `Reload`; `RollingBack` by statement |
| `apply_block`, whole | `ChainIndex!ApplyBlock`; `Take`, `Write` in `ChainScanner`; `BeginApply`, `Execute`, `Return` or `Fail` in `BlockTransaction` |
| `scan`, `_reconcile_reorg` | `AskHeight`, `Compare`, `Crossed`, `RollBack`, `Plan` |
| `_scan_heights` and its threads | `Plan`, `Fetch`, `FetchFails`, `Take`, `TakeFails`, `Write` |
| `_retry_rpc` | `tries`, `CallFails`, `FetchFails` |

`apply_block` changes nothing when it raises: the checks precede the
transaction, the transaction is rolled back, and memory is touched only after
`COMMIT`. `recoverable` holds the committed databases a loss of power may
return to, because `synchronous = NORMAL` does not flush the log at each commit;
a checkpoint, or the last connection closing, empties it to the current one. A
killed process loses nothing it committed.

**Reader.** `request.at` names the next query of the request, `request.seen`
the values read so far; the writer is reduced to its commits. A reader opens the
file in autocommit mode, so each query is one step. An empty range is refused
before the index is opened (`Verdict`), an unknown pool after (`RefusePool`), so
that a missing index answers 503 to it. Heights may be any from 0.

**Cache.** `rows` is the table; a request's `at` says which of its transactions
comes next (`Absent`, `Hit`, `Refuse`, `Delete`, `Trace`, `Put`). A cached
document is the report it decodes to, or `Damaged`. The key is the request
with the txid in lower case, as `_make_cache_key` hashes it; digests order the
keys by an arbitrary ranking.

**Tracer.** `w` is everything the tracer has built; `known` the part of the
graph the node serves. `Begin` is `trace` up to its loop; `Repeat`, `TooDeep`,
`OutOfLookups`, `Unspent`, `OutOfTransactions`, `LastSpend`, `EnterRound`,
`EnterTx0`, `OrdinarySpend` are the ways an iteration ends, `Drained` and
`Report` its end. The helpers are functions from walks to walks in the order
of the calls: `WithTx` is `_add_transaction`, `EnqueueRoles` and `FollowRound`
have their names, `FollowOrdinary` is `_follow_ordinary_spend` with
`FollowRicochet` and its four `Hop`s. One iteration, with the probes of a
Ricochet in it, sees one state of the node; `Resolver` shows that each single
lookup does (`AnswerOfOneMoment`), and between iterations the node may learn
more. What the detectors say of a transaction is computed by `Whirlpool` and
`Postmix`; the Whirlpool verdicts are a constant, since the tracer keeps them.

**Detectors.** A transaction is a record of inputs, outputs (a value and a
script type) and a virtual size; signatures are reduced to what is compared (the
form, the length of `r`, the sighash byte). A verdict that may be `None` is a
set with at most one element. The nested loops over pools, group sizes and
output combinations are set comprehensions; the choice among candidates is
`Detect`.

**Resolver, Electrum, page.** One action per question and answer. The resolver's
`witness` is auxiliary: the spenders at the moment the history was read. A
history that is too long is refused before anything is remembered of it
(`AskRefused`); one that contradicts a remembered height may leave the heights
of the entries before it (`AskConflicts`). On the page a trace ends with its
report (`RequestAnswers`), an error beside the old report (`RequestFails`), or
an error beside a part of the new one, when rendering throws (`RenderFails`).

## Runs

| Run | Question | States |
|---|---|---|
| `chain_index` | After any history of the index, with its transactions taken statement by statement: is memory the reload of the tables, do tables agree with each other and with a clean run, is no valid block refused, does no statement meet a constraint, is a failed call as if it had not been made? | 9,740 |
| `chain_scanner` | Two workers, two attempts, two moves of the node, one fault and one crash or power loss: is the window of the right heights, a finished run at its target and on one branch, are only stale blocks discarded, does the index catch up? | 101,882 |
| `scanner_refines` | Is every step of the scanner a step of `ChainIndex`? | 49,950 |
| `two_scanners` | Two processes, expected to fail; see Findings | |
| `index_reader` | Is an answer that was read in several moments still an account of the index, whatever heights were asked for? | 42,679 |
| `trace_cache` | Two threads, four requests, three keys, two rows: right hits, bounded table, no report lost to another key | 1,050,648 |
| `trace_cache_full` | Is a missed report stored? Expected to fail; see Findings | |
| `exposure_tracer` | 48 choices of limits, three roots, two transactions the node learns late | 10,723 |
| `detectors` | Every transaction of up to four outputs around two pools' amounts, every spend of up to three of five coins | 118,375 |
| `resolver` | Many lookups against a server whose view changes twice | 24,045 |
| `electrum_line` | Every stream of up to nine bytes in every division into chunks | 4,152 |
| `trace_page` | Three submissions and three pool histories, answered in any order | 5,320 |

### Bounds

The block tree has seven blocks: a root `r1` with branches `a2, a3` and `b2, b3`
that share transactions (`Tx0B`, `Tx0C`), and a second root `z1, z2` for a
reorganization of the start height. Its transactions cover the cases the code
distinguishes: Tx0s of both pools with an exact fee, a discounted fee recognised
by script reuse (only where the script is known) and by amount; rounds that
carry liquidity on and one with an input from before the start height; exits of
one pool and of two at once; an output created and spent in one block; fee
spends with and without foreign inputs. `ChainLedger` and `MCTree` assume, and
TLC checks, that each branch is one Bitcoin could have. The databases of one
tree are finitely many, so `chain_index` and `index_reader` explore histories of
any length; only the tree is small. Two branches that diverge at the second
block give rollbacks of one and two blocks, and heights 1 to 3 give a block
below, at and above one.

`MaxMoves = 2` lets the node leave a branch and return, or reorganize during the
reaction to an earlier reorganization. In `chain_scanner` the branch of `a2` has
a block at height 4 (and `z2` is left out), and a run may write three: with
`Workers = 2` the third is requested only when the first is taken, so the window
slides (`Refill`), and a run of three stops short of the fourth. The other two
scanner runs have two or three heights and do not need it. The counters
`moves`, `faults` and `crashes` exist only to bound the runs. `chain_scanner`
empties the blocks: `NeverRefused` shows that no block's transactions can stop
a connecting block, so they cannot affect progress; `scanner_refines` and
`two_scanners` have them.

The heights a client asks for (`AskedHeight`) are 0, below the index, 2 and 3,
in it, and 4, beyond any block; the limits keep one row, two rows and all.

The cache has two rows and three keys, so that the table overflows, and a clock
of three values that may step back, with a lifetime of two, so that a row is
younger than, as old as and older than its lifetime.

The tracer's graph (`MCExposureTracer`) takes every branch: a Tx0 with a later
Tx0 of its change, rounds reached along ways of different lengths, a
consolidation of three outputs that is also a fee bump, a Ricochet entered at
two depths, a Stonewall, a Payjoin and a reused address. The limits are chosen
so that each is reached in the middle of each kind of step and so that none is.

`MCDetectors` has pools whose amounts overlap as those of `DEFAULT_POOLS` do (a
coordinator fee of one is a premix amount of the other), and rounds of two or
three inputs instead of five to eight. `ElectrumLine`'s lines are shorter than,
exactly and longer than the maximum, and its chunk limit is smaller than the
line, as 64 KiB are.

### Fairness

* Scanner: weak fairness on the steps of the command and on its worker threads.
  `Restart=on-failure` and the five-minute timer
  (`deploy/systemd/dewhirlpooler-index.*`) start the command again and again,
  and a running process is scheduled. Nothing is assumed of the node, of
  failures or of crashes, whose number the run bounds: `CatchesUp` speaks of
  what happens after the last of them.
* Tracer: the loop goes on. The condition is written out
  (`[]<>Over \/ []<><<Step>>_vars`) because `Step` is enabled exactly until the
  trace is over and `ENABLED` of it is costly to evaluate.
* Electrum: every `recv` returns, with bytes, at the end of the stream or by the
  socket's timeout.
* Page: a `fetch` settles, and its answer is rendered, wholly or not. No
  fairness on the user, nor on pool histories.

Where a run has no liveness property its specification has no fairness. The page
really stops when its bounded user has done everything; no other run may
deadlock.

### Properties

Type invariants are left out of the runs except for the cache's: TLC evaluates
every field of these records in the guards, and the proofs state the types they
need in their own invariants.

* `MemoryMatches`: memory is `Reload(db)` whenever the index is open.
* `TablesSound`: every database on disk indexes a gapless run of heights, with
  no row created or spent above its last block.
* `ImplementsReplay`: the index is a function of the blocks it holds.
* `SnapshotsAudit`, `FeesAudit`: the recorded history equals what the rows of
  `pool_utxos` give for each height; fee rows, Tx0 rows and coordinator spends
  tell one story.
* `NeverRefused`: no connecting block is ever refused, so the index cannot be
  stuck in front of a valid block. `NoConstraintMet`: and no statement of its
  transaction fails for a key or a foreign key.
* `ImplementsIndex`, `ImplementsChainIndex`: refinements of `ChainIndex`.
* `WindowFollows`, `DoneAtTarget`, `OnlyStaleDiscarded`: of the scanner.
  `CatchesUp`: eventually the index holds the node's chain and stays there, or
  even its first block is stale, which `_reconcile_reorg` refuses to undo.
* `CoverageBacked`: an overview read in five moments has the snapshots of all
  pools at one height, and claims no coverage it has no data for unless a
  rollback came in between. `HistoryReconciles`: a page of a pool's history is
  an unbroken account, and one below its limit begins where the range or the
  index does. `NothingNewerHidden`: it ends with the last height of the range or
  of the index, and is empty only if no indexed height is in the range.
* `HitIsRight`, `AtMostMaxEntries`, `ExpiriesAgree`, `OnlyOwnKeyDropped`: of the
  cache.
* `WithinBudgets`; `CoveredToDepth`: a report that only its depth cut short has
  everything nearer than that; `StatusAgrees`; `Ambiguity`: behind a round no
  output, queued item or link is of high confidence, nor a finding that names
  such an output, except those that only say what a spend itself shows: that it
  enters a round, whose verdict may be certain (`_follow_round` takes the
  detection's confidence), or joins outputs; `RicochetWhole`; `CpfpOnce`;
  `ConsolidationsGrow`: of two consolidations reported of one spend one contains
  the other, and the last has every tracked input; `Terminates`.
* `VerdictsExplained`, `RolesFollow`: Whirlpool verdicts account for every
  output and follow a permutation of the outputs. `VerdictsTrue`: the
  unnecessary-input verdicts agree with a search over all subsets of the inputs,
  the fee bump's with the rates. `OrderFree`.
* `AnswerOfOneMoment`, `HeightsKept`: of the resolver.
* `ChunksDoNotMatter`, `Ended`: of the Electrum line.
* `PageOfLastSubmission`, `PatientUser`, `ButtonsComeBack`: of the page.

## Findings

**Two processes on one database.** `docs/deployment.md` says the scanner
"commits each validated block atomically and resumes from the indexed tip".
`two_scanners` shows that with two `chain-index` processes, say the timer's run
and one started by hand, the second may resume from the tip with the memory of
an older one. It loads its memory when it opens the database; the first process
then commits blocks; `rollback_after` finds nothing to roll back and returns
before it reloads; and `apply_block` takes the next height from the database but
stages the block from memory. Its checks pass, since they compare the stale
totals with themselves. The snapshots it commits contradict `pool_utxos`
(`HistoryAudit`), and spends of the outputs it does not know are never marked.
systemd does not start the service twice, so one service alone does not meet
this. Replaying the trace against `ChainIndex` itself gives a snapshot with no
liquidity next to nine unspent pool rows.

**A stored report that is not stored.** `README.md` says "`MISS`: live analysis
stored successfully". `put` inserts the report and then prunes the table to
`max_entries` in the order of `created_at` and key, the new row included
(`trace_cache_full`, `MissIsStored`). In a full cache the new row goes when the
others have the same second and larger keys, or later times because the clock
was set back. With `TraceCache` itself, 13 of 20 puts within one second into a
cache of two entries were lost.

**Observations** made while modelling, without a run:

* The overview may pair the coverage of one moment with the pools of a later one
  (`web.py:109-123`); after a rollback in between even with those of an earlier
  branch. `CoverageBacked` says what remains true.
* An ordinary spend reached by a second tracked input is analysed again with
  both: two consolidation findings of one spend, the second with all inputs
  (`trace.py:709-720`). A Payjoin verdict made with fewer tracked inputs stays,
  although one with all of them would not be made.
* A Ricochet entry reached again with too little depth left marks the report
  partial, and the fee and first hop, already part of a chain, are then also
  reported as possible payments (`trace.py:877-882`).
* The same height in two histories does not mean the same block: a child and its
  parent may count as confirmed together although a reorganization moved one
  (`resolver.py:108-127`, `postmix.py:277`).
* Pool histories that overlap on the page may be shown under another pool's
  button (`app.js:231-256`); hence `PatientUser` speaks of a user who waits.
* `electrum.py:250-253` and the resolver's "more than one spender" cannot be
  reached: the loop never asks for zero bytes, and the history of one moment
  has one spender.

## Proofs

What TLC checks on the instances above, the theorems state for all values of
the constants, as far as the assumptions below say. Each row names the theorem,
the property of a run it states, and the module of the proof.

| Theorem | Property | Module |
|---|---|---|
| `TablesStaySound` | `TablesSound` | `ChainIndexProofs` |
| `MemoryStaysReloaded` | `MemoryMatches` | `ChainIndexProofs` |
| `IndexImplementsReplay` | `ImplementsReplay` | `ChainIndexProofs` |
| `DatabaseStaysReplay` | (`DatabaseIsReplay`, no run) | `ChainIndexProofs` |
| `SnapshotsStayTrue` | `SnapshotsAudit` | `ChainIndexProofs` |
| `FeesStayTrue` | `FeesAudit` | `ChainIndexProofs` |
| `NeverStuck` | `NeverRefused` | `ChainIndexProofs` |
| `CallsImplementIndex` | `ImplementsIndex` | `ChainIndexProofs` |
| `CallsKeepTablesAndMemory` | `TablesSound`, `MemoryMatches`, statement by statement | `ChainIndexProofs` |
| `CallsImplementReplay` | `ImplementsReplay`, statement by statement | `ChainIndexProofs` |
| `CallsKeepAccounts` | `SnapshotsAudit`, `FeesAudit`, `NeverRefused`, statement by statement | `ChainIndexProofs` |
| `NoStatementRefused` | `NoConstraintMet` | `ChainIndexProofs` |
| `WindowAlwaysFollows` | `WindowFollows` | `ChainScannerProofs` |
| `RunsEndAtTarget` | `DoneAtTarget` | `ChainScannerProofs` |
| `OnlyStaleBlocksGo` | `OnlyStaleDiscarded` | `ChainScannerProofs` |
| `ScannerImplementsIndex` | `ImplementsChainIndex` | `ChainScannerProofs` |
| `OverviewIsBacked` | `CoverageBacked` | `IndexReaderProofs` |
| `HistoriesReconcile` | `HistoryReconciles` | `IndexReaderProofs` |
| `HistoriesAreCurrent` | `NothingNewerHidden` | `IndexReaderProofs` |
| `TypeCorrect` | `TypeOK` | `TraceCacheProofs` |
| `HitsAreRight` | `HitIsRight` | `TraceCacheProofs` |
| `TableStaysBounded` | `AtMostMaxEntries` | `TraceCacheProofs` |
| `PutsAndGetsAgree` | `ExpiriesAgree` | `TraceCacheProofs` |
| `OthersKeepTheirRows` | `OnlyOwnKeyDropped` | `TraceCacheProofs` |
| `ReportsWithinBudgets` | `WithinBudgets` | `ExposureTracerProofs` |
| `NothingCertainBehindARound` | `Ambiguity` | `ExposureTracerProofs` |
| `StatusesAgree` | `StatusAgrees` | `ExposureTracerProofs` |
| `BumpsReportedOnce` | `CpfpOnce` | `ExposureTracerProofs` |
| `RicochetsReportedWhole` | `RicochetWhole` | `ExposureTracerProofs` |
| `ConsolidationsDoGrow` | `ConsolidationsGrow` | `ExposureTracerProofs` |
| `ReportsCoverDepth` | `CoveredToDepth` | `ExposureTracerProofs` |
| `AnswersAreOfOneMoment` | `AnswerOfOneMoment` | `ResolverProofs` |
| `HeightsAreKept` | `HeightsKept` | `ResolverProofs` |
| `ChunksNeverMatter` | `ChunksDoNotMatter` | `ResolverProofs` |
| `PageFollowsLastSubmission` | `PageOfLastSubmission` | `TraceCacheProofs` |
| `PatientUserSeesPressedPool` | `PatientUser` | `TraceCacheProofs` |
| `VerdictsAlwaysExplained` | `VerdictsExplained` | `DetectorProofs` |
| `VerdictsAlwaysTrue` | `VerdictsTrue` | `DetectorProofs` |
| `RolesAlwaysFollow` | `RolesFollow` | `DetectorProofs` |
| `OrderNeverDecides` | `OrderFree` | `DetectorProofs` |

### The index

For every block tree, pool table and start height. `TablesSound` is inductive by
itself: a connecting block adds rows at the next height (`SoundWriteBlock`), and
a rollback to an indexed height cuts every table at it (`SoundRollback`).
`MemoryMatches` is inductive because of `AbsorbIsReload`: if no key of the block
is taken, updating the copy in place equals reloading it. Its interesting part
is the totals: the outputs a pool holds afterwards are those it held less the
spent ones plus the new ones, two disjoint sets (`HoldingCount`), and the
liquidity is the denomination times their number. Refinement needs both
invariants: soundness gives that writing a block does not change the rungs below
it (`RollbackWritten`), that rolling back to the last height changes nothing
(`RollbackToLast`), and that two rollbacks are one (`RollbackRollback`);
`MemoryMatches` gives that what was written is the replay from a fresh memory.
`DatabaseStaysReplay` then follows rung by rung.

The theorems so far hold for whatever staging computes from memory and block
alone. The next ones look inside it.

**A block's transactions.** `Staging` is a recursive function, so a proof needs
first that its equation has a solution (`StagingStep`). What the dictionaries
hold after `n` transactions is then shown for every `n` by an induction that is
a fact about a set of numbers (`CountingUp`): `StagedFacts` says that every
staged spend, output and row belongs to one of the first `n` transactions, that
each count is the cardinality of what it counts (`PoolStaged`, `FeesStaged`),
that a round that carries liquidity on makes as many outputs of its pool as it
spends (`RoundsStaged`), and that no transaction is refused (`ok`).

**The accounts.** `SnapshotsAudit` speaks of every height, but its rows change
with later blocks. The key is `RowsOfHeight`: what rows say of a height depends
only on what rolling back to that height leaves, and a later block leaves that
alone. So a snapshot is compared once, when it is written, with the counts of
`StagedFacts`. The invariant adds that an outpoint has at most one row
(`OneEach`), without which the rows' values could not be added up. `FeesAudit`
needs the same at the height of a spend; and that the row that made a script
known is never above the fee it explains, so that no rollback removes the one
and keeps the other.

**Never stuck.** `NeverStuck` shows the three refusals impossible. A block's own
outputs are found because they are staged before they are spent, and nothing is
spent twice because a block's transactions share no input (`NextTxOk`). The
liquidity reconciles because its change is that of the entries and exits:
outputs spent within the block cancel, and rounds keep the number
(`NetChange`, `BlockReconciles`). No key is taken: the invariant `Sourced` says
that each row was written for an indexed block that has its output or
transaction, and `Linked` that indexed blocks are ancestors of the next
(`BelowIsLine`), with which it shares neither (`BranchAssumption`).

### Statement by statement

`ChainIndexProofs` shows that a call taken statement by statement is one
step of the index or none. The invariant is `Running`: between calls the
connection's tables are the committed ones; during a call they are the committed
tables after the statements executed so far, and memory is still what it was. A
statement, a failure, a death of the process and a return without rows to delete
are stutters of `ChainIndex`; the last statement with `COMMIT` is `ApplyBlock`
or `RollBack`. That the tables after all ten statements of `_write_block` are
`WriteBlock`, and after all nine of `rollback_after` are `Rollback`, is shown
table by table. The interesting tables are those of outputs, which three
statements change: what the block spends of earlier blocks is marked first, and
an output it both creates and spends is inserted with its spend, or, for a fee
output, marked by a statement of its own. The index's theorems then carry over.

`NoStatementRefused` needs no invariant of its own: what the connection sees is
one of the tables `Partly` and `PartlyUndone` list, statement by statement. In
them the keys of the next statement are as free as when the call began
(`NoKeyTaken`), and every row names heights that are there: the block's from
the first statement on (`PartlyKnown`), and those to be removed until the last
(`PartlyUndoneKnown`), which is what the order of the statements is for.

### The scanner

With one process (`Procs = {P}`) and any number of workers, attempts, faults,
crashes and moves of the node. The restriction is needed: `two_scanners` shows
that two processes break it. The invariant `Inv` says, by the place of the run:
memory is the reload of the database while the index is open; the database, and
every one a loss of power may return to, is sound and linked, each block on its
parent; the candidate of the reconciliation is at or below the indexed tip, and
what was compared above it differed; and the futures are of the heights that
follow the one to be applied, no more than workers. `WindowFollows` and
`DoneAtTarget` are conjuncts of it or follow from it. `OnlyStaleDiscarded` needs
that a node's chain has one block at each height (`ChainOfBlock`), which for the
recursive function `ActiveChain` needs first that its defining equation has a
solution: `Line`, the least set that contains a block and its ancestors, is one
(`ActiveChainStep`). Each step of the scanner then maps to a step of the index
or a stutter; `Write` to `ApplyBlock`, because the invariant says that the
staged block was staged from the memory that is still there.

### The reader

`Account` is what one database must be: sound, with exactly one snapshot of each
pool at each indexed height, each carrying the liquidity on from the one before
(`Carries`), and such that rolling back to a height leaves exactly the liquidity
of its snapshots (`Restores`). Without `Restores` the account is not inductive:
after a rollback the next snapshot carries on from what the rows of `pool_utxos`
give, not from the snapshot left on top. `AccountWritten` and
`AccountRolledBack` show that commits and rollbacks keep it. A request is
related to the database query by query (`ReaderInv`): what it read was true of
the database then, and the writer's commits since have only grown it unless the
request saw a rollback. An overview is complete because the newest rows of the
pools are counted: there are as many as pools only if each has one. A history is
an unbroken run because the chosen rows are in bijection with a run of heights,
which is the range cut at the ends of the index (`OldEnd`, `NewEnd`) and then at
the limit.

### The cache

For any number of threads, requests, keys and entries. `HitIsRight` is inductive
as: a row, or a report a request carries, is that of its key. `KeyDecides` says
why this is enough: the key leaves out no field of the request that the report
depends on. `Bounded` says that the table is finite with at most `MaxEntries`
rows, one for each key by `TypeOK`; that pruning keeps the newest `MaxEntries`
needs that ranks and times order the rows totally. `ExpiriesAgree` and
`OnlyOwnKeyDropped` are properties of each deletion under these invariants.

### The tracer

For every graph, every verdict of the post-mix detectors and all limits, and for
what the node may learn while the walk goes on. `ReportsWithinBudgets` is by
`Fits`: a walk's three counts are finite and within the limits; the only two
helpers that add to them, `WithTx` and `Looked`, stay below (`KeptFew`: the
outputs kept are as many as there is room for).

Three more are by `Honest`, which is inductive where they are not:

* `Modest`. High confidence reaches an output only from the roles of a Tx0, and
  every entry of the frontier with it is an output of a Tx0. An output behind a
  round, one with the ancestry of a round, is never an output of a Tx0. A
  finding takes its confidence from the item it was made for, from roles, or
  from a verdict on the spend alone, and only the last may be high next to an
  output behind a round (`Grounded`). These rest on what the detector says
  (`Verdict`): a transaction is a Tx0 or a round and never both, and one with a
  single output is neither (`HopsAreUnknown`), so no hop of a Ricochet turns out
  to be a Tx0.
* `Agreed`. An output is marked unspent exactly with its finding and spent
  exactly with its edge, and both are backed by the one answer the walk keeps
  of the lookup; so no output is first unspent and later spent, although the
  node learns of new spends during the walk.
* `AllAtOnce` and `BumpsWhole`. A fee bump names every input of the spend that
  is a node of the parent, whichever of them the walk came by. Its finding is
  reported once because the outputs of a round become nodes and get their
  ancestry together: the second visit finds the same inputs as the first.

`RicochetsReportedWhole` is about the order in which the tracer counts and adds:
`_follow_ricochet` walks the chain ahead, counts the transactions and outputs
that are new, and only if they fit adds them. The count takes for granted that a
transaction the report has already has its outputs too, while elsewhere the walk
leaves outputs out when the report is full. The invariant `CInv` shows why that
is never a hole:

* `Filled`. A transaction with an output left out means that the report is full;
  then only a chain none of whose hops is new passes the count.
* `Reached`. Every transaction but the first came by an input that has a node,
  so of such a chain each output that the next hop spends is there.
* `DeepWhole`. The output of the last hop is there, since a transaction two or
  more ordinary spends behind the last round or Tx0 (`Deep`) can only have been
  added by another Ricochet, hence with its output.
* `Apt` is why: of an ordinary spend's outputs none is followed that would be
  spent ordinarily again.
* `HopsFound`, with `Witnessed`, gives that the chain is the only one: a spend
  shown is one that was found, and an output has one spender.

A chain that is complete stays so (`WholeStays`), since the walk only adds. As a
chain that was counted is added whole, the return from its middle
(`trace.py:943-944`) is never taken, and the model has none.

`ConsolidationsDoGrow` is about an order of visits that no code states. A spend
of several tracked outputs is analysed each time the walk comes by one of them;
its last consolidation is complete only if no input becomes tracked later
without being visited later. `JInv` adds to `CInv`:

* `Merging`. Each consolidation names tracked inputs of an ordinary spend, two
  at least, and those of one spend are one within the other: what is tracked
  only grows.
* `NoneForgotten`. Unless the walk was cut short, for each consolidation there
  is one of the same spend that names every tracked input but those that still
  wait (`Waits`): their visit finds the spend once more and names them all. At
  the end none waits.
* `Orderly` is why an input waits when it becomes tracked. An output of a round
  joins as postmix and to be followed, and is looked up only at its visit, never
  by a Ricochet probe before it; any other output that is postmix, a hop of a
  Ricochet, is the only input of its spend, which is no consolidation.
* `Ancestral`. What is visited or waits has the ancestry it is visited for.

`ReportsCoverDepth` is why the frontier is a queue: a state is visited once, and
what its spend hands on is followed only if that one visit was near enough. The
invariant `KInv` adds to `CInv`:

* `Layered`. The frontier is in the order of depth, and spans two depths at
  most; an output of a round or a Tx0 waits to be followed recursively, so its
  visit is no last spend.
* `Spread`. Unless something but the depth cut the walk short, each visited
  state has a depth, that of its first visit, such that what the root hands on
  is visited or waits at depth 0, and what the spend of a state visited above
  the limit hands on is visited or waits one deeper (`DueBy`). By `Layered` a
  first visit is no deeper than any item that still waits, so the repeated
  visits and the second queueing of a state lose nothing (`DepthsStay`).
* `Complete`. Each transaction has all its outputs unless the report says that
  some were left out; so all of what a spend hands on joins.

At the end nothing waits, and by counting up the distance everything within it
was visited at that depth or above (`WithinSeen`). `Within` is defined by
recursion, so the proof first shows that the recursion has a solution, the least
set of pairs of a number and a state that is closed under a spend
(`WithinStep`).

### The resolver

For any transactions, scripts and server: `AnswersAreOfOneMoment` from the
invariant that what a lookup has found, with the spenders among the entries not
yet asked for, is the spenders of the moment its history was read. Nothing the
server does later can change either.

### The line and the page

`ChunksNeverMatter` holds for every limit, chunk size and stream. The invariant
`LineInv` says that until the line ends all that was read is part of it, no more
than the limit, and that the pending `recv` asks for what is left up to one byte
past the limit. So a chunk that passes the limit does so by that byte, and a
newline behind it is never read; `RecvAsks` shows that no `recv` asks for zero
bytes, which would look like the end of the stream.

`PageFollowsLastSubmission` rests on `TraceFormInv`: while the buttons are off
exactly the latest request is in flight, and none while they are on. An error
leaves the page with a report beside it, old or half new. For
`PatientUserSeesPressedPool` it is `HistoryInv`: as long as no two questions for
a history overlapped, the one in flight is about the pressed pool, and no blocks
are visible before its answer. The condition is needed: the page does not check
which question an answer belongs to.

### The detectors

The theorems speak of the transactions `MCDetectors` puts together, but for any
pools, sizes of rounds, bounds and limit of money that its assumptions admit, so
that transactions may be of any length. The invariant `DetectorTypes` says no
more than that what was put together is a transaction with its previous outputs;
the lemmas under the theorems are about every transaction of any amounts.

**Sums.** `SumOf` folds over a set in an order nobody knows. `SumOfSums` shows
that its recursion has a solution and that any element may come first
(`IteratesSums`); the lemmas that follow, for corresponding terms, for parts and
for permutations (`SumPermuted`), use only that.

**Explained.** Marker, fee, premix and residual outputs of a Tx0 candidate are
of four kinds (`KindsApart`), because an amount above the denomination is never
a fee of the same pool, and each role is that of its kind (`RolesOfKinds`). A
round is never taken for a Tx0: its outputs are one denomination, which by
`PoolsApart` is no premix amount of any pool (`RoundsAreNoTx0s`). Nor do two
pools contend for it, as `PoolsDistinct` says (`RoundVerdict`).

**True numbers.** The code compares the larger output with all inputs but a
smallest one. `MostOfSome` shows that this is the most that some of the inputs,
not all, can hold, for any number of inputs; so the comparison finds what a
search over all subsets finds. Total and set agree since
`detect_payjoin_fingerprints` wants all inputs different (`DistinctInputs`).

**Order.** A swap of neighbours is a permutation (`SwappedPermutes`), and the
lemmas are about any permutation. Under one of the inputs the dimensions of a
Stonewall move and its clusters, sets of outpoints, stay (`ClustersMoved`).
Under one of the outputs, the kinds, the roles and the candidates move
(`MovedKinds`, `CandidatesMoved`). That a single best candidate stays single
needs the permutation back as well, and that candidates are finitely many
(`CandidatesFinite`). Inputs that are not all known make the verdict unknown in
either order (`VerdictStays`).

### Assumptions on the constants

TLC evaluates them on every run.

* `PoolAssumption`, `PoolDefAssumption`, `PoolsApart`, `PoolsDistinct`,
  `RoundSizeAssumption`, `MoneyAssumption`: there are finitely many pools, with
  positive and different denominations; fees do not exceed them, no premix
  amount of one pool is the denomination of another, and a round has at least
  two inputs. All hold of `DEFAULT_POOLS` and of the sizes `whirlpool.py`
  accepts. The limit of money is a natural number.
* `HeightAssumption`, `ParentAssumption`: heights are at least the start height,
  and a block's parent is one below it; the block at the start height has none
  that is indexed.
* `BlockAssumption`, `BranchAssumption`: a block's transactions spend each
  output at most once and none before it is created, every input comes with its
  previous output (`blocksource.py` refuses a block otherwise), and along a
  branch no transaction identifier and no output comes twice. The last is BIP 30
  and BIP 34; the two coinbase transactions that did are older than Whirlpool.
* `FinitelyManyOutputs`, `PoolsAssumption`: finitely many outputs, and a finite
  set of pools that is not empty, as `DEFAULT_POOLS` is.
* `GraphAssumption`: outpoints are pairs of a transaction and an output number,
  a transaction has finitely many inputs and outputs,
  inputs name outputs there are, and no two transactions of the graph spend the
  same output: a double spend that replaces another during one walk is left
  out, as it would show in the resolver first.
* `DetectionAssumption`: the constant `Detection` is what the detector says.
* `RankAssumption`: SHA-256 digests of different keys differ.
  `HeaderAssumption`, `NoneAssumption`, `CallAssumption`: `None` is not one of
  the other values it stands beside.
* `LimitsArePositive`, `LimitAssumption`, `BoundAssumption`,
  `RequestAssumption`, `ScannerAssumption`, `ResolverAssumption`,
  `SizeAssumption`, `PageAssumption`: the ranges that `TraceLimits`, `web.py`,
  `electrum.py` and the settings enforce, and the types of bounds.
  `AskedHeightAssumption`: heights in a query are natural numbers.
  `UnknownPoolAssumption`: the unknown pool is none of the known.
  `ReplyAssumption`: a pending request has no outcome that a reply has.

### Only model-checked

Liveness: `CatchesUp`, `Terminates`, `Ended`, `ButtonsComeBack`. The prover has
neither fairness nor `ENABLED`. Every invariant and action property of a passing
run is a theorem above; `ImplementsChainIndex` is one for a single process, the
others as their runs check them.

## Not modelled

* `--stop-height` (a smaller target), progress output, back-off delays, and the
  final query of the node's height before the command prints its result.
* Validation: of paths, schema and metadata when a database is opened, of JSON
  in `blocksource.py`, `core.py` and `electrum.py`, of requests in `web.py`.
  What a failed validation leads to is modelled as a failing call.
* Fee percentages, confidences and ancestry labels the index stores but no
  decision reads; explanation texts, evidence lists and graph rendering.
* The parsing of scripts and signatures, and the transaction parser
  (`bitcoin.py`): pure functions of byte strings, which fixtures of real
  transactions test better than a small model could.
* Coinbase transactions in the tracer's graph, and blocks below the start
  height in the index.
* Argument parsing, configuration and the one-shot commands of `cli.py`: they
  keep no state; what they decide is a constant of the modules.
