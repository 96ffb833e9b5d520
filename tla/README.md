# pgmigrate: TLA+ models, checks and proofs

pgmigrate moves a PostgreSQL database to another server while the source stays
in use: it copies a snapshot, follows the source's changes through a logical
replication slot, and cuts over. This directory models the parts of it whose
correctness depends on the order of events: crashes between two fsyncs or two
statements, connections lost at the wrong moment, several sessions, workers or
processes acting independently. Every definition names the lines it models in
`PROJECT.json`.

## The system

| Component | State it keeps | Operations | Interacts with | Modelled in |
|---|---|---|---|---|
| Lifecycle (`app/app.go`) | phase, steps, attempts | run, resume, restart the base copy, follow, clean up | all | `BaseCopy`, `IndexBuild`, `Cutover`, `Controller` |
| Setup, clone, replica identity, tuning (`setup/`, `replident/`, `tuning/`) | publication, slot, `snapshot.json`, recorded originals | make, record, recover, undo | source, target, state store | `BaseCopy`, `Cutover` |
| Copy (`copy/`) | parts, receipts on the target | plan, prepare, copy parts, retry | source snapshot, target, state store | `BaseCopy` |
| Index build (`indexbuild/`, `schema/`) | completion marks, recorded definitions | inspect, create, adopt, attach, validate, vacuum | target catalog, state store | `IndexBuild` |
| Receiver (`cdc/receiver.go`) | replication session, position sent | start, decode and deliver, feedback, reconnect | source slot, bounded channel, durable watermark | `SegmentLog` |
| Persister and writer (`cdc/persister.go`, `cdc/segment.go`) | open segment, last and durable position | discard duplicates, append, group fsync, rotate, recover, close | channel, segment directory, watermark, catalog | `SegmentLog` |
| Reader (`cdc/reader.go`) | snapshot of the directory, open file, held-back transaction, durability gate | list, refresh, open, next, close | segment directory, watermark | `SegmentLog` |
| Pruner (`cdc/maintenance.go`) | catalog of finalized segments, applied position | prune, fsync directory | segment directory, applier | `SegmentLog` |
| Applier (`cdc/applier.go`) | copy of target progress, batch, statement and relation caches | connect, batch, apply, reconnect | reader, target, pruner | `SegmentLog`, `ReplayClaim`, `Cutover` |
| DML builders (`cdc/applier.go`) | the run of like changes being collected | cut into statements, choose a form, expect counts | target | `RowReplay` |
| Replay planner and claims (`cdc/replay_*.go`, `progress_identity.go`) | claim and work rows, progress, stream identity, all on the target | epochs, barriers, lanes; ensure, begin and complete work, finalize, validate | applier's sessions | `ReplayPlan`, `ReplayClaim` |
| Cutover (`cutover/cutover.go`, `app/app.go`, `cdc/end_position.go`) | durable steps, end position, report | checks, boundary, drain, sequences, report | state store, run process, source, target | `Cutover`, `SequenceSync`, `CutoverRecover` |
| Verification (`verify/*.go`, `app/verify.go`) | results per table, deferred checks | sample, recheck, wait for apply, judge | source, target, progress | `Verification` |
| Controller (`controller/*.go`) | configuration, revision, operations, child processes | show, save, start, stop, reap | browser tabs, run process, directory lock | `Controller` |
| State store (`state/*.go`) | SQLite control database | migration record, steps, marks, lock | all | where it is used |
| Decoder, codec, spill; CDC sampler; preflight, collation, filters; CLI, status | little or none | formats, choices, checks and messages | | not modelled, see below |

What is hard in it, in short: the segment directory is shared by a writer, a
reader and a pruner without a lock; directory changes are durable only after a
directory fsync; the target's answer to a COMMIT can be lost, or the COMMIT can
be executed long after the client gave up; lanes of one claim commit in any
order; changes are merged into statements whose premises the stream shows only
partly; setup, copy and index build make things on two servers and record them
in two stores, and may be killed between any two of these; verification compares
two servers that both move; the cutover is a second process working on the files
of the first, and a controller starts and loses both. `PROJECT.json` lists
these hazards at their lines, with the properties that cover them.

## Modules

| Module | Models |
|---|---|
| `BaseCopy`, `MCBaseCopy`, `BaseCopy_proofs` | the life of a migration up to catchup: setup, base copy, reset, resume |
| `IndexBuild`, `MCIndexBuild`, `IndexBuild_proofs` | the indexes phase: workers, marks, adoption of earlier work |
| `SegmentLog`, `MCSegmentLog`, `SegmentLog_proofs` | source slot, receiver, channel, persister and writer, directory, reader, applier, pruner, crash and restart |
| `ReplayPlan` | how a batch becomes steps, lanes and work rows (pure) |
| `ReplayClaim`, `MCReplayClaim`, `ReplayClaim_proofs` | the serial path and replay claims on the target, lost connections and late COMMITs |
| `TargetReplay` | what replay promises: exactly once, conflict order, honest progress |
| `RowReplay`, `MCRowReplay`, `RowReplay_proofs` | how the changes of a batch become statements, and what those do to rows |
| `Verification`, `MCVerification`, `Verification_proofs` | the verification run beside a written source and a lagging target |
| `Cutover`, `Cutover_proofs` | the cutover command beside the run process: durable steps, end position, drain, cleanup, report, restarts of both |
| `SequenceSync`, `MCSequenceSync` (its theorems are in `Cutover_proofs`) | the sequence synchronization while both servers hand out values |
| `CutoverRecover` | `SegmentLog` composed with the recovery scan of the cutover command |
| `Controller`, `Controller_proofs` | configuration revisions, child processes, the directory lock |

### BaseCopy

`pc` is the place of the run process, and one action is one statement, file
operation or store write, so that an error (`Refuse`, `Fail`) or a kill can come
between any two. The run takes the phases preflight, setup, schema, copy and
indexes (here one step, `IndexBuild` has it) to catchup (`pc = "up"`). The source keeps
publication, slot and replica identities, the directory `snapshot.json` and
segments, the target tables with rows, receipts and the stream's identity row, the
state store phase, parts and recorded originals. A position is a number of source
commits. The rows of a part are the position of the snapshot they were read at, so
"copied twice" and "from two snapshots" can be told apart. `ResetSteps` are the steps
of `resetInterruptedBaseCopy`, in their order, with its three ways to find out what
belongs to the old attempt. With a clone (`Modes`), the copy reads from a physical copy of the
source, whose receipts let it resume. Workers take the parts largest first (`Handed`).

Two faults are always possible and are part of the model, not an option of it: a
COMMIT that was sent before a kill or an error and is carried out later (`orphan`), and
the last DROP SCHEMA of a reset, whose error the code ignores (`DropMetadata`). The
variables `lost`, `stale` and `overtaken` are history: they only remember that such a fault
has happened, and to which parts, so that the properties can say what follows from it.

Abstracted: rows (above); the settings of the bulk load are one setting; retries
inside one statement; the arithmetic of the COPY plan (any partition of a table
into parts).

### IndexBuild

One action is one catalog query, DDL statement or mark of a worker. A definition
is "own", "other" or "elsewhere", which is what the comparisons of the code tell
apart. `strays` are statements of a dead or cancelled worker that the server may still
execute, `landed` the ones that it did, `forged` what somebody else changed. `Rewritten`
are the constraints whose text the target renders unlike the source's, which is when
`rendersAlike` puts a probe to the target; a probe that fails for whatever reason
(`ProbeLapses`: lock timeout, dropped connection, cancellation) is taken for one that
says no, as at `indexbuild/indexbuild.go:724`.

Abstracted: definition texts; the source's catalog does not change; checks
that are NOT VALID; partitions have two levels; somebody else changes the target
only between two attempts.

### SegmentLog

A transaction is its number in commit order; commit and end positions are that
number, since the code only compares them. A segment is named by its first
transaction, and its content is a set of complete frames. The writer's
`AppendFrame` is two steps (`BeginFrame`, `FinishFrame`), so that a reader, a
crash or another process can see the incomplete frame; `rotateLocked` is three
(`RotateSync`, `RotateRename`, `RotateDirSync`), since a crash between them leaves
different directories; a prune is two. `synced`, `renamed` and `unlinked` record
what a power failure may still undo. `Crash` keeps a prefix of the unsynced
frames and may undo an unsynced rename and unsynced removals; `Exit` is an
orderly end that fsyncs the tail through `Writer.Close`. Each call of
`Reader.Next` is one step per file operation. The serial target commit is one
step, `ApplyLostAck` being the one whose answer is lost. The creation of a segment and
the directory fsync after it (`cdc/segment.go:390`) are one step, `BeginFrame`; what that
leaves out is under "Not modelled".

Abstracted: sizes (any frame may fill its segment, any batch may be full),
checksums, spill files, and several target sessions, which `ReplayClaim` has.

### ReplayPlan and ReplayClaim

`ReplayPlan` defines, for a batch, which transactions are serial barriers, the
epochs between them, the dependency components inside an epoch, and the step and
lane of each transaction. A component is defined as the smallest set closed
under sharing a key, which is what the code's union-find computes. Key sets,
unsafe changes and definition changes of the transactions are constants.

`ReplayClaim` has one step per statement where another session may come between:
the four reads of a connect, the beginning of a work unit, the sending of a
COMMIT, its execution by the server, and its acknowledgement. `srv` holds the
target transactions in flight; those of a lost connection stay and may still
commit (`Commit`) or be given up (`OrphanAbort`). Row locks of unfinished work are
in `Locked`. The digest of a claim is the claim itself; its fence is unique to it.

Progress only ever ends at the number of a transaction; the segment log retains
what lies beyond it, which `SegmentLog` shows.

### RowReplay

Inside one transaction of `SegmentLog`, or one outside of claims of `ReplayClaim`: the
source makes changes to rows, the applier takes a batch, cuts it into runs of like changes and those into
chunks, and builds one statement for each: insert, upsert by primary key, batched,
selective or single update, delete, truncate. A relation has three columns and a
kind: which columns are unique, which identify a row in the stream, and what the
target's catalog admits. A large value that an update leaves alone is not in the
stream. A statement reads the rows as they were when it began and is checked
against the count the code expects.

The stream is one sequence of changes (`log`) with the places where transactions end
in it (`ends`), and `states` holds the source's rows after each change, so that "as of"
means something for single changes too. `plan` is what is left to replay, as positions
of the stream: `BeginBatch` puts them lane by lane (`LaneOrder`, for
`planRelationBatchedChanges`), the other paths in the order of the stream. A run is the
longest prefix of the plan in which neighbours go together (`BatchRun`, `SerialRun`,
`SpillRun`), and a chunk the longest prefix of that which fits a statement and has
no two changes that clash. `stretch` counts the updates left of a call of
`applyLegacyUpdates`, and `masks` are the answers of `inspectSelectiveUpdateMasks` while
the updates they are for have not been issued.

Abstracted: transports of one statement (COPY, staging table, arrays, VALUES) have
the same effect; truncates of one transaction have the same options, so that
neighbours always share a statement (`sameTruncateOptions` is taken to hold); equal
rows of a relation without any key are left out, since the model's rows are a set.

Left out: the lanes of a claim. `queueParallelReplayLane` (`cdc/replay_execute.go:399`)
first drops from a lane, which may hold transactions that are not neighbours, every
full update of a primary key that a later one of the same key replaces
(`coalesceReplayLaneUpdates`; an insert, a delete or an update that lacks a value ends
that for its key, a change without a known key for the lane), and then puts what is
left in the order of relations. Only after that does the statement builder modelled
here see it. No property of `RowReplay` speaks of that path.

### Verification

The source is the log of its row changes and a read of it is the position it was
made at; the target holds the changes up to `applied`, except where `fault` says that
a row is missing, stale or garbled. `wk` holds the table workers (heap sample, probe,
rechecks until the deadline, recorded rows), `rk` the single deferred recheck, `res`
the results. `Hooks` says that apply can be waited for, which is so in the follow phase.

Abstracted: a read is one statement; the windows of the heap sample are fixed;
the application of a row does not change; an update that changes nothing is a
change and its reversal.

### Cutover and SequenceSync

`Cutover` starts in the follow phase. `cpc` names the next step of the command, and
one action is one statement or store write of it, so that it can be stopped
(`CutoverStop`, or a `PowerFailure` that also ends the run process) between any two;
`steps`, `phase` and `endpos` are what the SQLite store keeps. `Mark` is `runStep`
after its action, `ToPhase` is `transitionOptional`: a refused write ends the command,
as the returned error does. The run process is the receiver (`sent`), the persister
(`durable`), the applier (`batch`, `progress`) and the pruner (`kept`); that the log in
between loses and repeats nothing is what `SegmentLog` shows, and here the log is a
prefix of positions. `session` is the walsender the source still has for a receiver
that is gone. `objects` and `leftovers` are what the migration has left on the source
and on the target. The target's schema is dropped by the run process
(`RunComplete`, `FinalizeDrop`, `FinalizeMark`), not by the command.

`SequenceSync` refines the command's sequences step, which in `Cutover` is one
marker: `SyncRead` and `SyncSet` are the two statements of one sequence, with
allocations of both servers between them. `Limit` scales `math.MaxInt64` down. A sequence
may count by any number other than 0, and the offset is a distance between values,
as in the code.

Abstracted: an `--endpos` is one of the positions in the retained log (others are
rejected before anything changes); a stalled drain is a `CutoverStop`; the report
is its end position; all relations with a changed replica identity are one object,
and all bulk-load settings and target identities another.

### Controller

The tabs hold revisions they were shown (`shown`); a request carries one, passes the
lifecycle check, and is started or refused later (`req`), with saves, stops and
restarts between. `file` and `disk` are `controller-config.json` before and after a power
failure. `worker` holds the children, those of earlier controllers included; each
takes the lock of the directory before it works, and `phase` is what it finds there.

Abstracted: a configuration is a connection part and a settings part; output,
authentication and the HTTP layer are left out.

## Runs

| Run | Instance | Shows |
|---|---|---|
| `base_copy` | a table copied whole and one in two parts, from the source or a clone, 2 workers, 2 commits, 1 error, 1 kill, 1 slot dropped by somebody else; late COMMITs and a DROP SCHEMA that fails | what continues past the copy is exact but for what the last two do to a part; the source stays usable; a supervised migration reaches catchup |
| `index_build` | a partitioned primary key with its partition, an expression index, 2 foreign keys, a check, a comment, 2 workers, 1 kill, 1 foreign change, 1 failed probe | marks are true, an attempt accepts its own earlier work (a failed probe excepted) and nothing else, the phase ends |
| `segment_log` | 3 transactions, channel of 2, 1 removal per prune, 2 exits or crashes, 1 dropped connection | the safety properties of `SegmentLog` |
| `segment_log_live` | 3 transactions, channel of 1, 1 crash | `EventuallyApplied` |
| `replay_claim` | 4 transactions (two components, a barrier), 1 or 2 lanes, 2 losses | exactly once, refinement of `TargetReplay`, no self-inflicted failure |
| `replay_barriers` | 6 transactions: an epoch, two serial steps (a definition change, unsafe keys), an epoch of two lanes, one of them empty, all in one claim; a spilled transaction after it; 1 loss | the refinement with a run of serial steps between epochs, and `EventuallyReplayed` |
| `row_replay` | 7 kinds of relation beside a plain one, 3 changes in 2 transactions, statements of 2 rows, batched, one by one or spilled, outside of claims | the statements leave the source's rows |
| `verification` | 3 tables, one without a key and one empty, a worker beside the rechecker, recheck bound 1, 2 writes, following or drained | latency is told apart from divergence, a faulty row is not passed, the run ends |
| `cutover` | 4 positions (2 source commits, a boundary per attempt), manual end positions, 1 failure of the command or power failure, 1 of the run | the safety properties of `Cutover` and `EventuallyCutover` |
| `sequences` | a sequence ascending by twos and one descending by ones, small bigint range, two synchronizations | `OffsetIsRoom` |
| `controller` | 2 settings, 2 connection strings, 2 controllers, 1 save, 2 operations, 1 concurrent request | an action runs with what was reviewed, one process works on the directory, a stop ends what it stops |
| `cutover_recover` | 2 transactions, no faults | `FeedbackIsComplete` is violated (below) |

Bounds. With three transactions the log can hold a safety segment, a segment
to prune and a tail at once, and a segment can be listed, renamed and removed
while the reader has it open; two crashes allow one during the recovery from
the first. Four transactions and two lanes give a component joined only through
a common row, a lane beside it and a barrier after both; with two losses, work
of two earlier connections is in flight beside the present one. In `Cutover` two
commits and a boundary let the pruner pass an end position, a manual end position
lie before, at or after progress, and a commit follow the boundary; one failure
puts a second command on what the first left, and there must be room for the
boundary of each.

In `base_copy` an error and a kill are enough to interrupt the copy and then the reset
that it made necessary, or the reset and then the attempt after it; two commits put
the snapshots of two attempts at different positions with a change after each; two
workers have parts of a table open at once, so that one's COMMIT can outlive the run
that the other's error ends. In
`index_build` the kill leaves statements behind that may land at any later point, and a
worker's failure cancels the other. In `replay_barriers` the one claim begins with an
epoch and ends with another, so that a loss can come before, in and after the serial
group, whose two steps share a target transaction. In `row_replay` three changes are the shortest
histories in which a key is given up, taken by another row and looked up again, and
statements of two rows are cut inside them. In `verification` two writes let a row be
inserted, changed or deleted between any two reads of it; with three writes, and with
two workers, the invariants hold too (4.0 and 2.0 million states). Workers share only
the list of tables, the rechecker's queue and the cancellation, and the rechecker is
already a second actor beside one worker. In `controller` two controllers and two operations put
an orphaned child beside a new one.

For the properties listed under Proofs the bounds do not matter: they are proved for
all.

Properties of `BaseCopy`:

* `CopyExact`: what continues past the copy is one snapshot, each part whole and once,
  with the stream from the snapshot's position on; no receipt vouches for other rows;
  a reset leaves nothing that a later attempt would take up. Two faults of the code
  change that (see the observations), and the property says by exactly what: a part
  whose receipt outlived a DROP SCHEMA that failed has no rows (`stale`), and a part that a
  dead run committed while the next was copying it may be there twice (`overtaken`).
  Every other part is there once, and the stream has no gap, whatever happened.
* `SourceIsSafe`: published relations can be updated, and whatever was changed on a
  server is on record.
* `KeepsWork`: no run discards a stream that it could resume, nor a committed part of a
  clone's copy, whose rows change only by another, late COMMIT of the part.
* `Completes`: when the faults are over, the migration reaches catchup, except from
  the states `Stranded` and `Disowned` (see the observations).

Properties of `IndexBuild`: `TargetComplete` (a mark is never ahead of the target, and
the phase ends with everything there), `FailsForCause` (an attempt does not trip over
the work of an earlier one, except where a probe fails on a constraint that the target
renders in other words and of which nothing is recorded yet), `CompletesOwn` (what is marked is what was recorded; a
foreign definition is taken over only where the code cannot compare), `Finishes`.

Properties of `SegmentLog`:

* `AckedIsKept`, `WatermarkCoversSlot`, `AppliedIsDurable`: nothing confirmed to the
  slot, and nothing applied, can vanish from the log; the watermark that
  `OpenWriter` rebuilds after any prunes covers the slot.
* `ExactlyOnce`: the target applies each transaction once, in order and without a
  gap, through relisting, refreshes, duplicates and lost acknowledgements.
* `DirectoryRecovers`, `CatalogOnDisk`, `ReaderNotStranded`: the three errors (or
  hangs) the code would meet if the directory protocol were wrong cannot occur.
* `EventuallyApplied`.

Properties of `ReplayClaim`: `FrontierExact` ties the applied transactions to
progress and receipts; `ImplementsTargetReplay` is the refinement;
`UndisturbedNeverFails` says the code's own fences and manifests never stop a run
whose connections hold; `EventuallyReplayed`.

Properties of `RowReplay`: `ReplayExact` (the target holds the source's rows as of its
progress, whichever changes shared a statement and however batches were cut) and
`DivergesOnlyWhere` (a legal history is refused in two known cases only, see the
observations). Both are about batches, single and spilled transactions outside of
claims; the lanes of a claim reorder and drop changes first, which is not modelled.

Properties of `Verification`: `LagIsNotDivergence` and `StalledForCause` (a row that is
right on the target is reported only when it was written under the recheck),
`VerdictIsSound` (converged has missed no faulty row it looked at; diverged names a row),
`Ends`. `VerdictIsSound` excuses a table with more candidates than `RowThreshold`, since the
code means to pass the rest: that hazard no property covers.

Properties of `Cutover`:

* `DrainCoversEnd`, `SlotOutlivesStream`: sequences are set and the slot dropped only
  when nothing up to the end position is missing, whichever process recorded that
  position and when.
* `PublishedKeepsIdentity`, `CompleteIsTidy`: no interruption of the cleanup leaves
  published relations without identity; a complete migration left nothing behind.
* `EventuallyCutover`: up to the cutover phase, a command that failed can always be
  run again. (Beyond it, it cannot: see the observations.)
* Proved only: `StoppedReceiverIsDurable`, `CompleteHasReport` (the report survives a power
  failure), `MetadataOutlivesApply` (the progress row outlives the applier).

Property of `SequenceSync`: `OffsetIsRoom`, that as long as the source moves no further
than the offset after its value was read, what the target hands out collides with
nothing, in either direction and at either end of bigint.

Properties of `Controller`: `ReviewedConfig`, `ChildIsShown`, `SavesHold`, `OneMigrator` (also
beside children of a dead controller), `KeepsWork` (only a restart of the base copy
takes a migration back, and never a complete one), `StopEnds`.

### Fairness

Goroutines and statements that can run are run, a receiver or applier that lost its
connection opens another (`Run` loops on connection errors), and a process that
died is started again (by its supervisor; the controller does so). Faults,
source commits, feedback and pruning carry no fairness. Beyond that:

* `Cutover`: the source ends the session of a dead receiver, and the operator runs a
  failed command again, not for ever with an `--endpos` that the store refuses (the
  strong fairness of `CutoverStart`); choosing not to is no failure of the code.
* `BaseCopy`: a run that can work is scheduled and a supervisor starts it again (`Running`,
  `Refuse`, so that a run that has to refuse does); the servers end the sessions and
  transactions of dead clients one way or the other, and the operator takes the clone
  that was asked for (`Serving`) and restarts a copy whose stream is gone, as the error
  messages say. The fairness is of these three groups, not of single statements.
* `IndexBuild`: workers run, a failed attempt is resumed, and a statement left on the
  server ends one way or the other.
* `Verification`: workers run, deadlines pass, and a wait for the applier ends in
  success, error or timeout; the applier itself is not assumed to run.
* `Controller`: a child's end is noticed (`cmd.Wait`, with `WaitDelay` after a stop), and a
  child makes progress towards its end; the tabs need not act.

## Findings

* **The cutover command repairs a live segment.** `Cutover` (`app/app.go:2659`) calls
  `cdc.Recover` on the directory the run process is writing to. `Recover` truncates
  the frame being appended; the writer goes on at its old offset, leaves a hole
  and later reports the position as durable. Run `cutover_recover`.

### Observations

Met while modelling, each confirmed by a TLC counterexample of a variant that is
not kept as a run, or read off the code where it says so.

Cutover:

* A cutover that stopped after the sequences cannot be resumed: every invocation
  asks for the transition to "drained" (`cutover/cutover.go:175`), which
  `TransitionPhase` (`state/records.go:218`) refuses once the phase is "cutover". README line
  526 and the comment at `cutover/cutover.go:100` promise resumption at the first
  incomplete step.
* Writes after the end position can be migrated: the boundary is emitted before it is
  recorded (`cutover/cutover.go:154`), and the applier may pass it in between. README line
  532 says they are not.
* A stop inside the target cleanup is permanent: `finalizeTargetCleanup`
  (`app/app.go:391`) drops the schema with the migration's identity and then records that;
  from between the two, neither command gets past the missing identity, and the report
  of README line 529 is not printed again.
* Synchronizing sequences again is not harmless once the target serves writes:
  `setval` (`cutover/cutover.go:365`) takes the target back to the source's value plus the
  offset (README line 509).

Base copy:

* A kill inside the reset, after `snapshot.json` is removed and before the phase is
  reset (`app/app.go:437`), leaves the phase "copy" without a snapshot, which no command
  accepts (`Stranded`; the comment at `app/app.go:2280` says otherwise).
* The reset ignores the error of its last DROP SCHEMA (`app/app.go:2278`), so that
  `copy_parts` and the identity row can survive it, although the comment at
  `app/app.go:2282` says that nothing of the attempt survives a reset ("no stale snapshot,
  dump, or CDC segment can survive" names the files only). A later attempt believes the
  surviving receipts, skips their parts and continues without their rows (`stale`). And
  an identity row that the state store does not know makes every later reset
  refuse: an attempt killed in setup cannot be cleaned up (`Disowned`).
* A COMMIT that was sent before a kill or an error can be carried out after the resumed
  run of a clone's copy has looked for the receipt and begun to copy the part
  again. A part split by blocks has nothing to delete by and relies "on the target
  transaction alone" (`copy/copy.go:637`; README line 650: "An unfinished chunk rolls back"), so
  its rows are there twice (`overtaken`); under a primary key the build of that index
  then fails. The retries within one run do handle their own lost COMMITs.

`CopyExact` contains both as exceptions and would be violated without either of them.

Replay:

* A fresh batch with a serial barrier does become a claim when some epoch has two
  lanes (`cdc/applier.go:934`; the comment at line 826 says it stays serial). The claim is
  correct: `replay_barriers`.
* A change of the primary key under REPLICA IDENTITY USING INDEX is not visible in the
  stream; the upsert by primary key (`cdc/applier.go:3258`) then fails on the unique index
  or on its count. Preflight (`preflight/preflight.go:493`) admits such relations.
* Two key updates in a row, the second of a key that the first has given, are inspected
  by the selective path against the rows before the chunk (`cdc/applier.go:3896`) and refused.
  In both cases the applier stops; `ReplayExact` says that nothing wrong is committed.

Index build (read off the code): `inspectIndex` joins every constraint with that
`conindid`, foreign keys included, which is safe only because indexes are complete before
foreign keys are added; a foreign key that is NOT VALID on the source is validated on
the target, and fails on every attempt if rows violate it. Any error of the probe in
`rendersAlike` (`indexbuild/indexbuild.go:724`), a lock timeout or a lost connection included,
counts as "The target cannot hold the constraint the source describes" and is reported
as a collision with a constraint that the migration itself has made; running again is
enough. `FailsForCause` names that case.

Verification:

* Candidates beyond `RowThreshold` are never read again and yet counted as in flight
  (`verify/localize.go:418`, `verify/verify.go:493`; the comment at `verify/verify.go:164` says that
  such a row "agreed once re-read"), so a faulty row after the first 1000 candidates can
  pass as converged.
* A right row is reported as "target_stalled" when an insert that was in flight at the
  baseline is deleted before the recheck (`verify/deferred.go:117`).
* A hot row can be reported by the heap check at the end of its budget (README line 838).
* In catchup the applier already runs, but verification has no hook to wait for it
  (`app/verify.go:132`), so that lag is reported as divergence.

Controller: a verification can start without a running `run`, and beside a restart of the
base copy (README line 398 describes it for a running migration); a killed controller
leaves its children running, and `OneMigrator` holds because of the directory's lock.

## Proofs

All theorems hold for every value of the constants that satisfies the module's named
assumptions. Most of those are types; the others:

* `SegmentLog`: a channel and a prune limit of at least 1.
* `IndexBuild` (`InventoryAssumption`): indexes, constraints, deferred objects and tables
  are different things, and the partitions of an index that backs a constraint back
  one too, as PostgreSQL has it.
* `ReplayClaim` (`LaneAssumption`): the lane of a component is below the number of lanes
  (`cdc/replay_plan.go:327` takes the hash modulo that number). Nothing else is assumed of
  the hash.
* `Verification` (`VerificationAssumption`): a table has finitely many rows, and the
  heap sample goes through a sequence of windows of them.
* `RowReplay`: `KindAssumption` says what the loaded catalog of a relation cannot
  contradict (an identity that is the primary key has one, a conflict arbiter and a
  lane too, `cdc/applier.go:1896`); `TupleAssumption` that the marks of the
  stream for a null and a value left out are no values; `StartAssumption` that the
  first rows keep the constraints.

Nothing is assumed of the faults. Every inductive invariant was
checked with TLC on the instances of the runs before it was proved.

**`SegmentLog_proofs`**

* `TypeCorrect`: `Spec => []TypeOK`. Two facts beyond the types are needed: a batch
  about to commit is not empty, and a writer step in progress has a file.
* `AckedIsKeptAlways`, `WatermarkCoversSlotAlways`, `AppliedIsDurableAlways`,
  `DirectoryRecoversAlways`, `CatalogOnDiskAlways`, all from the inductive invariant
  `LogInv`. Its parts: positions are ordered (`OrderInv`); files hold consecutive
  frames and do not overlap (`FilesInv`, `DisjointInv`); finalized files are durable
  (`FinalInv`); a partial file is the newest and, until its first frame is
  durable, the file before it is kept (`PartialInv`); what the target lacks, and the
  last frame, are in a named file (`KeptInv`); an undoable rename is that of the
  file with the last frame (`RenameInv`); the writer, the channel, the catalog and
  the batch agree with all this (`WriterInv`, `ChanInv`, `CatalogInv`, `GateInv`).

The argument for `WatermarkCoversSlot` shows why the parts depend on each other.
After a restart the watermark is the last frame found in the directory. That it
is the last frame ever written needs `KeptInv`, which a prune keeps only because it
removes files whose frames are all older than the applied position and an
undone removal or rename stays consistent with the names (`RenameInv`); that a
crash leaves the last surviving frame in a named file needs `PartialInv`'s clause
about the file before the tail. The channel part is needed to know that the
next frame appended is the successor of the last one, hence that no
transaction between them is missing.

* `ExactlyOnceAlways`, `ReaderNotStrandedAlways`, from `ReaderInv` on top of `LogInv`. The
  reader works on a listing that rotation and pruning make stale. `SnapInv` says how
  stale it can be: a listed name that is gone was a whole file, and what is not listed is
  newer than all that is. From it follows `AheadInv`, that each transaction of the log
  beyond the batch is in the rest of the open file or in a file yet to be opened, and
  `PastInv`, that nothing of a batch is there. The next frame read is thus the successor
  of the last one, and the target's history is 1, 2, 3 and so on (`AppliedInv`). `OpenInv` is
  why the reader is not stranded: a file open as partial still has its name, and the
  files after it hold only what is beyond the durability gate.

**`Cutover_proofs`** proves type correctness and seven invariants for every number of
positions, commits and failures, from `CutoverInv`, which says for each place of the
command what holds there: that it works with the recorded end position and has
drained to it (`EndInv`), which phase and markers it has (`PhaseInv`), what is left on
the servers (`ObjectsInv`) and on disk (`ReportInv`), and that the target's metadata is
dropped only in the last phase (`RunInv`); `LogInv` orders the positions. No property
is inductive alone. `SlotOutlivesStream`, for one, needs that the command reaches its
drop only in the cutover phase, that this phase implies a marked drain, that the
position it drained to is still the recorded one (a restarted run may have tried
to record another), and that progress never moves back, for which a collected batch
must lie ahead of it.

**`BaseCopy_proofs`**

* `SourceIsSafeAlways`, from `SafeInv`: which phase each step belongs to (`PlaceInv`), that
  every relation at FULL is on record and all are before the publication exists
  (`IdentityInv`), that each path of the reset that comes to the identities has dropped slot
  and publication, also the one that found neither `snapshot.json` nor a recorded point
  (`StreamInv`), and that settings are recorded first and put back before the record goes
  (`TuningInv`).
* `CleanSlateAlways`, from the order in which the reset removes things (`CleanInv`), on top of
  `SafeInv`: once the state says preflight, the source, the directory and the tables have
  nothing of the old attempt, and the metadata just what a failed DROP SCHEMA left.
* `CopyExactAlways`, from `CopyInv` on top of these. Its parts say in which steps a
  recorded position exists and equals the position that the run copies at
  (`PointInv`), that the segments hold exactly what follows it (`SegmentInv`), where a
  transaction of a dead run can still be in flight (`OrphanInv`: only while the tables are
  there; a part that a worker copies in its view has neither rows nor such a rival; of
  one that has its receipt at most one more transaction is open, so that its rows can
  double but not triple), that a table has a part's rows once exactly when it has a
  receipt that no reset left behind, and twice only where such a transaction
  landed (`RowsInv`), and that a finished copy stays until its stream is missing
  (`PastInv`). `IdentityKnown` is inductive on top of them.
* `KeepsWorkAlways`, an action property, from the conjunction of them all with what a part
  being copied cannot have (`WorkInv`) and what a clone's copy keeps (`KeepInv`).

**`IndexBuild_proofs`**: `TargetCompleteAlways`, `FailsForCauseAlways` and the action property
`CompletesOwnAlways`, from `BuildInv`. It says what each step of a worker knows about its
job (`WorkInv`) although statements of dead workers may land at any moment (`StrayInv`),
that two workers never have the same job (`ApartInv`), that each job of a stage is
waiting, held or finished unless the attempt has failed (`JobsInv`), which is what the
end of a stage rests on, and what earlier stages have left (`PastInv`). Facts that
somebody else's change can make untrue are kept apart (`OwnInv`); `FailsForCause` needs them.
`AloneInv` and `CalmInv` are for the failed probe: it happens in a stage in which one worker
holds a job at a time, so nobody marks or records anything between it and the end of
the attempt.

**`ReplayClaim_proofs`**

* `FrontierExactAlways` and `ReplayImplementsTarget`, from `ReplayInv`. While a claim is
  active its fence is the generation in effect and progress still has the one it
  replaced, which shuts out every serial commit (`ClaimInv`). A work transaction, whoever
  sent it, is too late, because progress has passed the start of its claim, or its claim
  is active and all work of earlier steps has receipts (`ServerInv`). `OnceInv` ties the
  history to progress and receipts.
* The order of conflicts is a fact about the plan: of two conflicting transactions of a
  batch the later one is in a later step, or in the same work row (`ConflictOrder`). It
  rests on the fact that a component, the smallest set that no shared key leaves, is the
  same for all its members (`ComponentSame`). One step of the target then applies
  a set of transactions that has, with each of them, all earlier ones it conflicts with
  (`SetApplied`), in their order (`InOrderIs`).
* `UndisturbedNeverFailsAlways`, from `Calm`: as long as nothing is lost, every transaction in
  flight is the applier's own, and for each place of the applier the target is as it
  last heard. It needs that units of work are equal or disjoint (`UnitsApart`), so that a
  unit about to begin has no receipt, and that a fence is never reused (`Rest`).

**`Verification_proofs`**: `LagIsNotDivergenceAlways`, `StalledForCauseAlways`,
`VerdictIsSoundAlways`, from `VerifyInv`. A result under way carries the positions its reads
were made at; the invariant says, for each step of a worker and of the rechecker, which
rows it can still report or has passed, as a relation between those positions, the
writes after them and the target's faults (`PoolInv`). After the wait the target has all
changes up to the marker, which was taken after the source was read; a row that differs
then is faulty or has been written since. `OutcomeInv` says that a verdict is given when nobody works any
more and every result is complete.

**`Controller_proofs`**: `ControllerInv` adds to the properties what the tabs were shown
(`ShownInv`: within a generation a revision stands for one configuration) and what the
children hold (`WorkerInv`: a child past the lock is the lock's holder, ids are unique).
`ReviewedConfig` rests on the first, since a request is compared by generation and
revision only; `OneMigrator` on the second. `KeepsWorkAlways` is an action property and
follows from the same invariant.

**`RowReplay_proofs`**: `ReplayExactAlways` and `DivergesOnlyWhereAlways`, about replay outside of
claims (the lanes of a claim are not in the module), for any relations
and kinds, columns with any values, any legal history, any cut of it into batches, and
any limit on the rows of a statement. The argument has four layers.

* *Changes.* `LogInv` says that the stream is the source's history: each change takes the
  rows before it to the rows after it (`Step`), and its tuples say of them what the
  stream says (`Entry`): the key of the old row, the values of the new one or a mark
  where nothing changed, and no changed primary key that they do not show, except
  under an identity that is another index.
* *Statements.* Changes of one relation that follow each other are a `Trace` of tables.
  For each form of statement a lemma says what it leaves when it gets the changes of
  a trace: `InsertsAre`, `UpsertsAre`, `UpdateIs`, `UpdatesAre` and `DeletesAre` have the last
  table of the trace. Here lies what the code's premises are for. A batched update
  looks all its rows up in the first table, so the rows must be distinct under the
  columns it looks them up by (`DistinctIs`), and no order of its rows may collide, so
  it may touch no unique column (`UpdatesAre` uses `BatchSafe` for all subsets of them).
  `UpdatesMove` and `InspectedIs` show that a selective chunk finds the rows which it
  inspects unless one was moved to another key within it: the second known case.
* *The plan.* In the middle of a target transaction each relation is at a change of its
  own (`Reached`): its rows are the source's after that change, and the plan has just the
  later ones, in their order (`PlanInv`). Lanes may change places, since a relation's
  changes never do (`LanesKeepOrder`), and the changes of others leave a relation
  alone (`Frame`). So the changes at the head of the plan are a trace from the rows the
  applier sees (`TraceOf`), and after the statement `PlanInv` holds again (`Advance`).
  With an empty plan every relation is where the last transaction left it
  (`CommitKeeps`).
* *Calls.* `CallInv` carries what is known between two statements of one call: the
  updates left are of one relation, and a mask is exactly what its update changes
  (`MaskIs`), also after earlier updates of the chunk were issued.

`ReplayExact` alone is not inductive, since it says nothing while a transaction is open.
The least element of a set of numbers (`LeastOf`, from the well-foundedness of `Nat`)
takes the place of inductions over the length of a run: a failure would have a first place.

**Sequences** (in `Cutover_proofs`): `OffsetIsRoomAlways`, from `SyncInv`, for sequences with any
increments. A value is replaced by its distance from the first one in the direction of its
sequence (`Ord`), so that one argument serves both directions: what the source has given
lies before `used`, what was read lies the offset beyond the source's place at the
time, and what the target gives starts there, or not at all at the limit.

Only model-checked is liveness (`Completes`, `Finishes`, `EventuallyApplied`,
`EventuallyReplayed`, `Ends`, `EventuallyCutover`, `StopEnds`): fairness is out of the
prover's reach.

## Not modelled

* Decoder, codec and spill files: byte formats, sequential and pure; a frame is a
  transaction, complete or torn.
* The CDC row sampler only chooses which changed rows are recorded; `Verification` takes
  the choice as given.
* Preflight, collation and filters: read-only queries and messages before anything is
  changed. What they refuse is a precondition of the other modules.
* Command line, status output, metrics: argument parsing and formatting.
* The lanes of a claim as row changes: the dropping of replaced updates and the grouping
  by relation in `cdc/replay_execute.go:399` (see `RowReplay`). `ReplayClaim` has a work as one
  unit, so what it shows does not depend on them; that the rows come out right there is
  not checked.
* Between the creation of a segment file and the fsync of its directory
  (`cdc/segment.go:393`) nothing else happens in `SegmentLog`. A new file that a power failure
  keeps or loses there is empty either way. One case is not covered: a process killed
  between a rename and its directory fsync, started again (`OpenWriter` does not
  fsync the directory), and a power failure right after it created the next segment,
  on a file system that keeps the later creation and loses the earlier rename.
  Recovery would then refuse two partial segments (`cdc/segment.go:638`). File systems that
  journal the operations on a directory in order do not do this.
* Of the state store, its schema and the inventory it shows; of tuning, the values
  derived from the target's memory.

## Plan

Every safety property and action property that a passing run checks is proved. The next
thing to add is the lane of a claim in `RowReplay`: a fourth path whose plan is ordered by
relation and lacks the replaced updates, for which `PlanInv` has to let a plan skip an update
that a later one of the plan overwrites. After it come the decoder and the spill files as
sources of partial frames, and a target catalog that changes under a claim
(`cdc/applier.go:834`); a property covers none of these yet.
