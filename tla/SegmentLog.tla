----------------------------- MODULE SegmentLog -----------------------------
(***************************************************************************)
(* The durable CDC path of `pgmigrate run`: the receiver that consumes the *)
(* source's logical replication slot, the bounded channel, the persister   *)
(* and segment writer that make transactions durable, the reader and       *)
(* applier that replay them on the target, the pruner that deletes applied *)
(* segments, and what a crash leaves of all of them on disk.               *)
(*                                                                         *)
(* A transaction is its position in the source's commit order; LSNs are    *)
(* only ever compared, so CommitLSN and EndLSN of transaction t are t.  A  *)
(* segment is named by the CommitLSN of the first frame written to it.     *)
(* Segment sizes are abstracted: any appended frame may fill its segment.  *)
(* A file holds the set of its complete frames (AppendFrame refuses a      *)
(* frame that does not follow the last one, so file order is LSN order).   *)
(***************************************************************************)
EXTENDS Integers, Sequences, FiniteSets

CONSTANTS
  N,          \* number of transactions the source commits
  ChanCap,    \* capacity of the receiver-to-persister channel
  MaxRemove,  \* SegmentPrunerConfig.MaxRemoveSegments
  MaxCrash,   \* bound on process exits and crashes
  MaxDrop     \* bound on dropped source and target connections

ASSUME ConstAssumption ==
  /\ N \in Nat
  /\ ChanCap \in Nat \ {0}
  /\ MaxRemove \in Nat \ {0}
  /\ MaxCrash \in Nat
  /\ MaxDrop \in Nat

VARIABLES
  committed,  \* source: transactions committed so far
  confirmed,  \* source: confirmed_flush_lsn of the slot
  session,    \* receiver: "up" while a replication session is open
  sentTo,     \* source walsender: last transaction sent in this session
  chan,       \* decoded transactions waiting for the persister
  wpc,        \* persister: step of the AppendFrame call in progress
  wcur,       \* persister: the transaction or segment that step is about
  wtail,      \* Writer.partialPath: name of the open segment, 0 if none
  wlast,      \* last complete frame on disk: Writer.lastEndLSN while up
              \* (pendingEndLSN is always the same)
  wdur,       \* Writer.durableEndLSN
  unsynced,   \* Persister.Run: unsyncedBytes > 0
  watermark,  \* DurableWatermark
  names,      \* directory: segment names present
  final,      \* directory: names carrying .seg rather than .seg.partial
  frames,     \* file contents, kept for unlinked files still open
  torn,       \* an incomplete frame follows the last one of the tail
  synced,     \* disk: frames up to this one survive a power failure
  renamed,    \* disk: a rename no directory fsync has covered yet, or 0
  unlinked,   \* disk: removals no directory fsync has covered yet
  catalog,    \* SegmentCatalog.finalized
  latest,     \* SegmentPruner.latest
  ppc,        \* pruner: "dirsync" between the removals and the fsync
  prem,       \* pruner: what this prune call removed
  rsnap,      \* Reader.segments: names in the reader's snapshot
  rpart,      \* Reader.segments: those listed as .partial
  rat,        \* Reader.index: the current segment, 0 past the last one
  ropen,      \* Reader.file is open
  rpos,       \* Reader: last frame read from the open file
  rpend,      \* Reader.pending: transaction held back, or 0
  rdur,       \* Reader.durableEndLSN
  apc,        \* applier: "down", "refresh", "read" or "apply"
  batch,      \* applier: transactions collected for one target commit
  progress,   \* applier: its copy of the target progress
  target,     \* target: replication_progress LSN (authoritative)
  done,       \* target: the transactions applied to its tables, in order
  up,         \* the run process is alive
  crashes,    \* exits and crashes so far
  drops       \* dropped connections so far

srcVars  == <<committed, confirmed>>
recvVars == <<session, sentTo, chan>>
wrVars   == <<wpc, wcur, wtail, wlast, wdur, unsynced, watermark>>
diskVars == <<names, final, frames, torn, synced, renamed, unlinked>>
prVars   == <<catalog, latest, ppc, prem>>
rdVars   == <<rsnap, rpart, rat, ropen, rpos, rpend, rdur>>
apVars   == <<apc, batch, progress>>
tgtVars  == <<target, done>>
envVars  == <<up, crashes, drops>>
vars == <<srcVars, recvVars, wrVars, diskVars, prVars, rdVars, apVars,
          tgtVars, envVars>>

Tx  == 1..N
LSN == 0..N

(***************************************************************************)
(* A definition named Bug... is a defect that some property of this module *)
(* must notice; nothing refers to it.                                      *)
(***************************************************************************)
\* Resuming after the next position instead of after the last one.
BugLater(a, b) == IF a >= b THEN a ELSE b + 1

\* The larger of two positions (0 is "no position").
Later(a, b) == IF a >= b THEN a ELSE b

-----------------------------------------------------------------------------
\* Sequential helpers over the directory.

\* e is the EndLSN of the newest complete frame found by scanning dir.
IsLogEnd(e, dir, content) ==
  /\ \A s \in dir : \A f \in content[s] : f <= e
  /\ e # 0 => \E s \in dir : e \in content[s]

\* s is the first name of dir at or after position p: the loops of Next and
\* Refresh that look for the next segment; 0 when there is none.
IsFirstFrom(s, p, dir) ==
  IF s = 0 THEN \A d \in dir : d < p
           ELSE s \in dir /\ s >= p /\ \A d \in dir : d >= p => s <= d

\* SegmentRange.LastEnd < applied.
Applied(s, lsn) == \A f \in frames[s] : f < lsn

\* Pruning by age alone.
BugEligible == catalog

\* Everything the target has applied is removed, the newest segment included.
BugRemovable == {s \in catalog : \A f \in frames[s] : f <= latest}

\* catalog.prune: the oldest applied finalized segments, without the newest of
\* them, at most MaxRemove in one call.
Eligible == {s \in catalog : Applied(s, latest)}
Removable == {s \in Eligible : \E e \in Eligible : s < e}

-----------------------------------------------------------------------------
VolatileInit ==
  /\ session = "down" /\ sentTo = 0 /\ chan = << >>
  /\ wpc = "idle" /\ wcur = 0 /\ wtail = 0 /\ unsynced = FALSE
  /\ latest = 0 /\ ppc = "idle" /\ prem = {} /\ catalog = {}
  /\ rsnap = {} /\ rpart = {} /\ rat = 0 /\ ropen = FALSE
  /\ rpos = 0 /\ rpend = 0 /\ rdur = 0
  /\ apc = "down" /\ batch = << >> /\ progress = 0

Init ==
  /\ committed = 0 /\ confirmed = 0
  /\ VolatileInit
  /\ wlast = 0 /\ wdur = 0 /\ watermark = 0
  /\ names = {} /\ final = {} /\ frames = [s \in Tx |-> {}]
  /\ torn = FALSE /\ synced = 0 /\ renamed = 0 /\ unlinked = {}
  /\ target = 0 /\ done = << >>
  /\ up = FALSE /\ crashes = 0 /\ drops = 0

\* A connection loss is counted against the bound on losses.
CountDrop == drops < MaxDrop /\ drops' = drops + 1 /\ UNCHANGED <<up, crashes>>

-----------------------------------------------------------------------------
(***************************************************************************)
(* Source (external): PostgreSQL commits transactions and its walsender    *)
(* sends those after the larger of the requested start and the slot's      *)
(* confirmed position.                                                     *)
(***************************************************************************)
SourceCommit ==
  /\ committed < N
  /\ committed' = committed + 1
  /\ UNCHANGED <<confirmed, recvVars, wrVars, diskVars, prVars, rdVars,
                 apVars, tgtVars, envVars>>

-----------------------------------------------------------------------------
(***************************************************************************)
(* Receiver.                                                               *)
(***************************************************************************)
\* runSession: START_REPLICATION at receiverResumeLSN, which is the watermark
\* (or the snapshot's consistent point, position 0, before the first frame).
StartSession ==
  /\ up /\ session = "down"
  /\ session' = "up"
  /\ sentTo' = Later(confirmed, watermark)
  /\ UNCHANGED <<srcVars, chan, wrVars, diskVars, prVars, rdVars, apVars,
                 tgtVars, envVars>>

\* Run: a connection error ends the session; the loop opens another one.
\* A transaction not yet handed to the channel is forgotten.
DropSession ==
  /\ up /\ session = "up"
  /\ session' = "down" /\ sentTo' = 0
  /\ CountDrop
  /\ UNCHANGED <<srcVars, chan, wrVars, diskVars, prVars, rdVars,
                 apVars, tgtVars>>

\* XLogData of one transaction is decoded and delivered to the channel.
Deliver ==
  /\ up /\ session = "up"
  /\ sentTo < committed
  /\ Len(chan) < ChanCap
  /\ sentTo' = sentTo + 1
  /\ chan' = Append(chan, sentTo + 1)
  /\ UNCHANGED <<srcVars, session, wrVars, diskVars, prVars, rdVars, apVars,
                 tgtVars, envVars>>

\* Appended but unsynced transactions are reported.
BugFeedback ==
  /\ up /\ session = "up"
  /\ confirmed' = Later(confirmed, wlast)
  /\ UNCHANGED <<committed, recvVars, wrVars, diskVars, prVars, rdVars,
                 apVars, tgtVars, envVars>>

\* feedback: the watermark is reported as written, flushed and applied; the
\* slot never moves backward.
Feedback ==
  /\ up /\ session = "up"
  /\ confirmed' = Later(confirmed, watermark)
  /\ UNCHANGED <<committed, recvVars, wrVars, diskVars, prVars, rdVars,
                 apVars, tgtVars, envVars>>

-----------------------------------------------------------------------------
(***************************************************************************)
(* Persister and segment writer.                                           *)
(***************************************************************************)
\* A replayed transaction that is already in the log is dropped, whether or
\* not it has been fsynced.
DiscardDuplicate ==
  /\ up /\ wpc = "idle" /\ chan # << >>
  /\ Head(chan) <= wlast
  /\ chan' = Tail(chan)
  /\ watermark' = Later(watermark, wdur)
  /\ UNCHANGED <<srcVars, session, sentTo, wpc, wcur, wtail, wlast, wdur,
                 unsynced, diskVars, prVars, rdVars, apVars, tgtVars, envVars>>

\* AppendFrame up to the frame header (or the zero placeholder of a streamed
\* frame).  A writer without an open segment creates one named by this
\* transaction and fsyncs the directory first.
BeginFrame ==
  /\ up /\ wpc = "idle" /\ chan # << >>
  /\ Head(chan) > wlast
  /\ wpc' = "frame" /\ wcur' = Head(chan)
  /\ chan' = Tail(chan)
  /\ IF wtail = 0
     THEN /\ wtail' = Head(chan)
          /\ names' = names \cup {Head(chan)}
          /\ frames' = [frames EXCEPT ![Head(chan)] = {}]
          /\ renamed' = 0 /\ unlinked' = {}
     ELSE UNCHANGED <<wtail, names, frames, renamed, unlinked>>
  /\ torn' = TRUE
  /\ UNCHANGED <<srcVars, session, sentTo, wlast, wdur, unsynced, watermark,
                 final, synced, prVars, rdVars, apVars, tgtVars, envVars>>

\* The frame is complete.  It fills the segment, or it does not.
FinishFrame ==
  /\ up /\ wpc = "frame"
  /\ frames' = [frames EXCEPT ![wtail] = @ \cup {wcur}]
  /\ torn' = FALSE
  /\ wlast' = wcur
  /\ unsynced' = TRUE
  /\ \E full \in BOOLEAN :
       /\ wpc' = IF full THEN "rotate" ELSE "idle"
       /\ wcur' = IF full THEN wtail ELSE 0
  /\ UNCHANGED <<srcVars, recvVars, wtail, wdur, watermark, names, final,
                 synced, renamed, unlinked, prVars, rdVars, apVars, tgtVars,
                 envVars>>

\* rotateLocked: fsync the segment,
RotateSync ==
  /\ up /\ wpc = "rotate"
  /\ wpc' = "rename"
  /\ wdur' = wlast /\ synced' = wlast
  /\ UNCHANGED <<srcVars, recvVars, wcur, wtail, wlast, unsynced, watermark,
                 names, final, frames, torn, renamed, unlinked, prVars,
                 rdVars, apVars, tgtVars, envVars>>

\* The rename is forgotten.
BugRotateRename ==
  /\ up /\ wpc = "rename"
  /\ wpc' = "dirsync"
  /\ wtail' = 0
  /\ UNCHANGED <<srcVars, recvVars, wcur, wlast, wdur, unsynced, watermark,
                 diskVars, prVars, rdVars, apVars, tgtVars, envVars>>

\* close it and rename it from .seg.partial to .seg,
RotateRename ==
  /\ up /\ wpc = "rename"
  /\ wpc' = "dirsync"
  /\ final' = final \cup {wcur} /\ renamed' = wcur
  /\ wtail' = 0
  /\ UNCHANGED <<srcVars, recvVars, wcur, wlast, wdur, unsynced, watermark,
                 names, frames, torn, synced, unlinked, prVars, rdVars,
                 apVars, tgtVars, envVars>>

\* fsync the directory, and only then publish the range to the pruner.
RotateDirSync ==
  /\ up /\ wpc = "dirsync"
  /\ wpc' = "idle" /\ wcur' = 0
  /\ renamed' = 0 /\ unlinked' = {}
  /\ catalog' = catalog \cup {wcur}
  /\ UNCHANGED <<srcVars, recvVars, wtail, wlast, wdur, unsynced, watermark,
                 names, final, frames, torn, synced, latest, ppc, prem,
                 rdVars, apVars, tgtVars, envVars>>

\* Group fsync, by byte count or by timer, then publication of the watermark.
\* Without an open file rotation has already fsynced everything.
PersisterSync ==
  /\ up /\ wpc = "idle" /\ unsynced
  /\ wdur' = IF wtail = 0 THEN wdur ELSE wlast
  /\ synced' = IF wtail = 0 THEN synced ELSE wlast
  /\ watermark' = Later(watermark, wdur')
  /\ unsynced' = FALSE
  /\ UNCHANGED <<srcVars, recvVars, wpc, wcur, wtail, wlast, names, final,
                 frames, torn, renamed, unlinked, prVars, rdVars, apVars,
                 tgtVars, envVars>>

-----------------------------------------------------------------------------
(***************************************************************************)
(* Applier and segment reader.                                             *)
(***************************************************************************)
\* runConnection up to its loop: target progress is read back, the pruner is
\* told, and a new reader lists the directory.
ApplierConnect ==
  /\ up /\ apc = "down"
  /\ apc' = "refresh" /\ batch' = << >> /\ progress' = target
  /\ latest' = Later(latest, target)
  /\ rsnap' = names /\ rpart' = names \ final
  /\ \E s \in LSN : IsFirstFrom(s, 0, names) /\ rat' = s
  /\ ropen' = FALSE /\ rpos' = 0 /\ rpend' = 0 /\ rdur' = watermark
  /\ UNCHANGED <<srcVars, recvVars, wrVars, diskVars, catalog, ppc, prem,
                 tgtVars, envVars>>

\* Refresh: a new listing is adopted unless the open segment has vanished
\* from it; a reader past its last segment moves to the first newer one.
Refresh ==
  /\ up /\ apc = "refresh"
  /\ apc' = "read" /\ rdur' = watermark
  /\ IF ropen
     THEN IF rat \in names
          THEN rsnap' = names /\ rpart' = names \ final /\ UNCHANGED rat
          ELSE UNCHANGED <<rsnap, rpart, rat>>
     ELSE /\ rsnap' = names /\ rpart' = names \ final
          /\ \E s \in LSN :
               /\ rat' = s
               /\ \/ rat # 0 /\ IsFirstFrom(s, 0, names)  \* index still 0
                  \/ rat = 0 /\ rsnap = {} /\ IsFirstFrom(s, 0, names)
                  \/ /\ rat = 0
                     /\ \E m \in rsnap : /\ \A d \in rsnap : d <= m
                                         /\ IsFirstFrom(s, m + 1, names)
  /\ UNCHANGED <<srcVars, recvVars, wrVars, diskVars, prVars, ropen, rpos,
                 rpend, batch, progress, tgtVars, envVars>>

Reading == up /\ apc = "read"

\* Next, no file open: open the current segment under the name the snapshot
\* has for it.
ReaderOpen ==
  /\ Reading /\ rpend = 0 /\ ~ropen /\ rat # 0
  /\ rat \in names /\ (rat \in rpart <=> rat \notin final)
  /\ ropen' = TRUE /\ rpos' = 0
  /\ UNCHANGED <<srcVars, recvVars, wrVars, diskVars, prVars, rsnap, rpart,
                 rat, rpend, rdur, apVars, tgtVars, envVars>>

\* Next: the name is gone (renamed by rotation or unlinked by the pruner);
\* list again and continue at the first segment not before it.
ReaderRelist ==
  /\ Reading /\ rpend = 0 /\ ~ropen /\ rat # 0
  /\ ~(rat \in names /\ (rat \in rpart <=> rat \notin final))
  /\ rsnap' = names /\ rpart' = names \ final
  /\ \E s \in LSN : IsFirstFrom(s, rat, names) /\ rat' = s
  /\ UNCHANGED <<srcVars, recvVars, wrVars, diskVars, prVars, ropen, rpos,
                 rpend, rdur, apVars, tgtVars, envVars>>

\* t is the next complete frame of the open file.
NextFrame(t) ==
  /\ t \in frames[rat] /\ t > rpos
  /\ \A f \in frames[rat] : f > rpos => t <= f

\* The last transaction of the target's progress is not skipped.
BugReceive(t) ==
  \/ /\ t < progress
     /\ rpend' = 0
     /\ UNCHANGED <<apc, batch>>
  \/ /\ t >= progress
     /\ batch' = Append(batch, t)
     /\ rpend' = 0
     /\ apc' \in {"read", "apply"}

\* applyFromReader receives t: it is skipped if the target has it, joins the
\* batch (and may fill it), or is handed back because the batch must go first.
Receive(t) ==
  \/ /\ t <= progress
     /\ rpend' = 0
     /\ UNCHANGED <<apc, batch>>
  \/ /\ t > progress
     /\ batch' = Append(batch, t)
     /\ rpend' = 0
     /\ apc' \in {"read", "apply"}
  \/ /\ t > progress /\ batch # << >>
     /\ rpend' = t
     /\ apc' = "apply"
     /\ UNCHANGED batch

\* Only full batches are applied.
BugEndOfInput == apc' = "refresh" /\ UNCHANGED <<batch, progress>>

\* Next returned io.EOF: apply what was collected, or poll again.
EndOfInput ==
  /\ apc' = IF batch = << >> THEN "refresh" ELSE "apply"
  /\ UNCHANGED <<batch, progress>>

\* Next reads a complete frame at or below the durability gate.
ReaderFrame ==
  /\ Reading /\ rpend = 0 /\ ropen
  /\ \E t \in Tx :
       /\ NextFrame(t) /\ rpos' = t
       /\ t <= rdur /\ Receive(t)
  /\ UNCHANGED <<srcVars, recvVars, wrVars, diskVars, prVars, rsnap, rpart,
                 rat, ropen, rdur, progress, tgtVars, envVars>>

\* Next reads a frame above the gate: held back until the gate moves.
ReaderGate ==
  /\ Reading /\ rpend = 0 /\ ropen
  /\ \E t \in Tx :
       /\ NextFrame(t) /\ rpos' = t
       /\ t > rdur /\ rpend' = t
  /\ EndOfInput
  /\ UNCHANGED <<srcVars, recvVars, wrVars, diskVars, prVars, rsnap, rpart,
                 rat, ropen, rdur, tgtVars, envVars>>

\* A transaction held back is returned without asking the gate again.
BugReaderPending ==
  /\ Reading /\ rpend # 0
  /\ Receive(rpend) /\ UNCHANGED progress
  /\ UNCHANGED <<srcVars, recvVars, wrVars, diskVars, prVars, rsnap, rpart,
                 rat, ropen, rpos, rdur, tgtVars, envVars>>

\* Next finds a transaction held back by an earlier call.
ReaderPending ==
  /\ Reading /\ rpend # 0
  /\ IF rpend <= rdur THEN Receive(rpend) /\ UNCHANGED progress
                      ELSE EndOfInput /\ UNCHANGED rpend
  /\ UNCHANGED <<srcVars, recvVars, wrVars, diskVars, prVars, rsnap, rpart,
                 rat, ropen, rpos, rdur, tgtVars, envVars>>

\* Next at the end of a finalized segment: close it and go to the next one of
\* the snapshot.
ReaderNextSegment ==
  /\ Reading /\ rpend = 0 /\ ropen
  /\ rat \notin rpart /\ \A f \in frames[rat] : f <= rpos
  /\ ropen' = FALSE /\ rpos' = 0
  /\ \E s \in LSN : IsFirstFrom(s, rat + 1, rsnap) /\ rat' = s
  /\ UNCHANGED <<srcVars, recvVars, wrVars, diskVars, prVars, rsnap, rpart,
                 rpend, rdur, apVars, tgtVars, envVars>>

\* Next at the end of a partial segment (complete frames exhausted, possibly
\* an incomplete one in front), or past the last segment.
ReaderEOF ==
  /\ Reading /\ rpend = 0
  /\ \/ ropen /\ rat \in rpart /\ \A f \in frames[rat] : f <= rpos
     \/ ~ropen /\ rat = 0
  /\ EndOfInput
  /\ UNCHANGED <<srcVars, recvVars, wrVars, diskVars, prVars, rdVars,
                 tgtVars, envVars>>

\* runConnection returned: its reader, batch and progress copy are gone.
ApplierReset ==
  /\ apc' = "down" /\ batch' = << >> /\ progress' = 0
  /\ rsnap' = {} /\ rpart' = {} /\ rat' = 0 /\ ropen' = FALSE
  /\ rpos' = 0 /\ rpend' = 0 /\ rdur' = 0

\* The batch and the progress row commit in one target transaction.
TargetCommit ==
  /\ target' = batch[Len(batch)]
  /\ done' = done \o batch

\* The applier learns of the commit, tells the pruner and loops.
ApplyCommit ==
  /\ up /\ apc = "apply"
  /\ TargetCommit
  /\ progress' = target' /\ latest' = Later(latest, target')
  /\ batch' = << >> /\ apc' = "refresh"
  /\ UNCHANGED <<srcVars, recvVars, wrVars, diskVars, catalog, ppc, prem,
                 rdVars, envVars>>

\* The commit succeeds but its acknowledgement is lost with the connection.
ApplyLostAck ==
  /\ up /\ apc = "apply"
  /\ TargetCommit
  /\ ApplierReset
  /\ CountDrop
  /\ UNCHANGED <<srcVars, recvVars, wrVars, diskVars, prVars>>

\* The target connection fails anywhere else.
ApplierDrop ==
  /\ up /\ apc # "down"
  /\ ApplierReset
  /\ CountDrop
  /\ UNCHANGED <<srcVars, recvVars, wrVars, diskVars, prVars, tgtVars>>

-----------------------------------------------------------------------------
(***************************************************************************)
(* Pruner: SegmentCatalog.prune.                                           *)
(***************************************************************************)
\* Every cataloged file must be on disk; then the oldest applied segments are
\* unlinked, the newest applied one staying as a safety segment.
PruneRemove ==
  /\ up /\ ppc = "idle"
  /\ catalog \subseteq names
  /\ \E rem \in (SUBSET Removable) \ {{}} :
       /\ \A s \in rem : \A d \in Removable : d < s => d \in rem
       /\ Cardinality(rem) <= MaxRemove
       /\ rem = Removable \/ Cardinality(rem) = MaxRemove
       /\ prem' = rem
       /\ names' = names \ rem
       /\ unlinked' = unlinked \cup rem
  /\ ppc' = "dirsync"
  /\ UNCHANGED <<srcVars, recvVars, wrVars, final, frames, torn, synced,
                 renamed, catalog, latest, rdVars, apVars, tgtVars, envVars>>

\* The catalog keeps what was removed.
BugPruneDirSync ==
  /\ up /\ ppc = "dirsync"
  /\ ppc' = "idle" /\ prem' = {}
  /\ renamed' = 0 /\ unlinked' = {}
  /\ UNCHANGED <<srcVars, recvVars, wrVars, names, final, frames, torn,
                 synced, catalog, latest, rdVars, apVars, tgtVars, envVars>>

\* The directory fsync covers the removals; the catalog then forgets them.
PruneDirSync ==
  /\ up /\ ppc = "dirsync"
  /\ ppc' = "idle" /\ prem' = {}
  /\ catalog' = catalog \ prem
  /\ renamed' = 0 /\ unlinked' = {}
  /\ UNCHANGED <<srcVars, recvVars, wrVars, names, final, frames, torn,
                 synced, latest, rdVars, apVars, tgtVars, envVars>>

-----------------------------------------------------------------------------
(***************************************************************************)
(* Exit, crash and restart of the run process.                             *)
(***************************************************************************)
\* What a process holds in memory is gone with it.
VolatileReset ==
  /\ session' = "down" /\ sentTo' = 0 /\ chan' = << >>
  /\ wpc' = "idle" /\ wcur' = 0 /\ wtail' = 0 /\ unsynced' = FALSE
  /\ latest' = 0 /\ ppc' = "idle" /\ prem' = {} /\ catalog' = {}
  /\ ApplierReset

Down ==
  /\ up /\ crashes < MaxCrash
  /\ up' = FALSE /\ crashes' = crashes + 1 /\ UNCHANGED drops
  /\ VolatileReset

\* An orderly exit: a signal, backpressure, a pruner error, or an I/O error of
\* the append in progress (rollbackFrameLocked truncates its frame).  The
\* deferred Writer.Close fsyncs the tail.
Exit ==
  /\ Down
  /\ synced' = IF wtail = 0 THEN synced ELSE wlast
  /\ torn' = FALSE
  /\ UNCHANGED <<srcVars, wlast, wdur, watermark, names, final, frames,
                 renamed, unlinked, tgtVars>>

\* A kill or a power failure.  The tail keeps its fsynced frames and any prefix
\* of the others, perhaps followed by an incomplete frame; directory changes
\* that no fsync covered may be undone.
Crash ==
  /\ Down
  /\ \E k \in synced..wlast :
       /\ frames' = [s \in Tx |-> IF s \in final THEN frames[s]
                                  ELSE {f \in frames[s] : f <= k}]
       /\ wlast' = k
  /\ torn' \in {FALSE, wtail # 0}
  /\ \/ UNCHANGED <<final, renamed>>
     \/ final' = final \ {renamed} /\ renamed' = 0
  /\ \E back \in SUBSET unlinked :
       names' = names \cup back /\ unlinked' = unlinked \ back
  /\ UNCHANGED <<srcVars, wdur, watermark, synced, tgtVars>>

\* recoverDirectoryWithConfig refuses a directory with two partial segments,
\* or with a finalized one after the partial.
RecoverableDirectory ==
  \A p \in names \ final : \A s \in names : s <= p

\* OpenWriter and NewPersister: the partial tail is truncated at its first
\* invalid frame and fsynced, the writer resumes after the last valid one and
\* the watermark is published from it; finalized segments are cataloged.
Restart ==
  /\ ~up
  /\ RecoverableDirectory
  /\ up' = TRUE /\ UNCHANGED <<crashes, drops>>
  /\ \E e \in LSN :
       /\ IsLogEnd(e, names, frames)
       /\ wlast' = e /\ wdur' = e /\ watermark' = e /\ synced' = e
  /\ wtail' \in names \cup {0}
  /\ IF wtail' = 0 THEN names \subseteq final ELSE wtail' \notin final
  /\ torn' = FALSE
  /\ catalog' = names \cap final
  /\ UNCHANGED <<srcVars, recvVars, wpc, wcur, unsynced, names, final,
                 frames, renamed, unlinked, latest, ppc, prem, rdVars,
                 apVars, tgtVars>>

-----------------------------------------------------------------------------
Receiver == StartSession \/ Deliver \/ Feedback

Persister == \/ DiscardDuplicate \/ BeginFrame \/ FinishFrame
             \/ RotateSync \/ RotateRename \/ RotateDirSync \/ PersisterSync

Applier == \/ ApplierConnect \/ Refresh
           \/ ReaderOpen \/ ReaderRelist \/ ReaderFrame \/ ReaderGate
           \/ ReaderPending \/ ReaderNextSegment \/ ReaderEOF
           \/ ApplyCommit

Pruner == PruneRemove \/ PruneDirSync

Fault == DropSession \/ ApplyLostAck \/ ApplierDrop \/ Exit \/ Crash

Next == SourceCommit \/ Receiver \/ Persister \/ Applier \/ Pruner \/ Fault
        \/ Restart

Spec == Init /\ [][Next]_vars

\* Every goroutine of the run process keeps being scheduled, connections are
\* reopened and the supervisor restarts a process that died.  Nothing is
\* assumed of the source's commits or of faults.
Fairness ==
  /\ WF_vars(StartSession) /\ WF_vars(Deliver)
  /\ WF_vars(Persister) /\ WF_vars(Applier) /\ WF_vars(Restart)

FairSpec == Spec /\ Fairness

-----------------------------------------------------------------------------
(***************************************************************************)
(* Properties.                                                             *)
(***************************************************************************)
SrcType  == committed \in LSN /\ confirmed \in LSN
RecvType == session \in {"up", "down"} /\ sentTo \in LSN /\ chan \in Seq(Tx)
WrType   == /\ wpc \in {"idle", "frame", "rotate", "rename", "dirsync"}
            /\ wcur \in LSN /\ wtail \in LSN /\ wlast \in LSN /\ wdur \in LSN
            /\ unsynced \in BOOLEAN /\ watermark \in LSN
DiskType == /\ names \subseteq Tx /\ final \subseteq Tx
            /\ frames \in [Tx -> SUBSET Tx] /\ torn \in BOOLEAN
            /\ synced \in LSN /\ renamed \in LSN /\ unlinked \subseteq Tx
PrType   == /\ catalog \subseteq Tx /\ latest \in LSN
            /\ ppc \in {"idle", "dirsync"} /\ prem \subseteq Tx
RdType   == /\ rsnap \subseteq Tx /\ rpart \subseteq Tx /\ rat \in LSN
            /\ ropen \in BOOLEAN
            /\ rpos \in LSN /\ rpend \in LSN /\ rdur \in LSN
ApType   == /\ apc \in {"down", "refresh", "read", "apply"}
            /\ batch \in Seq(Tx) /\ progress \in LSN
TgtType  == target \in LSN /\ done \in Seq(Tx)
EnvType  == up \in BOOLEAN /\ crashes \in 0..MaxCrash /\ drops \in 0..MaxDrop

\* Every variable has its type.
TypeOK == /\ SrcType /\ RecvType /\ WrType /\ DiskType /\ PrType
          /\ RdType /\ ApType /\ TgtType /\ EnvType

\* What the slot was told it may forget is either applied on the target or in
\* a frame of the segment directory that a power failure would leave.
AckedIsKept ==
  \A t \in 1..confirmed :
    \/ t <= target
    \/ t <= synced /\ \E s \in names : t \in frames[s]

\* A running process never resumes replication behind the slot: the watermark
\* rebuilt from the directory covers everything ever confirmed, pruned
\* segments included.
WatermarkCoversSlot == up => confirmed <= watermark

\* The target has applied exactly the transactions up to its progress row,
\* each once and in commit order.
ExactlyOnce == done = [i \in 1..target |-> i]

\* Nothing reaches the target before it is durable in the log, so a restart
\* never finds a log that ends before the target's progress.
AppliedIsDurable == target <= synced

\* OpenWriter never refuses what rotation, pruning and a crash leave.
DirectoryRecovers == RecoverableDirectory

\* A cataloged segment is always on disk when a prune starts, so the pruner's
\* "missing from disk" error cannot stop the migration.
CatalogOnDisk == ppc = "idle" => catalog \subseteq names

\* The reader never holds open an unlinked file it believes to be the growing
\* tail: it would report io.EOF forever.
ReaderNotStranded == ropen /\ rat \notin names => rat \notin rpart

\* Whatever the source commits is eventually applied, across exits, crashes
\* and lost connections.
EventuallyApplied == \A t \in Tx : committed >= t ~> target >= t
=============================================================================
