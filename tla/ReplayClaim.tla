---------------------------- MODULE ReplayClaim ----------------------------
(***************************************************************************)
(* How transactions reach the target: the serial path that commits a batch *)
(* and the progress row in one target transaction, and the replay claim,   *)
(* a durable manifest of work rows that many sessions commit independently *)
(* and that a last transaction turns into progress.                        *)
(*                                                                         *)
(* There is one applier (the state store's lock admits one run process),   *)
(* but a lost connection or a killed process leaves its target             *)
(* transactions behind: the server may still execute a COMMIT it was sent, *)
(* at any later time, beside the applier's next connection.                *)
(*                                                                         *)
(* The segment log supplies the transactions in order and retains all of   *)
(* them after the target's progress (module SegmentLog).                   *)
(***************************************************************************)
EXTENDS ReplayPlan, Sequences

CONSTANTS
  LaneCounts,  \* lane counts the configuration may ask for (1: one worker)
  MaxLose      \* bound on lost connections and killed processes

ASSUME ClaimAssumption ==
  /\ LaneCounts \subseteq Nat \ {0} /\ LaneCounts # {}
  /\ MaxLose \in Nat

\* A lane is a hash modulo the number of lanes.
ASSUME LaneAssumption ==
  \A keys \in SUBSET (Key \cup {-t : t \in Tx}), lanes \in LaneCounts \cup {1} :
    LaneHash(keys, lanes) \in 0..(lanes - 1)

VARIABLES
  gen,       \* cdc_stream_identity.stream_generation
  progress,  \* replication_progress.remote_lsn
  pgen,      \* replication_progress.stream_generation
  claim,     \* the row of cdc_replay_claims, or NoClaim
  receipts,  \* its work rows with committed_at set
  done,      \* transactions applied to the target's tables, in commit order
  srv,       \* target transactions in flight
  cpc,       \* applier: what it does next, "down" without a connection
  cid,       \* applier: number of its connection, unique among those in use
  cgen,      \* applier: effective generation it read
  cpg,       \* applier: progress generation it read
  cprog,     \* applier: its copy of progress
  clanes,    \* applier: lanes of a new claim
  cclaim,    \* applier: the batch (and claim) being applied
  cdone,     \* applier: work of the claim known to be committed
  losses     \* connections lost so far

tgtVars == <<gen, progress, pgen, claim, receipts, done>>
cliVars == <<cpc, cid, cgen, cpg, cprog, clanes, cclaim, cdone>>
vars == <<tgtVars, srv, cliVars, losses>>

\* A claim is the identity its digest stands for; its fence is unique to it.
NoClaim == [start |-> 0, end |-> 0, lanes |-> 0, sgen |-> <<0, 0, 0>>]
BaseGeneration == <<0, 0, 0>>
Fence(c) == <<c.start, c.end, c.lanes>>
Active == claim # NoClaim

\* The transactions of a set, in source order.
InOrder(S) ==
  [i \in 1..Cardinality(S) |->
     CHOOSE t \in S : Cardinality({u \in S : u <= t}) = i]

\* The unit of one target transaction: a lane, or a run of serial steps.
Unit(c, w) ==
  IF w[2] # -1 THEN {w}
  ELSE LET all == Works(c)
       IN  {v \in all :
              /\ v[2] = -1
              /\ \A x \in all : Between(x[1], v[1], w[1]) => x[2] = -1}

Units(c) == {Unit(c, w) : w \in Works(c)}

\* A definition named Bug... is a defect that some property must notice; nothing
\* refers to it.  Here: a step does not wait for the ones before it.
BugPriorIn(c, unit, d) == TRUE

\* All work of earlier steps is in done set d.
PriorIn(c, unit, d) ==
  \A w \in Works(c) : (\A v \in unit : w[1] < v[1]) => w \in d

-----------------------------------------------------------------------------
Init ==
  /\ gen = BaseGeneration /\ pgen = BaseGeneration /\ progress = 0
  /\ claim = NoClaim /\ receipts = {} /\ done = << >>
  /\ srv = {}
  /\ cpc = "down" /\ cid = 0 /\ cgen = BaseGeneration /\ cpg = BaseGeneration
  /\ cprog = 0 /\ clanes = 1 /\ cclaim = NoClaim /\ cdone = {}
  /\ losses = 0

\* x belongs to the applier's present connection.
Mine(x) == cpc # "down" /\ x.who = cid

\* The applier forgets everything; transactions it was told the outcome of are
\* over, the others are left to the server.
Forget ==
  /\ cpc' = "down" /\ cid' = 0 /\ cgen' = BaseGeneration
  /\ cpg' = BaseGeneration /\ cprog' = 0 /\ clanes' = 1
  /\ cclaim' = NoClaim /\ cdone' = {}
  /\ srv' = {x \in srv : x.st \in {"open", "commit"}}

\* The applier starts a target transaction.
Open(kind, c, ws, st) ==
  srv' = srv \cup {[kind |-> kind, c |-> c, ws |-> ws, st |-> st, who |-> cid]}

-----------------------------------------------------------------------------
(***************************************************************************)
(* Connecting.  Each read is a statement of its own.                       *)
(***************************************************************************)
\* EnsureStreamProgressIdentity reads the identity,
ConnectIdentity ==
  /\ cpc = "down"
  /\ cpc' = "identity" /\ cgen' = gen
  /\ \E i \in 1..(Cardinality(srv) + 1) :
       /\ \A x \in srv : x.who # i
       /\ \A j \in 1..(i - 1) : \E x \in srv : x.who = j
       /\ cid' = i
  /\ UNCHANGED <<tgtVars, srv, cpg, cprog, clanes, cclaim, cdone, losses>>

\* the progress row's generation,
ConnectProgressGeneration ==
  /\ cpc = "identity"
  /\ cpc' = "generation" /\ cpg' = pgen
  /\ UNCHANGED <<tgtVars, srv, cid, cgen, cprog, clanes, cclaim, cdone, losses>>

\* An active claim is not allowed for.
BugConnectValidate ==
  /\ cpc = "generation"
  /\ IF cpg = cgen
     THEN /\ cpc' = "resolve"
          /\ UNCHANGED <<srv, cid, cgen, cpg, cprog, clanes, cclaim, cdone>>
     ELSE Forget
  /\ UNCHANGED <<tgtVars, losses>>

\* and the claim, and refuses what does not fit together.
ConnectValidate ==
  /\ cpc = "generation"
  /\ IF IF Active THEN Fence(claim) = cgen /\ cpg = claim.sgen ELSE cpg = cgen
     THEN /\ cpc' = "resolve"
          /\ UNCHANGED <<srv, cid, cgen, cpg, cprog, clanes, cclaim, cdone>>
     ELSE Forget
  /\ UNCHANGED <<tgtVars, losses>>

\* resolveStreamEffectiveGeneration reads the identity again.
ConnectResolve ==
  /\ cpc = "resolve"
  /\ cpc' = "progress" /\ cgen' = gen
  /\ UNCHANGED <<tgtVars, srv, cid, cpg, cprog, clanes, cclaim, cdone, losses>>

\* ReadProgress, and as many workers as the configuration says.
ConnectProgress ==
  /\ cpc = "progress"
  /\ cpc' = "loop" /\ cprog' = progress /\ clanes' \in LaneCounts
  /\ UNCHANGED <<tgtVars, srv, cid, cgen, cpg, cclaim, cdone, losses>>

-----------------------------------------------------------------------------
(***************************************************************************)
(* applyFromReader: collect a batch and choose how to apply it.            *)
(***************************************************************************)
\* A fresh batch is any run of transactions after progress; a spilled one is
\* always alone.
FreshBatch(c) ==
  /\ c.end > c.start
  /\ BatchTx(c) \cap Spilled # {} => c.end = c.start + 1

\* shouldUseConcurrentReplayPlan for a fresh batch of resident transactions.
Concurrent(c) == c.lanes > 1 /\ BatchTx(c) \cap Spilled = {} /\ HasParallel(c)

\* An active claim fixes the batch; it must fit what this connection read.
Resume ==
  /\ cpc = "loop" /\ Active
  /\ IF Fence(claim) = cgen /\ claim.start = cprog
     THEN /\ cclaim' = claim /\ cpc' = "ensure"
          /\ UNCHANGED <<srv, cid, cgen, cpg, cprog, clanes, cdone>>
     ELSE Forget
  /\ UNCHANGED <<tgtVars, losses>>

\* Without one the applier batches what the reader returns.
Collect ==
  /\ cpc = "loop" /\ ~Active
  /\ \E e \in Tx :
       LET c == [start |-> cprog, end |-> e, lanes |-> clanes, sgen |-> cgen]
       IN  /\ FreshBatch(c)
           /\ cclaim' = c
           /\ cpc' = IF Concurrent(c) THEN "ensure" ELSE "serial"
  /\ UNCHANGED <<tgtVars, srv, cid, cgen, cpg, cprog, clanes, cdone, losses>>

\* Nothing is staged beyond progress: poll again later.
Poll ==
  /\ cpc = "loop" /\ ~Active /\ cprog = N
  /\ UNCHANGED vars

-----------------------------------------------------------------------------
(***************************************************************************)
(* Target transactions.                                                    *)
(***************************************************************************)
\* The serial path runs the batch's DML,
SerialBegin ==
  /\ cpc = "serial"
  /\ Open("serial", cclaim, {}, "open")
  /\ cpc' = "wait"
  /\ UNCHANGED <<tgtVars, cid, cgen, cpg, cprog, clanes, cclaim, cdone, losses>>

\* ensureReplayClaim,
EnsureSend ==
  /\ cpc = "ensure"
  /\ Open("ensure", cclaim, {}, "commit")
  /\ cpc' = "wait"
  /\ UNCHANGED <<tgtVars, cid, cgen, cpg, cprog, clanes, cclaim, cdone, losses>>

\* and finalizeReplayClaim, once every work row is known to be committed.
FinalizeSend ==
  /\ cpc = "exec" /\ cdone = Works(cclaim)
  /\ Open("final", cclaim, {}, "commit")
  /\ cpc' = "wait"
  /\ UNCHANGED <<tgtVars, cid, cgen, cpg, cprog, clanes, cclaim, cdone, losses>>

\* After its DML a transaction sends its last statement and COMMIT together.
SendCommit(x) ==
  /\ Mine(x) /\ x.st = "open"
  /\ srv' = (srv \ {x}) \cup {[x EXCEPT !.st = "commit"]}
  /\ UNCHANGED <<tgtVars, cliVars, losses>>

\* Work rows locked FOR UPDATE by unfinished transactions.
Locked == UNION {x.ws : x \in {y \in srv : y.st \in {"open", "commit"}}}

\* The row of the claim whose fence is in effect.
Holds(c) == claim = c /\ gen = Fence(c)

\* beginReplayClaimWork and beginSerialReplayWorkGroup: lock the unit's rows,
\* refuse if the claim is gone or an earlier step unfinished, skip what is
\* already committed.
BeginWork(unit) ==
  /\ cpc = "exec"
  /\ unit \cap cdone = {} /\ PriorIn(cclaim, unit, cdone)
  /\ \A x \in srv : Mine(x) => x.ws # unit
  /\ unit \cap Locked = {}
  /\ LET valid == /\ Holds(cclaim)
                  /\ PriorIn(cclaim, unit, receipts)
                  /\ \A v \in unit \cap receipts : \A w \in unit \ receipts :
                       v[1] < w[1]
     IN  \/ /\ ~valid /\ Forget
         \/ /\ valid /\ unit \subseteq receipts
            /\ cdone' = cdone \cup unit
            /\ UNCHANGED <<srv, cpc, cid, cgen, cpg, cprog, clanes, cclaim>>
         \/ /\ valid /\ ~(unit \subseteq receipts)
            /\ Open("work", cclaim, unit, "open")
            /\ UNCHANGED cliVars
  /\ UNCHANGED <<tgtVars, losses>>

\* The server's answer, if the client is still there to read it.
Answer(x, st) ==
  srv' = IF Mine(x) THEN (srv \ {x}) \cup {[x EXCEPT !.st = st]} ELSE srv \ {x}

\* The transaction aborts: a guard of its last statement failed.
Abort(x) == UNCHANGED tgtVars /\ Answer(x, "fail")

\* The progress row is overwritten whatever it says.
BugUnguardedProgress(x) ==
  /\ x.kind = "serial"
  /\ IF gen = x.c.sgen /\ pgen = x.c.sgen
     THEN /\ progress' = x.c.end
          /\ done' = done \o InOrder(BatchTx(x.c))
          /\ Answer(x, "done")
          /\ UNCHANGED <<gen, pgen, claim, receipts>>
     ELSE Abort(x)

\* streamProgressSQL: identity and progress row must be as the client read them.
CommitSerial(x) ==
  /\ x.kind = "serial"
  /\ IF gen = x.c.sgen /\ pgen = x.c.sgen /\ progress = x.c.start
     THEN /\ progress' = x.c.end
          /\ done' = done \o InOrder(BatchTx(x.c))
          /\ Answer(x, "done")
          /\ UNCHANGED <<gen, pgen, claim, receipts>>
     ELSE Abort(x)

\* ensureReplayClaim: join the claim in place, or insert it with its work rows
\* and move the fence.
CommitEnsure(x) ==
  /\ x.kind = "ensure"
  /\ \/ /\ Holds(x.c)
        /\ Answer(x, "done") /\ UNCHANGED tgtVars
     \/ /\ ~Active
        /\ gen = x.c.sgen /\ gen # Fence(x.c)
        /\ progress = x.c.start /\ pgen = x.c.sgen
        /\ claim' = x.c /\ gen' = Fence(x.c) /\ receipts' = {}
        /\ Answer(x, "done")
        /\ UNCHANGED <<progress, pgen, done>>
     \/ /\ ~Holds(x.c)
        /\ Active \/ gen # x.c.sgen \/ gen = Fence(x.c)
             \/ progress # x.c.start \/ pgen # x.c.sgen
        /\ Abort(x)

\* replayWorkCompletionSQL: DML and receipts commit together.
CommitWork(x) ==
  /\ x.kind = "work"
  /\ IF Holds(x.c) /\ ~(x.ws \subseteq receipts)
     THEN /\ receipts' = receipts \cup x.ws
          /\ done' = done \o InOrder(Covers(x.c, x.ws \ receipts))
          /\ Answer(x, "done")
          /\ UNCHANGED <<gen, progress, pgen, claim>>
     ELSE Abort(x)

\* Progress moves without the generation it now belongs to.
BugCommitFinal(x) ==
  /\ x.kind = "final"
  /\ Works(x.c) \cap Locked = {}
  /\ IF /\ Holds(x.c) /\ Works(x.c) \subseteq receipts
        /\ progress = x.c.start /\ pgen = x.c.sgen
     THEN /\ progress' = x.c.end
          /\ claim' = NoClaim /\ receipts' = {}
          /\ Answer(x, "done")
          /\ UNCHANGED <<gen, pgen, done>>
     ELSE Abort(x)

\* finalizeReplayClaim: lock every work row, then advance progress and delete
\* the claim if all of them are committed.
CommitFinal(x) ==
  /\ x.kind = "final"
  /\ Works(x.c) \cap Locked = {}
  /\ IF /\ Holds(x.c) /\ Works(x.c) \subseteq receipts
        /\ progress = x.c.start /\ pgen = x.c.sgen
     THEN /\ progress' = x.c.end /\ pgen' = Fence(x.c)
          /\ claim' = NoClaim /\ receipts' = {}
          /\ Answer(x, "done")
          /\ UNCHANGED <<gen, done>>
     ELSE Abort(x)

\* The server executes the COMMIT of x, whoever is left to hear of it.
Commit(x) ==
  /\ x.st = "commit"
  /\ CommitSerial(x) \/ CommitEnsure(x) \/ CommitWork(x) \/ CommitFinal(x)
  /\ UNCHANGED <<cliVars, losses>>

\* The applier reads the outcome.
Acknowledge(x) ==
  /\ Mine(x) /\ x.st = "done"
  /\ srv' = srv \ {x}
  /\ CASE x.kind = "ensure" ->
            cpc' = "exec" /\ cdone' = {} /\ UNCHANGED <<cgen, cprog, cclaim>>
       [] x.kind = "work" ->
            cdone' = cdone \cup x.ws /\ UNCHANGED <<cpc, cgen, cprog, cclaim>>
       [] x.kind = "serial" ->
            /\ cpc' = "loop" /\ cprog' = x.c.end
            /\ cclaim' = NoClaim /\ UNCHANGED <<cgen, cdone>>
       [] x.kind = "final" ->
            /\ cpc' = "loop" /\ cprog' = x.c.end /\ cgen' = Fence(x.c)
            /\ cclaim' = NoClaim /\ cdone' = {}
  /\ UNCHANGED <<tgtVars, cid, cpg, clanes, losses>>

\* An error that is not a connection error ends the run, which is started anew.
Fail(x) ==
  /\ Mine(x) /\ x.st = "fail"
  /\ Forget
  /\ UNCHANGED <<tgtVars, losses>>

-----------------------------------------------------------------------------
\* The connection is lost or the process killed.
Lose ==
  /\ cpc # "down" /\ losses < MaxLose
  /\ losses' = losses + 1
  /\ Forget
  /\ UNCHANGED tgtVars

\* The server notices that a client is gone.
OrphanAbort(x) ==
  /\ ~Mine(x)
  /\ srv' = srv \ {x}
  /\ UNCHANGED <<tgtVars, cliVars, losses>>

Connect == \/ ConnectIdentity \/ ConnectProgressGeneration \/ ConnectValidate
           \/ ConnectResolve \/ ConnectProgress

Apply == \/ Resume \/ Collect \/ SerialBegin \/ EnsureSend \/ FinalizeSend
         \/ cpc = "exec" /\ \E unit \in Units(cclaim) : BeginWork(unit)
         \/ \E x \in srv : SendCommit(x) \/ Acknowledge(x) \/ Fail(x)

Server == \E x \in srv : Commit(x)

ServerCleanup == \E x \in srv : OrphanAbort(x)

Next == Connect \/ Apply \/ Poll \/ Server \/ Lose \/ ServerCleanup

Spec == Init /\ [][Next]_vars

\* The applier's goroutines are scheduled, a failed run is started again, and
\* the server executes or abandons what it was sent.  Losses are not assumed.
Fairness ==
  /\ WF_vars(Connect) /\ WF_vars(Apply)
  /\ WF_vars(Server) /\ WF_vars(ServerCleanup)

FairSpec == Spec /\ Fairness

-----------------------------------------------------------------------------
(***************************************************************************)
(* Properties.                                                             *)
(***************************************************************************)
\* The target holds each transaction up to progress exactly once, beyond it
\* exactly those whose work row of the active claim is committed, and nothing
\* else, whatever late COMMITs of earlier connections arrive.
FrontierExact ==
  LET committed == IF Active THEN Covers(claim, receipts) ELSE {}
  IN  \A t \in Tx :
        Cardinality({i \in 1..Len(done) : done[i] = t}) =
          IF t <= progress \/ t \in committed THEN 1 ELSE 0

\* Replay on the target is exactly-once and keeps the order of conflicting
\* transactions, although lanes commit independently.
Target == INSTANCE TargetReplay
            WITH N <- N, Conflict <- Conflict, done <- done, progress <- progress
ImplementsTargetReplay == Target!Spec

\* No check of the applier trips unless a connection was lost: a run that is
\* left alone never stops on its own fences and manifests.
UndisturbedNeverFails ==
  [][cpc # "down" /\ cpc' = "down" => losses' > 0]_vars

\* Replay completes: an interrupted claim is always taken up and finished.
EventuallyReplayed == <>[](progress = N /\ ~Active)

=============================================================================
