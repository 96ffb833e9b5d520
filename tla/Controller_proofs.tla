------------------------- MODULE Controller_proofs -------------------------
(***************************************************************************)
(* The safety properties of the controller, for every set of               *)
(* configurations and every number of controllers, saves, requests and     *)
(* operations.                                                             *)
(***************************************************************************)
EXTENDS Controller, TLAPS

\* The child processes that work on the migration directory.
Holding(w) == w.pc \in {"checking", "opened", "held"}

\* A revision is handed out for one configuration, in the generation that
\* makes it, and the present one stands for the configuration in force.
ShownInv ==
  /\ rev <= saves + 1 /\ (up => gen # 0)
  /\ \A v \in shown :
       /\ v.gen <= gen
       /\ v.gen = gen => v.rev <= rev
       /\ v.gen = gen /\ v.rev = rev => v.cfg = cfg

\* Numbers of children are given out in order, a child that works on the
\* directory holds the lock, and only a restart gets to the two places where
\* the base state is removed.
WorkerInv ==
  \A w \in worker :
    /\ w.id <= nextID /\ w.gen <= gen
    /\ Holding(w) => lock = w.id
    /\ w.pc \in {"checking", "reset"} => w.name = "restart-base-copy"

ControllerInv ==
  TypeOK /\ ShownInv /\ WorkerInv /\ ReviewedConfig /\ ChildIsShown /\ SavesHold

-----------------------------------------------------------------------------
\* The first state.
LEMMA ControllerInit == Init => ControllerInv
<1> SUFFICES ASSUME Init PROVE ControllerInv
  OBVIOUS
<1> USE BaseAssumption, BoundAssumption DEF Init
<1>0. None \in OpType
  BY DEF None, OpType
<1>1. TypeOK
  <2>1. ops \in [Slot -> OpType]
    BY <1>0
  <2>2. cfg \in Config /\ phase \in Phase /\ {file, disk, acked} \subseteq Setting
    BY DEF Config, Phase
  <2>3. gen \in 0..MaxStart /\ rev \in 0..MaxSave + 1
        /\ saves \in 0..MaxSave /\ nextID \in 0..MaxOp /\ lock \in 0..MaxOp
    OBVIOUS
  <2>4. up \in BOOLEAN
    OBVIOUS
  <2> QED
    BY <2>1, <2>2, <2>3, <2>4 DEF TypeOK
<1>2. ShownInv /\ WorkerInv /\ ReviewedConfig
  BY DEF ShownInv, WorkerInv, ReviewedConfig
<1>3. ChildIsShown /\ SavesHold
  BY DEF ChildIsShown, SlotHoldsWorker, RunsWhatIsShown, SavesHold, AckedSurvives, LiveIsSaved
<1> QED
  BY <1>1, <1>2, <1>3 DEF ControllerInv

\* What a step of a child does to it: its identity and what it runs with stay.
Same(v, w) ==
  /\ v \in WorkerType
  /\ v.id = w.id /\ v.gen = w.gen /\ v.name = w.name
  /\ v.cfg = w.cfg /\ v.reviewed = w.reviewed

\* A child's step keeps the invariant when the lock goes with its place.
LEMMA ChildStep ==
  ASSUME ControllerInv, NEW w \in worker, NEW v, Same(v, w), Becomes(w, v), UNCHANGED childless,
         phase' \in Phase, lock' \in 0..MaxOp,
         w.pc # "exited",
         Holding(v) => lock' = w.id,
         \A u \in worker \ {w} : Holding(u) => lock' = lock,
         v.pc \in {"checking", "reset"} => w.name = "restart-base-copy"
  PROVE  ControllerInv'
<1> USE DEF ControllerInv, childless, server, saved, Same, Becomes
<1>1. TypeOK'
  BY DEF TypeOK, OpType
<1>2. ShownInv'
  BY DEF ShownInv
<1>3. WorkerInv'
  BY DEF WorkerInv, Holding, TypeOK
<1>4. ReviewedConfig'
  BY DEF ReviewedConfig
<1>5. ChildIsShown'
  BY DEF ChildIsShown, SlotHoldsWorker, RunsWhatIsShown, Mine, Active
<1>6. SavesHold'
  BY DEF SavesHold, AckedSurvives, LiveIsSaved
<1> QED
  BY <1>1, <1>2, <1>3, <1>4, <1>5, <1>6
-----------------------------------------------------------------------------
\* The steps of a child process, up to its end.
LEMMA ChildKeeps ==
  ASSUME ControllerInv, NEW w \in worker,
         Open(w) \/ Restart(w) \/ Begin(w) \/ Advance(w) \/ Complete(w) \/ Exit(w) \/ Reap(w)
  PROVE  ControllerInv'
<1> USE DEF ControllerInv
<1>0. /\ w \in WorkerType /\ phase \in Phase /\ lock \in 0..MaxOp /\ w.id \in 0..MaxOp
      /\ \A u \in worker \ {w} : u.id # w.id /\ u.id # 0
  BY BoundAssumption DEF TypeOK, WorkerType
<1>1. CASE Open(w)
  <2>1. CASE Opens(w) /\ ~(Restarts(w) /\ phase = "none")
    <3> DEFINE v == [w EXCEPT !.pc = IF Restarts(w) THEN "checking" ELSE "opened"]
    <3>1. Same(v, w)
      BY <1>0 DEF Same, WorkerType
    <3>2. v.pc = IF Restarts(w) THEN "checking" ELSE "opened"
      BY <1>0 DEF WorkerType
    <3>3. \A u \in worker : ~Holding(u)
      BY <1>0, <2>1 DEF Opens, WorkerInv, TypeOK, WorkerType
    <3>4. Becomes(w, v) /\ UNCHANGED childless /\ lock' = w.id /\ phase' \in Phase /\ w.pc # "exited"
      BY <1>0, <1>1, <2>1 DEF Open, Phase
    <3> HIDE DEF v
    <3> QED
      BY <1>0, <3>1, <3>2, <3>3, <3>4, ChildStep DEF Restarts
  <2>2. CASE ~(Opens(w) /\ ~(Restarts(w) /\ phase = "none"))
    <3>1. Becomes(w, Exited(w, FALSE)) /\ UNCHANGED childless /\ lock' = lock /\ phase' = phase
          /\ w.pc # "exited"
      BY <1>1, <2>2 DEF Open
    <3>2. Same(Exited(w, FALSE), w) /\ Exited(w, FALSE).pc = "exited"
      BY <1>0 DEF Same, WorkerType, Exited
    <3> QED
      BY <1>0, <3>1, <3>2, ChildStep DEF Holding
  <2> QED
    BY <2>1, <2>2
<1>2. ASSUME NEW ok \in BOOLEAN, Becomes(w, Exited(w, ok)), Unlock(w), UNCHANGED childless,
             phase' \in Phase, w.pc # "exited"
      PROVE  ControllerInv'
  <2>1. Same(Exited(w, ok), w) /\ Exited(w, ok).pc = "exited"
    BY <1>0 DEF Same, WorkerType, Exited
  <2>2. \A u \in worker \ {w} : Holding(u) => lock' = lock
    BY <1>0, <1>2 DEF Unlock, WorkerInv
  <2>3. lock' \in 0..MaxOp
    BY <1>0, <1>2, BoundAssumption DEF Unlock
  <2> QED
    BY <1>2, <2>1, <2>2, <2>3, ChildStep DEF Holding
<1>3. CASE Restart(w)
  <2>1. CASE RestartAllowed
    <3> DEFINE v == [w EXCEPT !.pc = "reset"]
    <3>1. Same(v, w) /\ v.pc = "reset"
      BY <1>0 DEF Same, WorkerType
    <3>2. Becomes(w, v) /\ UNCHANGED childless /\ phase' \in Phase /\ w.pc = "checking" /\ Unlock(w)
      BY <1>3, <2>1 DEF Restart, Phase
    <3>3. lock' \in 0..MaxOp /\ \A u \in worker \ {w} : Holding(u) => lock' = lock
      BY <1>0, <3>2, BoundAssumption DEF Unlock, WorkerInv
    <3>4. w.name = "restart-base-copy"
      BY <3>2 DEF WorkerInv
    <3> HIDE DEF v
    <3> QED
      BY <3>1, <3>2, <3>3, <3>4, ChildStep DEF Holding
  <2>2. CASE ~RestartAllowed
    BY <1>0, <1>2, <1>3, <2>2 DEF Restart
  <2> QED
    BY <2>1, <2>2
<1>4. CASE Begin(w)
  <2> DEFINE v == [w EXCEPT !.pc = "held"]
  <2>1. Same(v, w) /\ v.pc = "held"
    BY <1>0 DEF Same, WorkerType
  <2>2. Becomes(w, v) /\ UNCHANGED childless /\ phase' \in Phase /\ w.pc = "opened" /\ lock' = lock
    BY <1>0, <1>4 DEF Begin, Phase
  <2>3. lock = w.id
    BY <2>2 DEF WorkerInv, Holding
  <2> HIDE DEF v
  <2> QED
    BY <1>0, <2>1, <2>2, <2>3, ChildStep DEF Holding
<1>5. CASE Advance(w)
  <2>1. phase' \in Phase
    BY <1>5 DEF Advance, After, Phase
  <2>2. UNCHANGED <<childless, worker, lock>>
    BY <1>5 DEF Advance
  <2> QED
    BY <2>1, <2>2
      DEF childless, server, saved, TypeOK, OpType, ShownInv, WorkerInv, Holding, ReviewedConfig, ChildIsShown,
          SlotHoldsWorker, RunsWhatIsShown, Mine, Active, SavesHold, AckedSurvives, LiveIsSaved
<1>6. CASE Complete(w)
  BY <1>2, <1>6 DEF Complete, Phase
<1>7. CASE Exit(w)
  <2>1. PICK ok \in {w.name \in {"preflight", "verify"} /\ w.pc # "checking", FALSE} :
          Becomes(w, Exited(w, ok))
    BY <1>7 DEF Exit
  <2>2. ok \in BOOLEAN
    BY <2>1, Zenon
  <2>3. Unlock(w) /\ UNCHANGED childless /\ phase' = phase /\ w.pc # "exited"
    BY <1>7 DEF Exit
  <2> QED
    BY <1>0, <1>2, <2>1, <2>2, <2>3
<1>8. CASE Reap(w)
  BY <1>0, <1>2, <1>8 DEF Reap
<1> QED
  BY <1>1, <1>3, <1>4, <1>5, <1>6, <1>7, <1>8

-----------------------------------------------------------------------------
\* A stop of the controller, which keeps nothing of its operations.
LEMMA DownKeeps ==
  ASSUME ControllerInv, Down, worker' \subseteq WorkerType,
         \A v \in worker' : \E w \in worker :
           /\ v.id = w.id /\ v.gen = w.gen /\ v.name = w.name /\ v.pc = w.pc
           /\ v.cfg = w.cfg /\ v.reviewed = w.reviewed,
         \A v, w \in worker' : v.id = w.id => v = w,
         \/ lock' = lock
         \/ worker' = {} /\ lock' \in 0..MaxOp,
         file' \in {file, disk}, disk' \in {file', disk}, UNCHANGED <<saves, acked, tried, phase>>
  PROVE  ControllerInv'
<1> USE DEF ControllerInv, Down
<1>0. None \in OpType
  BY BoundAssumption DEF None, OpType
<1>1. TypeOK'
  <2>1. ops' \in [Slot -> OpType]
    BY <1>0
  <2>2. {file', disk', acked'} \subseteq Setting
    BY DEF TypeOK
  <2>3. lock' \in 0..MaxOp /\ req' = {} /\ ~up'
    BY DEF TypeOK
  <2> QED
    BY <2>1, <2>2, <2>3 DEF TypeOK
<1>2. ShownInv'
  BY DEF ShownInv
<1>3. WorkerInv'
  BY DEF WorkerInv, Holding, TypeOK
<1>4. ReviewedConfig'
  BY DEF ReviewedConfig
<1>5. ChildIsShown'
  BY DEF ChildIsShown, SlotHoldsWorker, RunsWhatIsShown, Mine
<1>6. SavesHold'
  BY DEF SavesHold, AckedSurvives, LiveIsSaved
<1> QED
  BY <1>1, <1>2, <1>3, <1>4, <1>5, <1>6

\* The three ways in which the controller stops.
LEMMA StopKeeps == ControllerInv /\ (Shutdown \/ Kill \/ PowerFail) => ControllerInv'
<1> SUFFICES ASSUME ControllerInv, Shutdown \/ Kill \/ PowerFail PROVE ControllerInv'
  OBVIOUS
<1>0. worker \subseteq WorkerType /\ \A v, w \in worker : v.id = w.id => v = w
  BY DEF ControllerInv, TypeOK
<1>1. CASE Kill
  BY <1>0, <1>1, DownKeeps DEF Kill, saved, children
<1>2. CASE PowerFail
  BY <1>0, <1>2, DownKeeps, BoundAssumption DEF PowerFail
<1>3. CASE Shutdown
  <2> DEFINE f(w) == IF w.pc = "exited" THEN w ELSE [w EXCEPT !.signalled = TRUE]
  <2>1. worker' = {f(w) : w \in worker}
    BY <1>3 DEF Shutdown
  <2>2. \A w \in worker :
          /\ f(w) \in WorkerType
          /\ f(w).id = w.id /\ f(w).gen = w.gen /\ f(w).name = w.name /\ f(w).pc = w.pc
          /\ f(w).cfg = w.cfg /\ f(w).reviewed = w.reviewed
    BY <1>0 DEF WorkerType
  <2> HIDE DEF f
  <2>3. worker' \subseteq WorkerType /\ \A v, w \in worker' : v.id = w.id => v = w
    BY <1>0, <2>1, <2>2
  <2>4. \A v \in worker' : \E w \in worker :
           /\ v.id = w.id /\ v.gen = w.gen /\ v.name = w.name /\ v.pc = w.pc
           /\ v.cfg = w.cfg /\ v.reviewed = w.reviewed
    BY <2>1, <2>2
  <2> QED
    BY <1>3, <2>3, <2>4, DownKeeps DEF Shutdown, saved
<1> QED
  BY <1>1, <1>2, <1>3

-----------------------------------------------------------------------------
\* A new controller has a generation of its own, and no children.
LEMMA StartKeeps == ControllerInv /\ Start => ControllerInv'
<1> SUFFICES ASSUME ControllerInv, Start PROVE ControllerInv'
  OBVIOUS
<1> USE BaseAssumption, BoundAssumption DEF ControllerInv, Start, Shows, saved, children, Loaded
<1>0. None \in OpType /\ cfg' \in Config
  BY DEF None, OpType, Config, TypeOK
<1>1. TypeOK'
  BY <1>0 DEF TypeOK
<1>2. ShownInv'
  BY DEF ShownInv, TypeOK
<1>3. WorkerInv' /\ ReviewedConfig'
  BY DEF WorkerInv, ReviewedConfig, Holding, TypeOK, WorkerType
<1>5. ChildIsShown'
  BY DEF ChildIsShown, SlotHoldsWorker, RunsWhatIsShown, Mine, WorkerInv, TypeOK, WorkerType
<1>6. SavesHold'
  BY DEF SavesHold, AckedSurvives, LiveIsSaved
<1> QED
  BY <1>1, <1>2, <1>3, <1>5, <1>6

\* A save, made or not, finds no live child of this controller.
LEMMA UpdateKeeps ==
  ASSUME ControllerInv, NEW new \in Config, updateConfiguration(new) PROVE ControllerInv'
<1> USE BoundAssumption DEF ControllerInv, updateConfiguration, Shows, children
<1>0. \A w \in worker : Mine(w) => w.pc = "exited"
  BY DEF Editable, Idle, ChildIsShown, SlotHoldsWorker, SlotOf, Slot
<1>1. new.set \in Setting
  BY DEF Config
<1>2. ReviewedConfig' /\ WorkerInv'
  BY DEF ReviewedConfig, WorkerInv, Holding
<1>3. ChildIsShown'
  BY <1>0 DEF ChildIsShown, SlotHoldsWorker, RunsWhatIsShown, Mine
<1>4. CASE Saved(new)
  <2>1. TypeOK'
    <3>1. rev' \in 1..MaxSave + 1 /\ saves' \in 0..MaxSave /\ gen \in 0..MaxStart
      BY <1>4 DEF Saved, TypeOK, ShownInv
    <3>2. gen # 0
      BY DEF ShownInv
    <3>3. shown' \subseteq [gen : 1..MaxStart, rev : 1..MaxSave + 1, cfg : Config]
      BY <1>4, <3>1, <3>2 DEF Saved, TypeOK
    <3>4. req' \subseteq [name : Name, view : shown']
      BY <1>4 DEF Saved, TypeOK
    <3> QED
      BY <1>1, <1>4, <3>1, <3>3, <3>4 DEF Saved, TypeOK
  <2>2. ShownInv' /\ SavesHold'
    BY <1>4 DEF Saved, TypeOK, ShownInv, SavesHold, AckedSurvives, LiveIsSaved
  <2> QED
    BY <1>2, <1>3, <2>1, <2>2
<1>5. CASE NotSaved(new)
  <2>1. TypeOK'
    BY <1>1, <1>5 DEF NotSaved, TypeOK
  <2>2. ShownInv' /\ SavesHold'
    BY <1>5 DEF NotSaved, TypeOK, ShownInv, SavesHold, AckedSurvives, LiveIsSaved
  <2> QED
    BY <1>2, <1>3, <2>1, <2>2
<1> QED
  BY <1>4, <1>5

\* A request is noted.
LEMMA ActionKeeps ==
  ASSUME ControllerInv, NEW name \in Name, NEW v \in shown, action(name, v) PROVE ControllerInv'
<1> USE DEF ControllerInv, action, server, saved, children
<1>1. TypeOK'
  BY DEF TypeOK
<1>2. ShownInv' /\ WorkerInv' /\ ReviewedConfig'
  BY DEF ShownInv, WorkerInv, ReviewedConfig, Holding
<1>3. ChildIsShown' /\ SavesHold'
  BY DEF ChildIsShown, SlotHoldsWorker, RunsWhatIsShown, Mine, Active, SavesHold, AckedSurvives, LiveIsSaved
<1> QED
  BY <1>1, <1>2, <1>3

\* An operation is started for a request whose revision is the present one, in
\* a free slot, or the request is refused.
LEMMA BeginKeeps ==
  ASSUME ControllerInv, NEW q \in req, start(q) PROVE ControllerInv'
<1> USE BoundAssumption DEF ControllerInv, start, server, saved
<1>0. q.name \in Name /\ q.view \in shown /\ SlotOf(q.name) \in Slot
  BY DEF TypeOK, SlotOf, Slot
<1>1. ShownInv' /\ SavesHold'
  BY DEF ShownInv, SavesHold, AckedSurvives, LiveIsSaved
<1>2. CASE RevisionCurrent(q) /\ Free(q.name)
  <2> DEFINE n == [id |-> nextID + 1, gen |-> gen, name |-> q.name, pc |-> "begun",
                   cfg |-> cfg, reviewed |-> q.view.cfg, signalled |-> FALSE, ok |-> FALSE]
             o == [id |-> nextID + 1, name |-> q.name, state |-> "running"]
  <2>1. worker' = worker \cup {n} /\ ops' = [ops EXCEPT ![SlotOf(q.name)] = o]
        /\ nextID' = nextID + 1 /\ nextID' \in 1..MaxOp
    BY <1>2 DEF NextID, TypeOK
  <2>2. q.view.cfg = cfg /\ q.view.cfg \in Config
    BY <1>0, <1>2 DEF RevisionCurrent, ShownInv, TypeOK
  <2>3. gen \in 1..MaxStart
    BY DEF TypeOK, ShownInv
  <2>4. n \in WorkerType /\ o \in OpType
    BY <1>0, <2>1, <2>2, <2>3 DEF WorkerType, OpType, TypeOK
  <2>5. /\ n.id = nextID + 1 /\ n.gen = gen /\ n.name = q.name /\ n.pc = "begun"
        /\ n.cfg = cfg /\ n.reviewed = q.view.cfg
        /\ o.id = nextID + 1 /\ o.state = "running"
    OBVIOUS
  <2> HIDE DEF n, o
  <2>6. \A w \in worker : w.id \in Nat /\ w.id <= nextID /\ w.name \in Name
    BY DEF WorkerInv, TypeOK, WorkerType
  <2>7. TypeOK'
    <3>1. ops' \in [Slot -> OpType]
      BY <1>0, <2>1, <2>4 DEF TypeOK
    <3>2. worker' \subseteq WorkerType /\ \A v, w \in worker' : v.id = w.id => v = w
      BY <2>1, <2>4, <2>5, <2>6 DEF TypeOK
    <3> QED
      BY <2>1, <3>1, <3>2 DEF TypeOK
  <2>8. WorkerInv' /\ ReviewedConfig'
    BY <2>1, <2>2, <2>5, <2>6 DEF WorkerInv, ReviewedConfig, Holding, TypeOK
  <2>9. ChildIsShown'
    <3>1. \A w \in worker : Mine(w) /\ w.pc # "exited" => SlotOf(w.name) # SlotOf(q.name)
      BY <1>2 DEF Free, ChildIsShown, SlotHoldsWorker
    <3>2. DOMAIN ops = Slot /\ \A w \in worker : SlotOf(w.name) \in Slot
      BY <2>6 DEF TypeOK, SlotOf, Slot
    <3> QED
      BY <1>0, <2>1, <2>5, <3>1, <3>2
        DEF ChildIsShown, SlotHoldsWorker, RunsWhatIsShown, Mine, Active
  <2> QED
    BY <1>1, <2>7, <2>8, <2>9
<1>3. CASE ~(RevisionCurrent(q) /\ Free(q.name))
  <2>1. TypeOK'
    BY <1>3 DEF TypeOK
  <2>2. WorkerInv' /\ ReviewedConfig' /\ ChildIsShown'
    BY <1>3 DEF WorkerInv, Holding, ReviewedConfig, ChildIsShown, SlotHoldsWorker, RunsWhatIsShown, Mine, Active
  <2> QED
    BY <1>1, <2>1, <2>2
<1> QED
  BY <1>2, <1>3

\* An operation is asked to stop: it stays in its slot.
LEMMA AskKeeps ==
  ASSUME ControllerInv, NEW s \in Slot, stop(s) PROVE ControllerInv'
<1> USE DEF ControllerInv, stop, server, saved
<1> DEFINE f(w) == IF Mine(w) /\ w.id = ops[s].id THEN [w EXCEPT !.signalled = TRUE] ELSE w
<1>1. worker' = {f(w) : w \in worker}
  OBVIOUS
<1>2. \A w \in worker :
        /\ f(w) \in WorkerType
        /\ f(w).id = w.id /\ f(w).gen = w.gen /\ f(w).name = w.name /\ f(w).pc = w.pc
        /\ f(w).cfg = w.cfg /\ f(w).reviewed = w.reviewed
  <2>1. worker \subseteq WorkerType
    BY DEF TypeOK
  <2> HIDE DEF ControllerInv, stop
  <2> TAKE w \in worker
  <2>2. CASE f(w) = w
    BY <2>1, <2>2 DEF WorkerType
  <2>3. CASE f(w) = [w EXCEPT !.signalled = TRUE]
    BY <2>1, <2>3 DEF WorkerType
  <2> QED
    BY <2>2, <2>3
<1> HIDE DEF f
<1>3. /\ ops' \in [Slot -> OpType]
      /\ \A r \in Slot : ops'[r].id = ops[r].id
                         /\ (ops[r].state \in {"running", "stopping"} =>
                              ops'[r].state \in {"running", "stopping"})
  <2>1. ops \in [Slot -> OpType] /\ ops' = [ops EXCEPT ![s].state = "stopping"]
    BY DEF TypeOK
  <2>2. [ops[s] EXCEPT !.state = "stopping"] \in OpType
    BY <2>1 DEF OpType
  <2> HIDE DEF ControllerInv, stop
  <2> QED
    BY <2>1, <2>2 DEF OpType
<1>4. TypeOK'
  <2>1. worker' \subseteq WorkerType /\ \A v, w \in worker' : v.id = w.id => v = w
    BY <1>1, <1>2 DEF TypeOK
  <2> QED
    BY <1>3, <2>1 DEF TypeOK
<1>5. ShownInv' /\ SavesHold'
  BY DEF ShownInv, SavesHold, AckedSurvives, LiveIsSaved
<1>6. WorkerInv' /\ ReviewedConfig'
  <2>1. lock' = lock /\ nextID' = nextID /\ gen' = gen /\ WorkerInv /\ ReviewedConfig
    OBVIOUS
  <2> HIDE DEF ControllerInv, stop
  <2>2. ReviewedConfig'
    BY <1>1, <1>2, <2>1 DEF ReviewedConfig
  <2> QED
    BY <1>1, <1>2, <2>1, <2>2 DEF WorkerInv, Holding
<1>7. ChildIsShown'
  <2>1. gen' = gen /\ up' = up /\ cfg' = cfg /\ ChildIsShown
    OBVIOUS
  <2> HIDE DEF ControllerInv, stop
  <2> SUFFICES ASSUME NEW v \in worker', Mine(v)', v.pc # "exited"
               PROVE  Active(SlotOf(v.name))' /\ ops'[SlotOf(v.name)].id = v.id /\ v.cfg = cfg'
    BY DEF ChildIsShown, SlotHoldsWorker, RunsWhatIsShown
  <2>2. PICK w \in worker : v = f(w)
    BY <1>1
  <2>3. Mine(w) /\ w.pc # "exited" /\ v.name = w.name /\ v.id = w.id /\ v.cfg = w.cfg
    BY <1>2, <2>1, <2>2 DEF Mine
  <2>4. Active(SlotOf(w.name)) /\ ops[SlotOf(w.name)].id = w.id /\ w.cfg = cfg
    BY <2>1, <2>3 DEF ChildIsShown, SlotHoldsWorker, RunsWhatIsShown
  <2>5. SlotOf(w.name) \in Slot
    BY DEF SlotOf, Slot
  <2> QED
    BY <1>3, <2>1, <2>3, <2>4, <2>5 DEF Active
<1> QED
  BY <1>4, <1>5, <1>6, <1>7

\* A child that ended is waited for, and its slot is free.
LEMMA WaitKeeps ==
  ASSUME ControllerInv, NEW w \in worker, execute(w) PROVE ControllerInv'
<1> USE DEF ControllerInv, execute, server, saved
<1> DEFINE s == SlotOf(w.name)
           st == IF w.ok THEN "succeeded" ELSE IF w.signalled THEN "stopped" ELSE "failed"
<1>1. worker' = worker \ {w} /\ s \in Slot
  BY DEF SlotOf, Slot
<1>2. /\ ops' \in [Slot -> OpType]
      /\ \A r \in Slot : ops[r].id # w.id => ops'[r] = ops[r]
      /\ \A r \in Slot : r # s => ops'[r] = ops[r]
  <2>1. CASE ops[s].id # w.id
    BY <2>1 DEF TypeOK
  <2>2. CASE ops[s].id = w.id
    <3>1. ops' = [ops EXCEPT ![s].state = st]
      BY <2>2
    <3>2. st \in {"succeeded", "stopped", "failed"}
      OBVIOUS
    <3> HIDE DEF s, st
    <3>3. ops \in [Slot -> OpType]
      BY DEF TypeOK
    <3> HIDE DEF ControllerInv, execute
    <3>4. [ops[s] EXCEPT !.state = st] \in OpType
      BY <1>1, <3>2, <3>3 DEF OpType
    <3> QED
      BY <1>1, <2>2, <3>1, <3>3, <3>4
  <2> QED
    BY <2>1, <2>2
<1> HIDE DEF s, st
<1>3. TypeOK'
  BY <1>1, <1>2 DEF TypeOK
<1>4. ShownInv' /\ SavesHold'
  BY DEF ShownInv, SavesHold, AckedSurvives, LiveIsSaved
<1>5. WorkerInv' /\ ReviewedConfig'
  BY <1>1 DEF WorkerInv, ReviewedConfig, Holding
<1>6. ChildIsShown'
  <2>1. \A u \in worker : SlotOf(u.name) \in Slot /\ (u # w => u.id # w.id)
    BY DEF SlotOf, Slot, TypeOK
  <2> QED
    BY <1>1, <1>2, <2>1 DEF ChildIsShown, SlotHoldsWorker, RunsWhatIsShown, Mine, Active
<1> QED
  BY <1>3, <1>4, <1>5, <1>6

-----------------------------------------------------------------------------
\* Every step keeps the invariant.
LEMMA ControllerStep == ControllerInv /\ [Next]_vars => ControllerInv'
<1> SUFFICES ASSUME ControllerInv, [Next]_vars PROVE ControllerInv'
  OBVIOUS
<1>1. CASE Start
  BY <1>1, StartKeeps
<1>2. CASE Shutdown \/ Kill \/ PowerFail
  BY <1>2, StopKeeps
<1>3. CASE Dashboard
  BY <1>3, UpdateKeeps, ActionKeeps, BeginKeeps, AskKeeps DEF Dashboard
<1>4. CASE Child
  BY <1>4, ChildKeeps, WaitKeeps DEF Child
<1>5. CASE UNCHANGED vars
  <2> USE <1>5 DEF vars, ControllerInv
  <2>1. TypeOK'
    BY DEF TypeOK
  <2>2. ShownInv' /\ WorkerInv' /\ ReviewedConfig' /\ SavesHold'
    BY DEF ShownInv, WorkerInv, Holding, ReviewedConfig, SavesHold, AckedSurvives, LiveIsSaved
  <2>3. ChildIsShown'
    BY DEF ChildIsShown, SlotHoldsWorker, RunsWhatIsShown, Mine, Active
  <2> QED
    BY <2>1, <2>2, <2>3
<1> QED
  BY <1>1, <1>2, <1>3, <1>4, <1>5 DEF Next

\* The invariant holds in every reachable state.
LEMMA ControllerInvariant == Spec => []ControllerInv
BY ControllerInit, ControllerStep, PTL DEF Spec

\* Every reachable state of the controller and its children is well typed, and
\* no two children have one number.
THEOREM ControllerTypeCorrect == Spec => []TypeOK
BY ControllerInvariant, PTL DEF ControllerInv

\* An action runs with the configuration that was reviewed for it: start
\* compares the generation and the revision under the mutex.
THEOREM ReviewedConfigAlways == Spec => []ReviewedConfig
BY ControllerInvariant, PTL DEF ControllerInv

\* A live child is the one the dashboard shows, in its slot and with the
\* configuration in force: saves are refused while an operation is active.
THEOREM ChildIsShownAlways == Spec => []ChildIsShown
BY ControllerInvariant, PTL DEF ControllerInv

\* A save that was reported as made is lost neither from controller-config.json
\* nor from the settings in force.
THEOREM SavesHoldAlways == Spec => []SavesHold
BY ControllerInvariant, PTL DEF ControllerInv

\* One child at a time works on the migration directory, because state.Open
\* takes the lock and every way out gives it back.
THEOREM OneMigratorAlways == Spec => []OneMigrator
<1>1. ControllerInv => OneMigrator
  BY DEF ControllerInv, WorkerInv, OneMigrator, Holding, TypeOK
<1> QED
  BY <1>1, ControllerInvariant, PTL

\* Work past the base copy is removed by a restart alone, under the lock, and
\* never from a finished migration.
THEOREM KeepsWorkAlways == Spec => KeepsWork
<1> DEFINE A == (phase \in {"catchup", "follow", "complete"} /\ phase' \in {"preflight", "copy"})
                  => phase # "complete" /\ Restarting
<1>1. ControllerInv /\ [Next]_vars => [A]_vars
  <2> SUFFICES ASSUME ControllerInv, Next,
                      phase \in {"catchup", "follow", "complete"}, phase' \in {"preflight", "copy"}
               PROVE  phase # "complete" /\ Restarting
    OBVIOUS
  <2>1. phase' # phase
    OBVIOUS
  <2>2. Child
    BY <2>1 DEF Next, Start, Shutdown, Kill, PowerFail, children, Dashboard, updateConfiguration,
      action, start, stop
  <2>3. PICK w \in worker : Open(w) \/ Restart(w) \/ Begin(w) \/ Advance(w) \/ Complete(w)
                             \/ Exit(w) \/ Reap(w) \/ execute(w)
    BY <2>2 DEF Child
  <2>4. Restart(w)
    BY <2>3, <2>1 DEF Open, Begin, Advance, After, Complete, Exit, Reap, execute
  <2>5. w.pc = "checking" /\ RestartAllowed
    BY <2>1, <2>4 DEF Restart
  <2> QED
    BY <2>5 DEF RestartAllowed, Restarting, ControllerInv, WorkerInv, Holding
<1> QED
  BY <1>1, ControllerInvariant, PTL DEF Spec, KeepsWork
=============================================================================
