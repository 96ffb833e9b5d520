-------------------------- MODULE IndexBuild_proofs --------------------------
(***************************************************************************)
(* Proofs about IndexBuild, for every schema, every number of workers and  *)
(* every number of kills and foreign changes: an object marked complete is *)
(* on the target whole, the phase is left only with everything there, an   *)
(* attempt fails only for a cause, and nothing but its own work is marked. *)
(***************************************************************************)
EXTENDS IndexBuild, TLAPS

\* The objects that a stage is about.
Kind(s) ==
  CASE s = "index"      -> Index
    [] s = "attach"     -> {x \in Index : Parent[x] # None}
    [] s = "constraint" -> Constraint
    [] s = "validate"   -> ForeignKey
    [] s = "deferred"   -> Deferred
    [] s = "vacuum"     -> Table
    [] OTHER            -> {}

\* What may be made of something other than the source's definition.
Lenient == Expression \cup Unprobed

Added(c) == there[c] = known[c]

-----------------------------------------------------------------------------
Ats == {"idle", "inspect", "create", "record", "adopt", "back", "again", "attach",
        "check", "vacuum", "complete"}
Stages == {"down", "index", "attach", "constraint", "validate", "deferred", "vacuum", "leave"}

WorkType == [Worker -> [job : Object \cup {None}, at : Ats, got : {"none", "own", "foreign"}]]

TypeInv ==
  /\ phase \in {"indexes", "catchup"} /\ stage \in Stages
  /\ done \subseteq Object
  /\ known \in [Inventory -> Renderings \cup {"none"}]
  /\ there \in [Named -> Renderings \cup {"absent"}]
  /\ work \in WorkType
  /\ todo \subseteq Kind(stage)

\* What a worker's step tells of its job: the stage it belongs to, and what the
\* step before it has seen or done.
JobOK(j, at, got) ==
  /\ at # "idle" => j \in Kind(stage) /\ j \notin todo
  /\ at = "inspect" => stage \in {"index", "constraint", "validate", "deferred"}
  /\ at = "create" => stage \in {"index", "constraint", "deferred"}
  /\ at = "record" => stage \in {"index", "constraint"}
  /\ at \in {"adopt", "back", "again"} => stage = "index"
  /\ at = "attach" => stage = "attach"
  /\ at = "check" => stage = "validate"
  /\ at = "vacuum" => stage = "vacuum"
  /\ at = "complete" =>
       /\ stage \in {"index", "constraint", "validate", "deferred", "vacuum"}
       /\ stage = "constraint" => j \notin ForeignKey
       /\ j \in Backing => j \in backs
       /\ j \in Constraint => j \in valid \cup forged
       /\ j \in Deferred => there[j] # "absent"
       /\ j \in Table => j \in vacuumed
  /\ at \in {"record", "adopt"} => /\ there[j] # "absent"
                                   /\ there[j] = "own" \/ j \in Lenient
  /\ at \in {"back", "again", "complete"} /\ j \in Inventory => Added(j)
  /\ at = "back" => j \in Backing /\ j \notin Parted
  /\ at = "again" => j \in backs
  /\ at = "adopt" /\ got = "own" => j \in backs
  /\ at # "idle" /\ stage = "validate" => Added(j)
  /\ at \notin {"idle", "inspect"} /\ stage = "index" => j \notin done

WorkInv == \A w \in Worker : JobOK(work[w].job, work[w].at, work[w].got)

\* No two workers have the same job.
ApartInv == \A w, v \in Worker :
              /\ w # v /\ work[w].at # "idle" /\ work[v].at # "idle"
              => work[w].job # work[v].job

\* What the target and the state file hold of each object.
ObjectInv ==
  /\ \A o \in done \cap Named : there[o] # "absent"
  /\ \A o \in Named \ forged : there[o] \in {"own", "absent"}
  /\ \A c \in (Constraint \ (ForeignKey \ Direct)) \ forged : there[c] # "absent" => c \in valid
  /\ \A o \in Inventory : known[o] \in {"none", "own"} \/ o \in Lenient
  /\ backs \subseteq Backing
  /\ MarksAreTrue

\* What a stray statement can be.
StrayInv ==
  \A s \in strays :
    /\ s \in {"create", "back", "attach", "check"} \X Named
    /\ s[1] = "create" /\ s[2] \in ForeignKey => Index \subseteq done
    /\ s[1] = "back" => s[2] \in Backing

\* What only somebody else's change can make untrue: of a worker's step,
OwnOK(j, at, got) ==
  /\ at = "create" /\ landed = {} => there[j] = "absent"
  /\ at = "back" /\ landed = {} => j \notin backs
  /\ at = "adopt" => /\ got # "foreign"
                     /\ got = "none" /\ landed = {} => j \notin backs
                     /\ got = "none" => j \notin Parted \cap Backing

\* and of the objects.
OwnInv ==
  forged = {} =>
    /\ \A o \in Inventory : known[o] \in {"none", "own"}
    /\ \A x \in Parted \cap Backing : there[x] # "absent" => x \in backs
    /\ \A c \in ForeignKey : there[c] # "absent" => Index \subseteq done
    /\ \A w \in Worker : OwnOK(work[w].job, work[w].at, work[w].got)

\* What the stages before this one have left.
PastInv ==
  /\ stage \in {"attach", "constraint", "validate", "deferred", "vacuum", "leave"}
       => Index \subseteq done
  /\ stage \in {"constraint", "validate", "deferred", "vacuum", "leave"}
       => Kind("attach") \subseteq attached
  /\ stage \in {"validate", "deferred", "vacuum", "leave"}
       => \A c \in Constraint : c \in done \/ (c \in ForeignKey /\ Added(c))
  /\ stage \in {"deferred", "vacuum", "leave"} => ForeignKey \subseteq done
  /\ stage \in {"vacuum", "leave"} => Deferred \subseteq done
  /\ stage = "leave" => Table \subseteq done
  /\ stage = "validate" => \A c \in todo : Added(c)
  /\ phase = "catchup" => /\ stage = "down" /\ Object \subseteq done
                          /\ Kind("attach") \subseteq attached

\* A job of the stage is to be handed out, in a worker's hands, or finished.
Finished(j) ==
  IF stage = "attach" THEN j \in attached
  ELSE j \in done \/ (stage = "constraint" /\ j \in ForeignKey /\ Added(j))
Held(j) == \E w \in Worker : work[w].at # "idle" /\ work[w].job = j
JobsInv == ~failed => \A j \in Kind(stage) : j \in todo \/ Finished(j) \/ Held(j)

\* One job at a time where the stage says so, and none once a probe has failed.
AloneInv == stage \in Serial => \A w, v \in Worker :
              work[w].at # "idle" /\ work[v].at # "idle" => w = v
CalmInv == fault = "unanswered" => failed /\ \A w \in Worker : work[w].at = "idle"

BuildInv == /\ TypeInv /\ WorkInv /\ ApartInv /\ ObjectInv /\ StrayInv /\ OwnInv /\ PastInv
            /\ JobsInv /\ AloneInv /\ CalmInv /\ FailsForCause

-----------------------------------------------------------------------------
\* The kinds of objects are apart from each other.
LEMMA Kinds ==
  /\ Parted \subseteq Index /\ Backing \subseteq Index /\ Expression \subseteq Index
  /\ ForeignKey \subseteq Constraint /\ WithTable \subseteq Constraint \ ForeignKey
  /\ Unprobed \subseteq Constraint /\ Direct \subseteq ForeignKey
  /\ Index \cap Constraint = {} /\ Deferred \cap Inventory = {} /\ Table \cap Named = {}
  /\ None \notin Object
  /\ Inventory \subseteq Named /\ Named \subseteq Object
  /\ Index \subseteq Inventory /\ Constraint \subseteq Inventory
  /\ Deferred \subseteq Named /\ Table \subseteq Object
BY InventoryAssumption DEF Inventory, Named, Object

LEMMA KindIs ==
  /\ Kind("index") = Index /\ Kind("attach") = {x \in Index : Parent[x] # None}
  /\ Kind("constraint") = Constraint /\ Kind("validate") = ForeignKey
  /\ Kind("deferred") = Deferred /\ Kind("vacuum") = Table
  /\ Kind("down") = {} /\ Kind("leave") = {}
BY DEF Kind

LEMMA KindType == ASSUME NEW s \in Stages PROVE Kind(s) \subseteq Object
BY Kinds, KindIs DEF Stages

LEMMA BuildInit == Init => BuildInv
<1> SUFFICES ASSUME Init PROVE BuildInv
  OBVIOUS
<1> USE Kinds, KindIs DEF Init
<1>1. TypeInv
  <2>1. work \in WorkType
    BY DEF WorkType, Idle, Ats
  <2> QED
    BY <2>1 DEF TypeInv, Stages, Renderings
<1>2. WorkInv /\ ApartInv
  BY DEF WorkInv, ApartInv, JobOK, Idle
<1>3. ObjectInv
  BY DEF ObjectInv, MarksAreTrue
<1>4. StrayInv
  BY DEF StrayInv
<1>5. OwnInv
  <2>1. \A w \in Worker : OwnOK(work[w].job, work[w].at, work[w].got)
    BY DEF OwnOK, Idle
  <2> QED
    BY <2>1 DEF OwnInv
<1>6. PastInv /\ JobsInv
  BY DEF PastInv, JobsInv
<1>7. FailsForCause /\ AloneInv /\ CalmInv
  BY DEF FailsForCause, AloneInv, CalmInv, Idle
<1> QED
  BY <1>1, <1>2, <1>3, <1>4, <1>5, <1>6, <1>7 DEF BuildInv

-----------------------------------------------------------------------------
\* Worker w is now at step a of job j.
Moved(w, j, a, g) ==
  /\ work' \in WorkType
  /\ work'[w].job = j /\ work'[w].at = a /\ work'[w].got = g
  /\ \A v \in Worker \ {w} : work'[v] = work[v]

LEMMA StepMoves ==
  ASSUME work \in WorkType, NEW w \in Worker, NEW a \in Ats, Step(w, a)
  PROVE  Moved(w, work[w].job, a, work[w].got) /\ UNCHANGED <<failed, fault>>
BY DEF WorkType, Step, Moved

LEMMA SawMoves ==
  ASSUME work \in WorkType, NEW w \in Worker, NEW a \in Ats,
         NEW s \in {"none", "own", "foreign"}, Saw(w, a, s)
  PROVE  Moved(w, work[w].job, a, s) /\ UNCHANGED <<failed, fault>>
BY DEF WorkType, Saw, Moved

LEMMA DoneMoves ==
  ASSUME work \in WorkType, NEW w \in Worker, JobDone(w)
  PROVE  Moved(w, None, "idle", "none") /\ UNCHANGED <<failed, fault>>
BY DEF WorkType, JobDone, Moved, Idle, Ats

LEMMA FailMoves ==
  ASSUME work \in WorkType, NEW w \in Worker, NEW f, Fail(w, f)
  PROVE  /\ Moved(w, None, "idle", "none") /\ failed' = TRUE
         /\ fault' = f \/ fault' = fault
BY DEF WorkType, Fail, Moved, Idle, Ats

-----------------------------------------------------------------------------
(***************************************************************************)
(* A worker's step touches only its own job.                               *)
(***************************************************************************)
Touches(j) ==
  /\ UNCHANGED <<phase, stage, todo, strays, landed, forged>>
  /\ done' \in {done, done \cup {j}}
  /\ known' \in [Inventory -> Renderings \cup {"none"}]
  /\ \A o \in Inventory : o # j => known'[o] = known[o]
  /\ there' \in [Named -> Renderings \cup {"absent"}]
  /\ \A o \in Named : \/ there'[o] = there[o]
                      \/ o = j /\ there[o] = "absent" /\ there'[o] = "own"
  /\ backs \subseteq backs' /\ backs' \subseteq backs \cup {j}
  /\ attached \subseteq attached' /\ valid \subseteq valid' /\ vacuumed \subseteq vacuumed'

\* What it does there: an object is marked when it is ready, its rendering is
\* recorded as it is, it is made as the source describes it.
Sound(j) ==
  /\ j \in done' \ done => /\ j \in Object /\ (j \in forged \/ Ready(j)')
                           /\ j \in Named => there'[j] # "absent"
  /\ j \in Inventory => \/ known'[j] = known[j]
                        \/ /\ known'[j] = there[j] /\ there'[j] = there[j]
                           /\ there[j] # "absent" /\ (there[j] = "own" \/ j \in Lenient)
  /\ j \in Named => \/ there'[j] = there[j]
                    \/ /\ j \in Constraint \ (ForeignKey \ Direct) => j \in valid'
                       /\ j \in Parted \cap Backing => j \in backs'
                       /\ j \in ForeignKey => Index \subseteq done
  /\ backs' \subseteq Backing

\* The jobs of the other workers are as they were.
LEMMA OtherJob ==
  ASSUME TypeInv, NEW j, Touches(j), NEW k \in Object, k # j, NEW a, NEW g,
         JobOK(k, a, g)
  PROVE  JobOK(k, a, g)' /\ (OwnOK(k, a, g) /\ k \in Kind(stage) => OwnOK(k, a, g)')
<1>1. /\ k \in Named => there'[k] = there[k]
      /\ k \in Inventory => known'[k] = known[k]
      /\ k \in done' <=> k \in done
      /\ k \in backs' <=> k \in backs
      /\ k \in valid => k \in valid'
      /\ k \in vacuumed => k \in vacuumed'
      /\ UNCHANGED <<stage, todo, landed, forged>>
  BY DEF Touches
<1>2. k \in Kind(stage) /\ stage # "vacuum" => k \in Named
  BY Kinds, KindIs DEF TypeInv, Stages
<1>3. k \in Kind(stage) /\ stage \in {"index", "attach", "constraint", "validate"} => k \in Inventory
  BY Kinds, KindIs DEF TypeInv, Stages
<1>4. JobOK(k, a, g)'
  BY <1>1, <1>2, <1>3, Kinds DEF JobOK, Added
<1>5. OwnOK(k, a, g) /\ k \in Kind(stage) => OwnOK(k, a, g)'
  BY <1>1, <1>2, <1>3 DEF OwnOK, JobOK
<1> QED
  BY <1>4, <1>5

LEMMA StepKeeps ==
  ASSUME BuildInv, NEW w \in Worker, NEW j \in Object, j = work[w].job, work[w].at # "idle",
         Touches(j), Sound(j), NEW k, NEW a \in Ats, NEW g, Moved(w, k, a, g),
         k = j \/ a = "idle", JobOK(j, a, g)', forged = {} => OwnOK(j, a, g)',
         failed => failed', a = "idle" => failed' \/ Finished(j)', CalmInv', FailsForCause'
  PROVE  BuildInv'
<1>1. TypeInv'
  BY DEF BuildInv, TypeInv, Touches, Moved
<1>2. UNCHANGED <<phase, stage, todo, strays, landed, forged>> /\ done \subseteq done'
  BY DEF Touches
<1>3. \A o \in Inventory : Added(o) => Added(o)'
  <2> SUFFICES ASSUME NEW o \in Inventory, Added(o) PROVE Added(o)'
    OBVIOUS
  <2>1. there[o] # "absent" /\ o \in Named
    BY Kinds DEF Added, BuildInv, TypeInv, Renderings
  <2> QED
    BY <2>1 DEF Added, Touches, Sound
<1>4. WorkInv' /\ (forged = {} => \A v \in Worker : OwnOK(work[v].job, work[v].at, work[v].got)')
  <2> SUFFICES ASSUME NEW v \in Worker
               PROVE  /\ JobOK(work[v].job, work[v].at, work[v].got)'
                      /\ forged = {} => OwnOK(work[v].job, work[v].at, work[v].got)'
    BY DEF WorkInv
  <2>1. CASE v = w /\ a # "idle"
    BY <2>1 DEF Moved
  <2>2. CASE v = w /\ a = "idle"
    BY <2>2 DEF Moved, JobOK, OwnOK
  <2>3. CASE v # w /\ work[v].at = "idle"
    BY <2>3 DEF Moved, JobOK, OwnOK
  <2>4. CASE v # w /\ work[v].at # "idle"
    <3>1. PICK i, b, h : i = work[v].job /\ b = work[v].at /\ h = work[v].got
      OBVIOUS
    <3>2. JobOK(i, b, h) /\ (forged = {} => OwnOK(i, b, h))
      BY <3>1 DEF BuildInv, WorkInv, OwnInv
    <3>3. i \in Kind(stage) /\ i # j
      BY <2>4, <3>1, <3>2 DEF JobOK, BuildInv, ApartInv
    <3>4. i \in Object
      BY <3>3, KindType DEF BuildInv, TypeInv
    <3>5. JobOK(i, b, h)' /\ (forged = {} => OwnOK(i, b, h)')
      BY <3>2, <3>3, <3>4, OtherJob DEF BuildInv
    <3> QED
      BY <2>4, <3>1, <3>5 DEF Moved
  <2> QED
    BY <2>1, <2>2, <2>3, <2>4
<1>5. ApartInv'
  BY DEF BuildInv, ApartInv, Moved
<1>6. ObjectInv'
  <2>1. \A o \in done' \cap Named : there'[o] # "absent"
    BY DEF BuildInv, ObjectInv, Touches, Sound
  <2>2. \A o \in Named \ forged' : there'[o] \in {"own", "absent"}
    BY DEF BuildInv, ObjectInv, Touches
  <2>3. \A c \in (Constraint \ (ForeignKey \ Direct)) \ forged' : there'[c] # "absent" => c \in valid'
    BY Kinds DEF BuildInv, ObjectInv, Touches, Sound
  <2>4. \A o \in Inventory : known'[o] \in {"none", "own"} \/ o \in Lenient
    BY DEF BuildInv, ObjectInv, Touches, Sound
  <2>5. MarksAreTrue'
    <3> SUFFICES ASSUME NEW o \in done' \ forged' PROVE Ready(o)'
      BY DEF MarksAreTrue
    <3>1. CASE o \in done
      <4>1. Ready(o)
        BY <1>2, <3>1 DEF BuildInv, ObjectInv, MarksAreTrue
      <4> QED
        BY <4>1 DEF Ready, Touches
    <3>2. CASE o \notin done
      BY <1>2, <3>2 DEF Sound, Touches
    <3> QED
      BY <3>1, <3>2
  <2> QED
    BY <2>1, <2>2, <2>3, <2>4, <2>5 DEF ObjectInv, Sound
<1>7. StrayInv'
  BY <1>2 DEF BuildInv, StrayInv
<1>8. OwnInv'
  <2> SUFFICES ASSUME forged = {} PROVE OwnInv'
    BY <1>2 DEF OwnInv
  <2>1. \A o \in Inventory : known'[o] \in {"none", "own"}
    BY Kinds DEF BuildInv, ObjectInv, OwnInv, Touches, Sound
  <2>2. \A x \in Parted \cap Backing : there'[x] # "absent" => x \in backs'
    BY Kinds DEF BuildInv, OwnInv, Touches, Sound
  <2>3. \A c \in ForeignKey : there'[c] # "absent" => Index \subseteq done'
    BY <1>2, Kinds DEF BuildInv, OwnInv, Touches, Sound
  <2> QED
    BY <1>2, <1>4, <2>1, <2>2, <2>3 DEF OwnInv
<1>9. PastInv'
  <2>1. stage \in {"validate", "deferred", "vacuum", "leave"}
          => \A c \in Constraint : c \in done' \/ (c \in ForeignKey /\ Added(c)')
    BY <1>2, <1>3, Kinds DEF BuildInv, PastInv
  <2>2. stage = "validate" => \A c \in todo : Added(c)'
    BY <1>2, <1>3, Kinds, KindIs DEF BuildInv, PastInv, TypeInv
  <2>3. attached \subseteq attached'
    BY DEF Touches
  <2> QED
    BY <1>2, <2>1, <2>2, <2>3 DEF BuildInv, PastInv
<1>10. JobsInv'
  <2> SUFFICES ASSUME ~failed', NEW i \in Kind(stage), i \notin todo PROVE Finished(i)' \/ Held(i)'
    BY <1>2 DEF JobsInv
  <2>1. Finished(i) \/ Held(i)
    BY DEF BuildInv, JobsInv
  <2>2. CASE Finished(i)
    BY <1>2, <1>3, <2>2, Kinds DEF Finished, Touches
  <2>3. CASE Held(i) /\ i # j
    BY <2>3 DEF Held, Moved
  <2>4. CASE i = j /\ a # "idle"
    BY <2>4 DEF Held, Moved
  <2>5. CASE i = j /\ a = "idle"
    BY <2>5
  <2> QED
    BY <2>1, <2>2, <2>3, <2>4, <2>5
<1>11. AloneInv'
  BY <1>2 DEF BuildInv, AloneInv, Moved
<1> QED
  BY <1>1, <1>4, <1>5, <1>6, <1>7, <1>8, <1>9, <1>10, <1>11 DEF BuildInv

\* The job of a busy worker is an object of the stage.
LEMMA JobType ==
  ASSUME BuildInv, NEW w \in Worker, work[w].at # "idle"
  PROVE  /\ work \in WorkType /\ work[w].job \in Object /\ work[w].job \in Kind(stage)
         /\ JobOK(work[w].job, work[w].at, work[w].got)
         /\ forged = {} => OwnOK(work[w].job, work[w].at, work[w].got)
         /\ fault # "unanswered"
<1>1. JobOK(work[w].job, work[w].at, work[w].got) /\ work \in WorkType /\ stage \in Stages
  BY DEF BuildInv, WorkInv, TypeInv
<1>2. work[w].job \in Kind(stage)
  BY <1>1 DEF JobOK
<1>3. work[w].job \in Object
  BY <1>1, <1>2, KindType
<1> QED
  BY <1>1, <1>2, <1>3 DEF BuildInv, OwnInv, CalmInv

\* A cause that FailsForCause accepts, of a failure that is not a probe's.
Justified(f) == /\ f # "unanswered"
                /\ f \in {"collision", "bare"} => forged # {}
                /\ f = "error" => landed # {} \/ forged # {}

\* A worker fails for a cause.
LEMMA FailKeeps ==
  ASSUME BuildInv, NEW w \in Worker, work[w].at # "idle",
         Touches(work[w].job), Sound(work[w].job), NEW f, Fail(w, f), Justified(f)
  PROVE  BuildInv'
<1>1. /\ work \in WorkType /\ work[w].job \in Object
  BY JobType
<1>2. PICK j \in Object : j = work[w].job
  BY <1>1
<1>3. Moved(w, None, "idle", "none") /\ failed' = TRUE /\ (fault' = f \/ fault' = fault)
  BY <1>1, FailMoves
<1>4. CalmInv' /\ FailsForCause'
  <2>1. fault' # "unanswered"
    BY <1>3, JobType DEF Justified
  <2> QED
    BY <1>3, <2>1 DEF BuildInv, CalmInv, FailsForCause, Justified, Touches
<1>5. JobOK(j, "idle", "none")' /\ OwnOK(j, "idle", "none")'
  BY DEF JobOK, OwnOK
<1>6. Touches(j) /\ Sound(j)
  BY <1>2
<1> QED
  BY <1>2, <1>3, <1>4, <1>5, <1>6, StepKeeps DEF Ats

\* A worker is done with its job.
LEMMA DoneKeeps ==
  ASSUME BuildInv, NEW w \in Worker, work[w].at # "idle",
         NEW j, j = work[w].job, Touches(j), Sound(j), JobDone(w), Finished(j)'
  PROVE  BuildInv'
<1>1. /\ work \in WorkType /\ j \in Object
  BY JobType
<1>2. Moved(w, None, "idle", "none") /\ UNCHANGED <<failed, fault>>
  BY <1>1, DoneMoves
<1>3. CalmInv' /\ FailsForCause'
  BY <1>2, JobType DEF BuildInv, CalmInv, FailsForCause, Touches
<1>4. JobOK(j, "idle", "none")' /\ OwnOK(j, "idle", "none")'
  BY DEF JobOK, OwnOK
<1> QED
  BY <1>1, <1>2, <1>3, <1>4, StepKeeps DEF Ats

\* A worker goes on to its next step.
LEMMA GoKeeps ==
  ASSUME BuildInv, NEW w \in Worker, work[w].at # "idle",
         NEW j, j = work[w].job, Touches(j), Sound(j), NEW a \in Ats, NEW g,
         Moved(w, j, a, g), UNCHANGED <<failed, fault>>, a # "idle",
         JobOK(j, a, g)', forged = {} => OwnOK(j, a, g)'
  PROVE  BuildInv'
<1>1. /\ work \in WorkType /\ j \in Object
  BY JobType
<1>2. CalmInv' /\ FailsForCause'
  BY JobType DEF BuildInv, CalmInv, FailsForCause, Touches
<1> QED
  BY <1>1, <1>2, StepKeeps

\* An inspection changes nothing.
Quiet == UNCHANGED <<store, target, strays, landed, forged, stage, todo>>

LEMMA QuietTouches ==
  ASSUME BuildInv, Quiet, NEW j
  PROVE  /\ Touches(j) /\ Sound(j)
         /\ \A a, g : /\ JobOK(j, a, g)' <=> JobOK(j, a, g)
                      /\ OwnOK(j, a, g)' <=> OwnOK(j, a, g)
         /\ Finished(j)' <=> Finished(j)
<1> USE DEF Quiet, store, target
<1>1. Touches(j)
  BY DEF Touches, BuildInv, TypeInv
<1>2. Sound(j)
  BY DEF Sound, BuildInv, ObjectInv
<1>3. \A a, g : JobOK(j, a, g)' <=> JobOK(j, a, g)
  BY DEF JobOK, Added
<1>4. \A a, g : OwnOK(j, a, g)' <=> OwnOK(j, a, g)
  BY DEF OwnOK
<1> QED
  BY <1>1, <1>2, <1>3, <1>4 DEF Finished, Added

\* What inspectIndex can report of an index that is there.
LEMMA ReportIs ==
  ASSUME BuildInv, NEW x \in Index, there[x] # "absent", NEW s \in Reported(x)
  PROVE  /\ s \in {"none", "own", "foreign"}
         /\ s = "own" => x \in backs
         /\ s = "none" => x \notin backs
         /\ forged = {} /\ x \notin done => s # "foreign"
         /\ forged = {} /\ s = "none" => x \notin Parted \cap Backing
<1>1. /\ s \in {"none", "own", "foreign"}
      /\ s = "own" => x \in backs
      /\ s = "none" => x \notin backs
      /\ s = "foreign" => \E f \in ForeignKey : Exists(f)
  BY DEF Reported
<1>2. forged = {} /\ x \notin done => s # "foreign"
  BY <1>1 DEF BuildInv, OwnInv, Exists
<1>3. forged = {} /\ s = "none" => x \notin Parted \cap Backing
  BY <1>1 DEF BuildInv, OwnInv
<1> QED
  BY <1>1, <1>2, <1>3

\* ensureIndex goes on with an index that is there, as recorded, and with the
\* constraint that was reported.
LEMMA ContinueKeeps ==
  ASSUME BuildInv, NEW w \in Worker, work[w].at # "idle", stage = "index",
         NEW x \in Index, x = work[w].job, x \notin done, there[x] # "absent",
         Touches(x), Sound(x), UNCHANGED <<done, there, backs>>, Added(x)',
         NEW s \in {"none", "own", "foreign"}, Continue(w, x, s),
         s = "own" => x \in backs,
         forged = {} => /\ s # "foreign"
                        /\ s = "none" /\ landed = {} => x \notin backs
                        /\ s = "none" => x \notin Parted \cap Backing
  PROVE  BuildInv'
<1>1. work \in WorkType /\ x \in Kind(stage) /\ x \notin todo
  BY JobType DEF JobOK
<1>2. UNCHANGED <<stage, todo, landed, forged>>
  BY DEF Touches
<1>3. x \notin Constraint /\ x \notin Deferred /\ x \notin Table /\ x \in Inventory
  BY Kinds
<1>8. PICK g : g = work[w].got
  OBVIOUS
<1>4. CASE Step(w, "complete") /\ (x \in Backing => s = "own")
  <2>1. JobOK(x, "complete", g)' /\ OwnOK(x, "complete", g)'
    BY <1>1, <1>2, <1>3, <1>4 DEF JobOK, OwnOK
  <2> QED
    BY <1>1, <1>8, <1>4, <2>1, StepMoves, GoKeeps DEF Ats
<1>5. CASE Step(w, "back") /\ x \in Backing \ Parted /\ s = "none"
  <2>1. JobOK(x, "back", g)'
    BY <1>1, <1>2, <1>3, <1>5 DEF JobOK
  <2>2. forged = {} => OwnOK(x, "back", g)'
    BY <1>2, <1>5 DEF OwnOK
  <2> QED
    BY <1>1, <1>8, <1>5, <2>1, <2>2, StepMoves, GoKeeps DEF Ats
<1>6. CASE Fail(w, "collision") /\ s # "none" /\ (x \in Backing => s # "own")
  <2>1. Justified("collision")
    BY <1>6 DEF Justified, BuildInv, ObjectInv
  <2> QED
    BY <1>6, <2>1, FailKeeps
<1>7. CASE Fail(w, "bare") /\ s = "none" /\ x \in Parted \cap Backing
  <2>1. Justified("bare")
    BY <1>7 DEF Justified
  <2> QED
    BY <1>7, <2>1, FailKeeps
<1> QED
  BY <1>4, <1>5, <1>6, <1>7, Kinds DEF Continue

-----------------------------------------------------------------------------
(***************************************************************************)
(* The steps of a worker.                                                  *)
(***************************************************************************)
\* An inspection that goes on, ends the job, or fails.
LEMMA QuietGoes ==
  ASSUME BuildInv, NEW w \in Worker, work[w].at # "idle", Quiet,
         NEW j, j = work[w].job, NEW a \in Ats, a # "idle", Step(w, a),
         \A g : JobOK(j, a, g) /\ (forged = {} => OwnOK(j, a, g))
  PROVE  BuildInv'
<1>1. PICK g : g = work[w].got
  OBVIOUS
<1>2. Moved(w, j, a, g) /\ UNCHANGED <<failed, fault>>
  BY <1>1, JobType, StepMoves
<1>3. Touches(j) /\ Sound(j) /\ JobOK(j, a, g)' /\ (forged = {} => OwnOK(j, a, g)')
  BY QuietTouches
<1> QED
  BY <1>2, <1>3, GoKeeps

LEMMA QuietDone ==
  ASSUME BuildInv, NEW w \in Worker, work[w].at # "idle", Quiet,
         NEW j, j = work[w].job, JobDone(w), Finished(j)
  PROVE  BuildInv'
BY QuietTouches, DoneKeeps

LEMMA QuietFails ==
  ASSUME BuildInv, NEW w \in Worker, work[w].at # "idle", Quiet,
         NEW f, Fail(w, f), Justified(f)
  PROVE  BuildInv'
<1>1. PICK j : j = work[w].job
  OBVIOUS
<1>2. Touches(j) /\ Sound(j)
  BY QuietTouches
<1> QED
  BY <1>1, <1>2, FailKeeps

\* What is there and was not forged is the source's.
LEMMA OwnThere ==
  ASSUME BuildInv, NEW o \in Named, o \notin forged, there[o] # "absent"
  PROVE  there[o] = "own"
BY DEF BuildInv, ObjectInv

LEMMA InspectIndexKeeps ==
  ASSUME BuildInv, NEW w \in Worker, InspectIndex(w) PROVE BuildInv'
<1>1. PICK x : x = work[w].job
  OBVIOUS
<1>2. /\ stage = "index" /\ work[w].at = "inspect" /\ Quiet
  BY DEF InspectIndex, Quiet, faults
<1>3. x \in Index /\ x \notin todo /\ x \in Kind(stage) /\ x \in Inventory /\ x \in Named
      /\ work \in WorkType
  BY <1>1, <1>2, JobType, KindIs, Kinds DEF JobOK
<1>4. Touches(x) /\ Sound(x)
  BY <1>2, QuietTouches
<1>5. CASE x \in done /\ JobDone(w)
  BY <1>1, <1>2, <1>5, QuietDone DEF Finished
<1>6. CASE x \notin done /\ ~Exists(x) /\ Step(w, "create")
  <2>1. \A g : JobOK(x, "create", g) /\ OwnOK(x, "create", g)
    BY <1>2, <1>3, <1>6 DEF JobOK, OwnOK, Exists
  <2> QED
    BY <1>1, <1>2, <1>6, <2>1, QuietGoes DEF Ats
<1>7. CASE x \notin done /\ Exists(x) /\ ~MatchesIndex(x) /\ Fail(w, "collision")
  <2>1. forged # {}
    BY <1>3, <1>7, OwnThere DEF MatchesIndex, Exists, BuildInv, OwnInv
  <2> QED
    BY <1>2, <1>7, <2>1, QuietFails DEF Justified
<1>8. CASE /\ x \notin done /\ Exists(x) /\ MatchesIndex(x)
           /\ \E s \in Reported(x) :
                 IF known[x] = "none" THEN Saw(w, "adopt", s) ELSE Continue(w, x, s)
  <2>1. PICK s \in Reported(x) :
           IF known[x] = "none" THEN Saw(w, "adopt", s) ELSE Continue(w, x, s)
    BY <1>8
  <2>2. /\ s \in {"none", "own", "foreign"}
        /\ s = "own" => x \in backs
        /\ s = "none" => x \notin backs
        /\ forged = {} => s # "foreign"
        /\ forged = {} /\ s = "none" => x \notin Parted \cap Backing
    BY <1>3, <1>8, ReportIs DEF Exists
  <2>3. CASE known[x] = "none"
    <3>1. JobOK(x, "adopt", s)
      BY <1>2, <1>3, <1>8, <2>2, <2>3 DEF JobOK, MatchesIndex, Exists, Lenient
    <3>2. forged = {} => OwnOK(x, "adopt", s)
      BY <2>2 DEF OwnOK
    <3>3. Moved(w, x, "adopt", s) /\ UNCHANGED <<failed, fault>>
      BY <1>1, <1>3, <2>1, <2>2, <2>3, SawMoves DEF Ats
    <3>4. JobOK(x, "adopt", s)' /\ (forged = {} => OwnOK(x, "adopt", s)')
      BY <1>2, <3>1, <3>2, QuietTouches
    <3> QED
      BY <1>1, <1>2, <1>4, <3>3, <3>4, GoKeeps DEF Ats
  <2>4. CASE known[x] # "none"
    <3>1. Added(x)' /\ UNCHANGED <<done, there, backs>>
      BY <1>2, <1>8, <2>4 DEF MatchesIndex, Added, Quiet, store, target
    <3> QED
      BY <1>1, <1>2, <1>3, <1>4, <1>8, <2>1, <2>2, <2>4, <3>1, ContinueKeeps DEF Exists
  <2> QED
    BY <2>3, <2>4
<1> QED
  BY <1>1, <1>5, <1>6, <1>7, <1>8 DEF InspectIndex

LEMMA InspectConstraintKeeps ==
  ASSUME BuildInv, NEW w \in Worker, InspectConstraint(w) PROVE BuildInv'
<1>1. PICK c : c = work[w].job
  OBVIOUS
<1>2. /\ stage = "constraint" /\ work[w].at = "inspect" /\ Quiet
  BY DEF InspectConstraint, Quiet, faults
<1>3. /\ c \in Constraint /\ c \notin todo /\ c \in Kind(stage) /\ c \in Inventory /\ c \in Named
      /\ c \notin Backing /\ c \notin Deferred /\ c \notin Table
  BY <1>1, <1>2, JobType, KindIs, Kinds DEF JobOK
<1>4. CASE c \in done /\ JobDone(w)
  BY <1>1, <1>2, <1>4, QuietDone DEF Finished
<1>5. CASE c \notin done /\ ~Exists(c) /\ Step(w, "create")
  <2>1. \A g : JobOK(c, "create", g) /\ OwnOK(c, "create", g)
    BY <1>2, <1>3, <1>5 DEF JobOK, OwnOK, Exists
  <2> QED
    BY <1>1, <1>2, <1>5, <2>1, QuietGoes DEF Ats
<1>6. CASE Exists(c) /\ ~MatchesConstraint(c) /\ Fail(w, "collision")
  <2>1. forged # {}
    BY <1>3, <1>6, OwnThere DEF MatchesConstraint, RendersAlike, Exists, BuildInv, OwnInv
  <2> QED
    BY <1>2, <1>6, <2>1, QuietFails DEF Justified
<1>7. CASE Exists(c) /\ MatchesConstraint(c) /\ known[c] = "none" /\ Step(w, "record")
  <2>1. \A g : JobOK(c, "record", g) /\ OwnOK(c, "record", g)
    BY <1>2, <1>3, <1>7 DEF JobOK, OwnOK, Exists, MatchesConstraint, RendersAlike, Lenient
  <2> QED
    BY <1>1, <1>2, <1>7, <2>1, QuietGoes DEF Ats
<1>8. CASE MatchesConstraint(c) /\ known[c] # "none" /\ c \in ForeignKey /\ JobDone(w)
  BY <1>1, <1>2, <1>8, QuietDone DEF Finished, Added, MatchesConstraint
<1>9. CASE /\ Exists(c) /\ MatchesConstraint(c) /\ known[c] # "none" /\ c \notin ForeignKey
           /\ Step(w, "complete")
  <2>1. c \in valid \cup forged
    BY <1>3, <1>9 DEF BuildInv, ObjectInv, Exists
  <2>2. \A g : JobOK(c, "complete", g) /\ OwnOK(c, "complete", g)
    BY <1>2, <1>3, <1>9, <2>1 DEF JobOK, OwnOK, Exists, MatchesConstraint, Added
  <2> QED
    BY <1>1, <1>2, <1>9, <2>2, QuietGoes DEF Ats
<1> QED
  BY <1>1, <1>4, <1>5, <1>6, <1>7, <1>8, <1>9 DEF InspectConstraint

\* A failed probe ends an attempt in which nobody else is at work.
LEMMA ProbeLapsesKeeps ==
  ASSUME BuildInv, NEW w \in Worker, ProbeLapses(w) PROVE BuildInv'
<1>1. PICK c : c = work[w].job
  OBVIOUS
<1>2. /\ stage = "constraint" /\ work[w].at = "inspect" /\ Quiet /\ Fail(w, "unanswered")
      /\ c \notin done /\ Exists(c) /\ Probed(c)
  BY <1>1 DEF ProbeLapses, Quiet
<1>3. /\ c \in Constraint /\ c \in Object /\ c \in Named /\ work \in WorkType
      /\ fault # "unanswered"
  BY <1>1, <1>2, JobType, KindIs, Kinds
<1>4. Touches(c) /\ Sound(c)
  BY <1>2, QuietTouches
<1>5. /\ Moved(w, None, "idle", "none") /\ failed' = TRUE
      /\ fault' = "unanswered" \/ fault' = fault
  BY <1>2, <1>3, FailMoves
<1>6. CalmInv'
  <2>1. \A v \in Worker \ {w} : work[v].at = "idle"
    BY <1>2 DEF BuildInv, AloneInv, Serial
  <2> QED
    BY <1>5, <2>1 DEF CalmInv, Moved
<1>7. FailsForCause'
  <2>1. c \notin Unprobed /\ known[c] = "none" /\ c \in Rewritten \cup forged
    BY <1>2, <1>3, OwnThere DEF Probed, Exists
  <2>2. UNCHANGED <<done, known, there, forged, landed>>
    BY <1>2 DEF Quiet, store, target
  <2>3. CASE fault' = "unanswered"
    BY <1>2, <1>3, <2>1, <2>2, <2>3 DEF FailsForCause, Exists
  <2>4. CASE fault' = fault
    BY <1>3, <2>2, <2>4 DEF BuildInv, FailsForCause
  <2> QED
    BY <1>5, <2>3, <2>4
<1>8. JobOK(c, "idle", "none")' /\ OwnOK(c, "idle", "none")'
  BY DEF JobOK, OwnOK
<1> QED
  BY <1>1, <1>2, <1>3, <1>4, <1>5, <1>6, <1>7, <1>8, StepKeeps DEF Ats

LEMMA InspectForeignKeyKeeps ==
  ASSUME BuildInv, NEW w \in Worker, InspectForeignKey(w) PROVE BuildInv'
<1>1. PICK c : c = work[w].job
  OBVIOUS
<1>2. /\ stage = "validate" /\ work[w].at = "inspect" /\ Quiet
      /\ Step(w, IF c \in valid THEN "complete" ELSE "check")
  BY <1>1 DEF InspectForeignKey, Quiet, faults
<1>3. /\ c \in Constraint /\ c \notin todo /\ c \in Kind(stage) /\ Added(c)
      /\ c \notin Backing /\ c \notin Deferred /\ c \notin Table
  BY <1>1, <1>2, JobType, KindIs, Kinds DEF JobOK
<1>4. CASE c \in valid
  <2>1. \A g : JobOK(c, "complete", g) /\ OwnOK(c, "complete", g)
    BY <1>2, <1>3, <1>4 DEF JobOK, OwnOK
  <2> QED
    BY <1>1, <1>2, <1>4, <2>1, QuietGoes DEF Ats
<1>5. CASE c \notin valid
  <2>1. \A g : JobOK(c, "check", g) /\ OwnOK(c, "check", g)
    BY <1>2, <1>3 DEF JobOK, OwnOK
  <2> QED
    BY <1>1, <1>2, <1>5, <2>1, QuietGoes DEF Ats
<1> QED
  BY <1>4, <1>5

LEMMA InspectDeferredKeeps ==
  ASSUME BuildInv, NEW w \in Worker, InspectDeferred(w) PROVE BuildInv'
<1>1. PICK d : d = work[w].job
  OBVIOUS
<1>2. /\ stage = "deferred" /\ work[w].at = "inspect" /\ Quiet
  BY DEF InspectDeferred, Quiet, faults
<1>3. /\ d \in Deferred /\ d \notin todo /\ d \in Kind(stage) /\ d \in Named
      /\ d \notin Inventory /\ d \notin Table /\ d \notin Backing /\ d \notin Constraint
  BY <1>1, <1>2, JobType, KindIs, Kinds DEF JobOK
<1>4. Diverged(d) => forged # {}
  BY <1>3, OwnThere DEF Diverged
<1>5. d \in done => Exists(d)
  BY <1>3 DEF BuildInv, ObjectInv, Exists
<1>6. CASE d \in done /\ JobDone(w)
  BY <1>1, <1>2, <1>6, QuietDone DEF Finished
<1>7. CASE Diverged(d) /\ Fail(w, "collision")
  BY <1>2, <1>4, <1>7, QuietFails DEF Justified
<1>8. CASE ~Exists(d) /\ Step(w, "create")
  <2>1. \A g : JobOK(d, "create", g) /\ OwnOK(d, "create", g)
    BY <1>2, <1>3, <1>8 DEF JobOK, OwnOK, Exists
  <2> QED
    BY <1>1, <1>2, <1>8, <2>1, QuietGoes DEF Ats
<1>9. CASE Exists(d) /\ Step(w, "complete")
  <2>1. \A g : JobOK(d, "complete", g) /\ OwnOK(d, "complete", g)
    BY <1>2, <1>3, <1>9 DEF JobOK, OwnOK, Exists
  <2> QED
    BY <1>1, <1>2, <1>9, <2>1, QuietGoes DEF Ats
<1> QED
  BY <1>1, <1>5, <1>6, <1>7, <1>8, <1>9 DEF InspectDeferred

LEMMA InspectAgainKeeps ==
  ASSUME BuildInv, NEW w \in Worker, InspectAgain(w) PROVE BuildInv'
<1>1. PICK x : x = work[w].job
  OBVIOUS
<1>2. work[w].at = "again" /\ Quiet
  BY DEF InspectAgain, Quiet, faults
<1>3. /\ stage = "index" /\ x \in Index /\ x \notin todo /\ x \in Kind(stage) /\ x \in backs
      /\ Added(x) /\ x \notin done /\ x \notin Constraint /\ x \notin Deferred /\ x \notin Table
      /\ x \in Inventory
  BY <1>1, <1>2, JobType, KindIs, Kinds DEF JobOK
<1>4. there[x] # "absent"
  BY <1>3 DEF Added, BuildInv, TypeInv, Renderings
<1>5. PICK s \in Reported(x) : IF s = "own" THEN Step(w, "complete") ELSE Fail(w, "collision")
  BY <1>1 DEF InspectAgain
<1>6. CASE s = "own"
  <2>1. \A g : JobOK(x, "complete", g) /\ OwnOK(x, "complete", g)
    BY <1>3 DEF JobOK, OwnOK
  <2> QED
    BY <1>1, <1>2, <1>5, <1>6, <2>1, QuietGoes DEF Ats
<1>7. CASE s # "own"
  <2>1. forged # {}
    BY <1>3, <1>4, <1>7, ReportIs
  <2> QED
    BY <1>2, <1>5, <1>7, <2>1, QuietFails DEF Justified
<1> QED
  BY <1>6, <1>7

\* A rendering is recorded as it is on the target.
LEMMA RecordTouches ==
  ASSUME BuildInv, NEW j \in Inventory, there[j] # "absent", there[j] = "own" \/ j \in Lenient,
         known' = [known EXCEPT ![j] = there[j]],
         UNCHANGED <<phase, done, target, faults, stage, todo>>
  PROVE  Touches(j) /\ Sound(j) /\ Added(j)' /\ UNCHANGED <<done, there, backs>>
<1> USE DEF target, faults
<1>1. there[j] \in Renderings /\ j \in Named
  BY Kinds DEF BuildInv, TypeInv
<1>2. known' \in [Inventory -> Renderings \cup {"none"}]
  BY <1>1 DEF BuildInv, TypeInv
<1>3. \A o \in Inventory : o # j => known'[o] = known[o]
  BY DEF BuildInv, TypeInv
<1>4. known'[j] = there[j]
  BY DEF BuildInv, TypeInv
<1>5. Touches(j)
  BY <1>2, <1>3 DEF Touches, BuildInv, TypeInv
<1>6. Sound(j)
  BY <1>4 DEF Sound, BuildInv, ObjectInv
<1> QED
  BY <1>4, <1>5, <1>6 DEF Added

LEMMA RecordKeeps ==
  ASSUME BuildInv, NEW w \in Worker, Record(w) PROVE BuildInv'
<1>1. PICK o : o = work[w].job
  OBVIOUS
<1>2. work[w].at = "record" /\ UNCHANGED <<stage, todo>>
  BY DEF Record
<1>3. /\ stage \in {"index", "constraint"} /\ o \in Kind(stage) /\ o \notin todo
      /\ there[o] # "absent" /\ (there[o] = "own" \/ o \in Lenient)
      /\ (stage = "index" => o \notin done) /\ work \in WorkType
  BY <1>1, <1>2, JobType DEF JobOK
<1>4. o \in Inventory /\ o \in Named /\ (o \in Index <=> stage = "index")
      /\ (o \in Constraint <=> stage = "constraint")
      /\ o \notin Deferred /\ o \notin Table
  BY <1>3, KindIs, Kinds
<1>5. Touches(o) /\ Sound(o) /\ Added(o)' /\ UNCHANGED <<done, there, backs>>
  BY <1>1, <1>3, <1>4, RecordTouches DEF Record
<1>6. CASE o \in Index
  <2>1. PICK s \in Reported(o) : Continue(w, o, s)
    BY <1>1, <1>6 DEF Record
  <2>2. /\ s \in {"none", "own", "foreign"}
        /\ s = "own" => o \in backs
        /\ s = "none" => o \notin backs
        /\ forged = {} => s # "foreign"
        /\ forged = {} /\ s = "none" => o \notin Parted \cap Backing
    BY <1>3, <1>4, <1>6, ReportIs
  <2> QED
    BY <1>1, <1>2, <1>3, <1>4, <1>5, <1>6, <2>1, <2>2, ContinueKeeps
<1>7. CASE o \in ForeignKey
  <2>1. JobDone(w)
    BY <1>1, <1>7, Kinds DEF Record
  <2>2. Finished(o)'
    BY <1>2, <1>3, <1>4, <1>5, <1>7, Kinds DEF Finished
  <2> QED
    BY <1>1, <1>2, <1>5, <2>1, <2>2, DoneKeeps
<1>8. CASE o \notin Index /\ o \notin ForeignKey
  <2>1. Step(w, "complete")
    BY <1>1, <1>8 DEF Record
  <2>2. stage = "constraint" /\ o \in Constraint /\ o \notin Backing /\ o \in valid \cup forged
    BY <1>3, <1>4, <1>8, Kinds DEF BuildInv, ObjectInv
  <2>3. valid' = valid /\ forged' = forged
    BY DEF Record, target, faults
  <2>4. PICK g : g = work[w].got
    OBVIOUS
  <2>5. JobOK(o, "complete", g)' /\ OwnOK(o, "complete", g)'
    BY <1>2, <1>3, <1>4, <1>5, <1>8, <2>2, <2>3 DEF JobOK, OwnOK
  <2>6. Moved(w, o, "complete", g) /\ UNCHANGED <<failed, fault>>
    BY <1>1, <1>3, <2>1, <2>4, StepMoves DEF Ats
  <2> QED
    BY <1>1, <1>2, <1>5, <2>5, <2>6, GoKeeps DEF Ats
<1> QED
  BY <1>6, <1>7, <1>8

LEMMA AdoptKeeps ==
  ASSUME BuildInv, NEW w \in Worker, Adopt(w) PROVE BuildInv'
<1>1. PICK x, s : x = work[w].job /\ s = work[w].got
  OBVIOUS
<1>2. work[w].at = "adopt" /\ UNCHANGED <<stage, todo>> /\ Continue(w, x, s)
  BY <1>1 DEF Adopt
<1>3. /\ stage = "index" /\ x \in Index /\ x \notin done
      /\ there[x] # "absent" /\ (there[x] = "own" \/ x \in Lenient)
      /\ (s = "own" => x \in backs) /\ x \in Inventory
  BY <1>1, <1>2, JobType, KindIs, Kinds DEF JobOK
<1>4. forged = {} => /\ s # "foreign"
                     /\ s = "none" /\ landed = {} => x \notin backs
                     /\ s = "none" => x \notin Parted \cap Backing
  BY <1>1, <1>2, JobType DEF OwnOK
<1>5. s \in {"none", "own", "foreign"}
  BY <1>1, <1>2, JobType DEF WorkType
<1>6. Touches(x) /\ Sound(x) /\ Added(x)' /\ UNCHANGED <<done, there, backs>>
  BY <1>1, <1>3, RecordTouches DEF Adopt
<1> QED
  BY <1>1, <1>2, <1>3, <1>4, <1>5, <1>6, ContinueKeeps

LEMMA CompleteKeeps ==
  ASSUME BuildInv, NEW w \in Worker, Complete(w) PROVE BuildInv'
<1>1. PICK j : j = work[w].job
  OBVIOUS
<1>2. /\ work[w].at = "complete" /\ JobDone(w) /\ done' = done \cup {j}
      /\ UNCHANGED <<phase, known, there, backs, attached, valid, vacuumed, strays, landed,
                     forged, crashes, stage, todo>>
  BY <1>1 DEF Complete, target, faults
<1>3. j \in Object /\ JobOK(j, "complete", work[w].got)
  BY <1>1, <1>2, JobType
<1>4. j \in Named => there[j] # "absent"
  <2>1. j \in Inventory => there[j] # "absent"
    BY <1>3 DEF JobOK, Added, BuildInv, TypeInv, Renderings
  <2> QED
    BY <1>3, <2>1 DEF JobOK, Named
<1>5. j \in forged \/ Ready(j)
  BY <1>3, <1>4, OwnThere DEF JobOK, Ready
<1>6. Touches(j)
  BY <1>2 DEF Touches, BuildInv, TypeInv
<1>7. Sound(j)
  BY <1>2, <1>3, <1>4, <1>5 DEF Sound, Ready, BuildInv, ObjectInv
<1>8. Finished(j)'
  BY <1>2, <1>3 DEF Finished, JobOK
<1> QED
  BY <1>1, <1>2, <1>6, <1>7, <1>8, DoneKeeps

LEMMA VacuumKeeps ==
  ASSUME BuildInv, NEW w \in Worker, Vacuum(w) PROVE BuildInv'
<1>1. PICK j, g : j = work[w].job /\ g = work[w].got
  OBVIOUS
<1>2. /\ work[w].at = "vacuum" /\ Step(w, "complete") /\ vacuumed' = vacuumed \cup {j}
      /\ UNCHANGED <<phase, done, known, there, backs, attached, valid, strays, landed,
                     forged, crashes, stage, todo>>
  BY <1>1 DEF Vacuum, store, faults
<1>3. /\ work \in WorkType /\ stage = "vacuum" /\ j \in Kind(stage) /\ j \in Table /\ j \notin todo
      /\ j \notin Inventory /\ j \notin Constraint /\ j \notin Deferred /\ j \notin Backing
  BY <1>1, <1>2, JobType, KindIs, Kinds DEF JobOK
<1>4. Touches(j)
  BY <1>2 DEF Touches, BuildInv, TypeInv
<1>5. Sound(j)
  BY <1>2 DEF Sound, BuildInv, ObjectInv
<1>6. JobOK(j, "complete", g)' /\ OwnOK(j, "complete", g)'
  BY <1>2, <1>3 DEF JobOK, OwnOK
<1>7. Moved(w, j, "complete", g) /\ UNCHANGED <<failed, fault>>
  BY <1>1, <1>2, <1>3, StepMoves DEF Ats
<1> QED
  BY <1>1, <1>2, <1>4, <1>5, <1>6, <1>7, GoKeeps DEF Ats

-----------------------------------------------------------------------------
\* What a statement leaves of the target.
Grows ==
  /\ there' \in [Named -> Renderings \cup {"absent"}]
  /\ \A o \in Named : there'[o] = there[o] \/ (there[o] = "absent" /\ there'[o] = "own")
  /\ backs \subseteq backs' /\ attached \subseteq attached'
  /\ valid \subseteq valid' /\ vacuumed \subseteq vacuumed'

LEMMA ExecuteGrows ==
  ASSUME BuildInv, NEW op \in {"create", "back", "attach", "check"}, NEW o \in Named,
         Accepted(op, o), Execute(op, o), op = "back" => o \in Backing
  PROVE  /\ Grows /\ backs' \subseteq backs \cup {o} /\ backs' \subseteq Backing
         /\ \A n \in Named : n # o => there'[n] = there[n]
         /\ op # "create" => there' = there
         /\ op = "create" => there'[o] = "own"
         /\ op = "back" => o \in backs'
         /\ op = "attach" => o \in attached'
         /\ op = "check" => o \in valid'
         /\ \/ there'[o] = there[o]
            \/ /\ op = "create"
               /\ o \in Constraint \ (ForeignKey \ Direct) => o \in valid'
               /\ o \in Parted \cap Backing => o \in backs'
<1>1. there \in [Named -> Renderings \cup {"absent"}] /\ backs \subseteq Backing
  BY DEF BuildInv, TypeInv, ObjectInv
<1>2. op = "create" => there[o] = "absent"
  BY DEF Accepted, Exists
<1>3. /\ there' \in [Named -> Renderings \cup {"absent"}]
      /\ \A n \in Named : n # o => there'[n] = there[n]
      /\ op # "create" => there' = there
      /\ op = "create" => there'[o] = "own"
  BY <1>1 DEF Execute, Renderings
<1>4. /\ backs \subseteq backs' /\ attached \subseteq attached'
      /\ valid \subseteq valid' /\ vacuumed \subseteq vacuumed'
      /\ backs' \subseteq backs \cup {o} /\ backs' \subseteq Backing
      /\ op = "back" => o \in backs'
      /\ op = "attach" => o \in attached'
      /\ op = "check" => o \in valid'
  BY <1>1 DEF Execute
<1>5. \/ there'[o] = there[o]
      \/ /\ op = "create"
         /\ o \in Constraint \ (ForeignKey \ Direct) => o \in valid'
         /\ o \in Parted \cap Backing => o \in backs'
  BY <1>3 DEF Execute
<1>6. Grows
  BY <1>2, <1>3, <1>4 DEF Grows
<1> QED
  BY <1>3, <1>4, <1>5, <1>6

\* In the absence of strays and foreign changes no statement is rejected.
LEMMA IssueAccepted ==
  ASSUME BuildInv, NEW w \in Worker, forged = {}, landed = {},
         NEW op \in {"create", "back", "attach", "check"}, op = work[w].at,
         NEW o, o = work[w].job
  PROVE  Accepted(op, o)
<1>1. JobOK(o, op, work[w].got) /\ OwnOK(o, op, work[w].got) /\ o \in Kind(stage) /\ o \in Object
  BY JobType
<1>2. \A x \in Index : x \in done => Exists(x) /\ (x \in Backing => x \in backs)
  BY Kinds DEF BuildInv, ObjectInv, MarksAreTrue, Ready, Exists
<1>3. CASE op = "create"
  <2>1. ~Exists(o)
    BY <1>1, <1>3 DEF OwnOK, Exists
  <2>2. ASSUME o \in ForeignKey PROVE Usable(Refers[o])
    <3>1. stage = "constraint"
      BY <1>1, <1>3, <2>2, Kinds, KindIs DEF JobOK
    <3>2. Index \subseteq done /\ Kind("attach") \subseteq attached
      BY <3>1 DEF BuildInv, PastInv
    <3>3. Refers[o] \in Index
      BY <2>2, InventoryAssumption
    <3>4. \A x \in Index : Children(x) \subseteq Kind("attach")
      BY KindIs, InventoryAssumption DEF Children
    <3>5. Below(Refers[o]) \subseteq Kind("attach")
      BY <3>3, <3>4, KindIs DEF Below
    <3> QED
      BY <1>2, <3>2, <3>3, <3>5 DEF Usable
  <2> QED
    BY <1>3, <2>1, <2>2 DEF Accepted
<1>4. CASE op = "back"
  <2>1. o \in Backing /\ o \notin Parted /\ Added(o) /\ o \in Inventory
    BY <1>1, <1>4, Kinds DEF JobOK
  <2>2. Exists(o)
    BY <2>1 DEF Added, Exists, BuildInv, TypeInv, Renderings
  <2> QED
    BY <1>1, <1>4, <2>1, <2>2 DEF Accepted, OwnOK
<1>5. CASE op = "attach"
  <2>1. stage = "attach"
    BY <1>1, <1>5 DEF JobOK
  <2>2. Index \subseteq done /\ o \in Index /\ Parent[o] \in Index
    BY <1>1, <2>1, KindIs, InventoryAssumption DEF BuildInv, PastInv
  <2>3. Parent[o] \in backs => o \in backs
    BY <1>2, <2>2, InventoryAssumption DEF BuildInv, ObjectInv
  <2> QED
    BY <1>2, <1>5, <2>2, <2>3 DEF Accepted
<1>6. CASE op = "check"
  <2>1. stage = "validate" /\ Added(o) /\ o \in Inventory
    BY <1>1, <1>6, KindIs, Kinds DEF JobOK
  <2>2. Exists(o)
    BY <2>1 DEF Added, Exists, BuildInv, TypeInv, Renderings
  <2> QED
    BY <1>6, <2>2 DEF Accepted
<1> QED
  BY <1>3, <1>4, <1>5, <1>6

LEMMA IssueKeeps ==
  ASSUME BuildInv, NEW w \in Worker, Issue(w) PROVE BuildInv'
<1>1. PICK o, op, g : o = work[w].job /\ op = work[w].at /\ g = work[w].got
  OBVIOUS
<1>2. /\ op \in {"create", "back", "attach", "check"} /\ work[w].at # "idle"
      /\ UNCHANGED <<phase, done, known, strays, landed, forged, crashes, stage, todo>>
  BY <1>1 DEF Issue, store, faults
<1>3. /\ work \in WorkType /\ JobOK(o, op, g) /\ o \in Kind(stage) /\ o \in Object /\ o \notin todo
  BY <1>1, <1>2, JobType DEF JobOK
<1>4. o \in Named
  BY <1>2, <1>3, KindIs, Kinds DEF JobOK
<1>5. CASE ~Accepted(op, o)
  <2>1. Fail(w, "error") /\ Quiet
    BY <1>1, <1>5 DEF Issue, Quiet, faults
  <2>2. Justified("error")
    BY <1>1, <1>2, <1>5, IssueAccepted DEF Justified
  <2> QED
    BY <1>2, <2>1, <2>2, QuietFails
<1>6. CASE Accepted(op, o)
  <2>1. Execute(op, o)
    BY <1>1, <1>6 DEF Issue
  <2>2. op = "back" => o \in Backing
    BY <1>3 DEF JobOK
  <2>3. /\ Grows /\ backs' \subseteq backs \cup {o} /\ backs' \subseteq Backing
        /\ \A n \in Named : n # o => there'[n] = there[n]
        /\ op # "create" => there' = there
        /\ op = "create" => there'[o] = "own"
        /\ op = "back" => o \in backs'
        /\ op = "attach" => o \in attached'
        /\ op = "check" => o \in valid'
        /\ \/ there'[o] = there[o]
           \/ /\ op = "create"
              /\ o \in Constraint \ (ForeignKey \ Direct) => o \in valid'
              /\ o \in Parted \cap Backing => o \in backs'
    BY <1>2, <1>4, <1>6, <2>1, <2>2, ExecuteGrows
  <2>4. Touches(o)
    BY <1>2, <2>3 DEF Touches, Grows, BuildInv, TypeInv
  <2>5. op = "create" /\ o \in ForeignKey => Index \subseteq done
    BY <1>3, KindIs, Kinds DEF JobOK, BuildInv, PastInv
  <2>6. Sound(o)
    BY <1>2, <2>3, <2>5 DEF Sound
  <2>7. CASE op = "create" /\ o \in Inventory
    <3>1. Step(w, "record")
      BY <1>1, <1>6, <2>7 DEF Issue
    <3>2. JobOK(o, "record", g)' /\ OwnOK(o, "record", g)'
      BY <1>2, <1>3, <2>3, <2>7, KindIs, Kinds DEF JobOK, OwnOK
    <3> QED
      BY <1>1, <1>2, <1>3, <2>4, <2>6, <3>1, <3>2, StepMoves, GoKeeps DEF Ats
  <2>8. CASE op = "create" /\ o \notin Inventory
    <3>1. Step(w, "complete")
      BY <1>1, <1>6, <2>8 DEF Issue
    <3>2. /\ stage = "deferred" /\ o \in Deferred /\ o \notin Constraint /\ o \notin Backing
          /\ o \notin Table
      BY <1>3, <2>8, KindIs, Kinds DEF JobOK
    <3>3. JobOK(o, "complete", g)' /\ OwnOK(o, "complete", g)'
      BY <1>2, <1>3, <2>3, <2>8, <3>2 DEF JobOK, OwnOK
    <3> QED
      BY <1>1, <1>2, <1>3, <2>4, <2>6, <3>1, <3>3, StepMoves, GoKeeps DEF Ats
  <2>9. CASE op = "back"
    <3>1. Step(w, "again")
      BY <1>1, <1>6, <2>9 DEF Issue
    <3>2. JobOK(o, "again", g)' /\ OwnOK(o, "again", g)'
      BY <1>2, <1>3, <2>3, <2>9 DEF JobOK, OwnOK, Added
    <3> QED
      BY <1>1, <1>2, <1>3, <2>4, <2>6, <3>1, <3>2, StepMoves, GoKeeps DEF Ats
  <2>10. CASE op = "attach"
    <3>1. JobDone(w)
      BY <1>1, <1>6, <2>10 DEF Issue
    <3>2. Finished(o)'
      BY <1>2, <1>3, <2>3, <2>10 DEF JobOK, Finished
    <3> QED
      BY <1>1, <1>2, <2>4, <2>6, <3>1, <3>2, DoneKeeps
  <2>11. CASE op = "check"
    <3>1. Step(w, "complete")
      BY <1>1, <1>6, <2>11 DEF Issue
    <3>2. /\ stage = "validate" /\ o \in Constraint /\ o \notin Backing /\ o \notin Deferred
          /\ o \notin Table
      BY <1>3, <2>11, KindIs, Kinds DEF JobOK
    <3>3. JobOK(o, "complete", g)' /\ OwnOK(o, "complete", g)'
      BY <1>2, <1>3, <2>3, <2>11, <3>2 DEF JobOK, OwnOK, Added
    <3> QED
      BY <1>1, <1>2, <1>3, <2>4, <2>6, <3>1, <3>3, StepMoves, GoKeeps DEF Ats
  <2> QED
    BY <1>2, <2>7, <2>8, <2>9, <2>10, <2>11
<1> QED
  BY <1>5, <1>6

-----------------------------------------------------------------------------
(***************************************************************************)
(* The rest of the attempt, and what happens to it.                        *)
(***************************************************************************)
LEMMA TakeKeeps ==
  ASSUME BuildInv, NEW w \in Worker, Take(w) PROVE BuildInv'
<1>1. PICK j \in todo :
        /\ todo' = todo \ {j}
        /\ work' = [work EXCEPT ![w] = [Idle EXCEPT !.job = j,
                     !.at = IF stage \in {"attach", "vacuum"} THEN stage ELSE "inspect"]]
  BY DEF Take
<1>2. /\ UNCHANGED <<phase, done, known, there, backs, attached, valid, vacuumed, strays, landed,
                     forged, crashes, stage, failed, fault>>
      /\ work[w].at = "idle"
  BY DEF Take, store, target, faults, Busy
<1>3. PICK a : a = IF stage \in {"attach", "vacuum"} THEN stage ELSE "inspect"
  OBVIOUS
<1>4. work \in WorkType /\ stage \in Stages /\ j \in Kind(stage) /\ j \in Object /\ a \in Ats
  BY <1>3, KindType DEF BuildInv, TypeInv, Ats
<1>5. Moved(w, j, a, "none")
  BY <1>1, <1>3, <1>4 DEF Moved, WorkType, Idle
<1>6. TypeInv'
  BY <1>1, <1>2, <1>5 DEF BuildInv, TypeInv, Moved
<1>7. JobOK(j, a, "none")' /\ OwnOK(j, a, "none")'
  <2>1. stage = "validate" => Added(j)
    BY DEF BuildInv, PastInv
  <2>2. stage \in {"index", "attach", "constraint", "validate", "deferred", "vacuum"}
    BY <1>4, KindIs DEF Stages
  <2> QED
    BY <1>1, <1>2, <1>3, <1>4, <2>1, <2>2 DEF JobOK, OwnOK, Added
<1>8. ASSUME NEW k, NEW b, NEW h
      PROVE  /\ JobOK(k, b, h) => JobOK(k, b, h)'
             /\ OwnOK(k, b, h) => OwnOK(k, b, h)'
  BY <1>1, <1>2 DEF JobOK, OwnOK, Added
<1>9. ASSUME NEW v \in Worker
      PROVE  /\ JobOK(work[v].job, work[v].at, work[v].got)'
             /\ forged = {} => OwnOK(work[v].job, work[v].at, work[v].got)'
  <2>1. CASE v = w
    BY <1>5, <1>7, <2>1 DEF Moved
  <2>2. CASE v # w
    <3>1. PICK k, b, h : k = work[v].job /\ b = work[v].at /\ h = work[v].got
      OBVIOUS
    <3>2. JobOK(k, b, h) /\ (forged = {} => OwnOK(k, b, h))
      BY <3>1 DEF BuildInv, WorkInv, OwnInv
    <3>3. JobOK(k, b, h)' /\ (forged = {} => OwnOK(k, b, h)')
      BY <1>8, <3>2
    <3> QED
      BY <1>5, <2>2, <3>1, <3>3 DEF Moved
  <2> QED
    BY <2>1, <2>2
<1>10. WorkInv'
  BY <1>9 DEF WorkInv
<1>11. ApartInv'
  <2>1. \A v \in Worker : work[v].at # "idle" => work[v].job # j
    BY DEF BuildInv, WorkInv, JobOK
  <2> QED
    BY <1>5, <2>1 DEF BuildInv, ApartInv, Moved
<1>12. ObjectInv' /\ StrayInv'
  BY <1>2 DEF BuildInv, ObjectInv, StrayInv, MarksAreTrue, Ready
<1>13. OwnInv'
  BY <1>2, <1>9 DEF BuildInv, OwnInv
<1>14. PastInv'
  BY <1>1, <1>2 DEF BuildInv, PastInv, Added
<1>15. JobsInv'
  <2> SUFFICES ASSUME ~failed, NEW i \in Kind(stage), i \notin todo' PROVE Finished(i)' \/ Held(i)'
    BY <1>2 DEF JobsInv
  <2>1. CASE i = j
    BY <1>3, <1>5, <2>1 DEF Held, Moved
  <2>2. CASE i # j
    <3>1. Finished(i) \/ Held(i)
      BY <1>1, <2>2 DEF BuildInv, JobsInv
    <3>2. Finished(i) => Finished(i)'
      BY <1>2 DEF Finished, Added
    <3>3. Held(i) => Held(i)'
      BY <1>2, <1>5 DEF Held, Moved
    <3> QED
      BY <3>1, <3>2, <3>3
  <2> QED
    BY <2>1, <2>2
<1>16. FailsForCause' /\ CalmInv'
  <2>1. fault # "unanswered"
    BY DEF Take, BuildInv, CalmInv
  <2> QED
    BY <1>2, <2>1 DEF BuildInv, FailsForCause, CalmInv
<1>17. AloneInv'
  <2>1. stage \in Serial => \A v \in Worker : work[v].at = "idle"
    BY DEF Take, Busy
  <2> QED
    BY <1>2, <1>5, <2>1 DEF AloneInv, Moved
<1> QED
  BY <1>6, <1>10, <1>11, <1>12, <1>13, <1>14, <1>15, <1>16, <1>17 DEF BuildInv

\* What a worker has on its way.
LEMMA SentIs ==
  ASSUME BuildInv, NEW w \in Worker, NEW s \in Sent(w)
  PROVE  /\ s \in {"create", "back", "attach", "check"} \X Named
         /\ s[1] = "create" /\ s[2] \in ForeignKey => Index \subseteq done
         /\ s[1] = "back" => s[2] \in Backing
<1>1. PICK o, op, g : o = work[w].job /\ op = work[w].at /\ g = work[w].got
  OBVIOUS
<1>2. op \in {"create", "back", "attach", "check"} /\ s = <<op, o>>
  BY <1>1 DEF Sent
<1>3. JobOK(o, op, g) /\ o \in Kind(stage)
  BY <1>1, <1>2, JobType
<1>4. o \in Named
  BY <1>2, <1>3, KindIs, Kinds DEF JobOK
<1>5. op = "create" /\ o \in ForeignKey => Index \subseteq done
  BY <1>3, KindIs, Kinds DEF JobOK, BuildInv, PastInv
<1>6. op = "back" => o \in Backing
  BY <1>3 DEF JobOK
<1> QED
  BY <1>2, <1>4, <1>5, <1>6

LEMMA CancelKeeps ==
  ASSUME BuildInv, NEW w \in Worker, Cancel(w) PROVE BuildInv'
<1>1. /\ UNCHANGED <<phase, done, known, there, backs, attached, valid, vacuumed, landed,
                     forged, crashes, stage, todo, failed, fault>>
      /\ failed /\ JobDone(w)
  BY DEF Cancel, JobDone, store, target
<1>2. Moved(w, None, "idle", "none")
  BY <1>1, DoneMoves DEF BuildInv, TypeInv
<1>3. TypeInv'
  BY <1>1, <1>2 DEF BuildInv, TypeInv, Moved
<1>4. ASSUME NEW v \in Worker
      PROVE  /\ JobOK(work[v].job, work[v].at, work[v].got)'
             /\ forged = {} => OwnOK(work[v].job, work[v].at, work[v].got)'
  <2>1. CASE v = w
    BY <1>2, <2>1 DEF Moved, JobOK, OwnOK
  <2>2. CASE v # w
    BY <1>1, <1>2, <2>2 DEF Moved, JobOK, OwnOK, Added, BuildInv, WorkInv, OwnInv
  <2> QED
    BY <2>1, <2>2
<1>5. WorkInv' /\ ApartInv'
  BY <1>2, <1>4 DEF WorkInv, BuildInv, ApartInv, Moved
<1>6. ObjectInv' /\ PastInv'
  BY <1>1 DEF BuildInv, ObjectInv, MarksAreTrue, Ready, PastInv, Added
<1>7. StrayInv'
  BY <1>1, SentIs DEF Cancel, BuildInv, StrayInv
<1>8. OwnInv'
  BY <1>1, <1>4 DEF BuildInv, OwnInv
<1>9. JobsInv' /\ FailsForCause' /\ CalmInv'
  <2>1. fault # "unanswered"
    BY DEF Cancel, Busy, BuildInv, CalmInv
  <2> QED
    BY <1>1, <2>1 DEF BuildInv, JobsInv, FailsForCause, CalmInv
<1>10. AloneInv'
  BY <1>1, <1>2 DEF BuildInv, AloneInv, Moved
<1> QED
  BY <1>3, <1>5, <1>6, <1>7, <1>8, <1>9, <1>10 DEF BuildInv

\* The state file and the target as they were, and no worker with a job.
LEMMA AllIdle ==
  ASSUME BuildInv, UNCHANGED <<done, known, there, backs, attached, valid, vacuumed, landed, forged>>,
         work' \in WorkType, \A w \in Worker : work'[w].at = "idle"
  PROVE  WorkInv' /\ ApartInv' /\ ObjectInv' /\ OwnInv' /\ AloneInv'
<1>1. \A w \in Worker : /\ JobOK(work[w].job, work[w].at, work[w].got)'
                        /\ OwnOK(work[w].job, work[w].at, work[w].got)'
  BY DEF JobOK, OwnOK
<1> QED
  BY <1>1 DEF BuildInv, WorkInv, ApartInv, ObjectInv, MarksAreTrue, Ready, OwnInv, AloneInv

LEMMA CrashKeeps ==
  ASSUME BuildInv, Crash PROVE BuildInv'
<1>1. /\ UNCHANGED <<phase, done, known, there, backs, attached, valid, vacuumed, landed, forged>>
      /\ stage # "down" /\ stage' = "down" /\ todo' = {} /\ work' = [w \in Worker |-> Idle]
      /\ fault' = "none"
  BY DEF Crash, store, target
<1>2. work' \in WorkType /\ \A w \in Worker : work'[w].at = "idle"
  BY <1>1 DEF WorkType, Idle, Ats
<1>3. WorkInv' /\ ApartInv' /\ ObjectInv' /\ OwnInv' /\ AloneInv'
  BY <1>1, <1>2, AllIdle
<1>4. TypeInv'
  BY <1>1, <1>2 DEF BuildInv, TypeInv, Stages
<1>5. StrayInv'
  BY <1>1, SentIs DEF Crash, BuildInv, StrayInv
<1>6. PastInv' /\ JobsInv' /\ FailsForCause' /\ CalmInv'
  BY <1>1, KindIs DEF BuildInv, PastInv, JobsInv, FailsForCause, CalmInv
<1> QED
  BY <1>3, <1>4, <1>5, <1>6 DEF BuildInv

LEMMA ResumeKeeps ==
  ASSUME BuildInv, Resume PROVE BuildInv'
<1>1. /\ UNCHANGED <<phase, done, known, there, backs, attached, valid, vacuumed, strays, landed,
                     forged, work>>
      /\ stage = "down" /\ phase = "indexes" /\ stage' = "index" /\ todo' = Index
      /\ fault' = "none"
  BY DEF Resume, store, target, faults, Jobs
<1>2. work' \in WorkType /\ \A w \in Worker : work'[w].at = "idle"
  BY <1>1, KindIs DEF BuildInv, TypeInv, WorkInv, JobOK
<1>3. WorkInv' /\ ApartInv' /\ ObjectInv' /\ OwnInv' /\ AloneInv'
  BY <1>1, <1>2, AllIdle
<1>4. TypeInv'
  BY <1>1, <1>2, KindIs DEF BuildInv, TypeInv, Stages
<1>5. StrayInv' /\ PastInv' /\ JobsInv' /\ FailsForCause' /\ CalmInv'
  BY <1>1, KindIs DEF BuildInv, StrayInv, PastInv, JobsInv, FailsForCause, CalmInv
<1> QED
  BY <1>3, <1>4, <1>5 DEF BuildInv

LEMMA LeaveKeeps ==
  ASSUME BuildInv, Leave PROVE BuildInv'
<1>1. /\ UNCHANGED <<done, known, there, backs, attached, valid, vacuumed, strays, landed,
                     forged, work, todo, failed, fault>>
      /\ stage = "leave" /\ phase' = "catchup" /\ stage' = "down"
  BY DEF Leave, target, faults
<1>2. work' \in WorkType /\ \A w \in Worker : work'[w].at = "idle"
  BY <1>1, KindIs DEF BuildInv, TypeInv, WorkInv, JobOK
<1>3. WorkInv' /\ ApartInv' /\ ObjectInv' /\ OwnInv' /\ AloneInv'
  BY <1>1, <1>2, AllIdle
<1>4. TypeInv'
  BY <1>1, <1>2, KindIs DEF BuildInv, TypeInv, Stages
<1>5. Object \subseteq done /\ Kind("attach") \subseteq attached
  BY <1>1 DEF BuildInv, PastInv, Object, Named, Inventory
<1>6. StrayInv' /\ PastInv' /\ JobsInv' /\ FailsForCause' /\ CalmInv'
  BY <1>1, <1>5, KindIs DEF BuildInv, StrayInv, PastInv, JobsInv, FailsForCause, CalmInv, Exists
<1> QED
  BY <1>3, <1>4, <1>6 DEF BuildInv

\* The jobs of a stage that is over are finished, and the next stage has its own.
LEMMA NextStageKeeps ==
  ASSUME BuildInv, NextStage PROVE BuildInv'
<1>1. /\ UNCHANGED <<phase, done, known, there, backs, attached, valid, vacuumed, strays, landed,
                     forged, work, failed, fault>>
      /\ \A w \in Worker : work[w].at = "idle"
      /\ stage \in {"index", "attach", "constraint", "validate", "deferred", "vacuum"}
  BY DEF NextStage, store, target, faults, Busy, After
<1>2. work' \in WorkType /\ \A w \in Worker : work'[w].at = "idle"
  BY <1>1 DEF BuildInv, TypeInv
<1>3. WorkInv' /\ ApartInv' /\ ObjectInv' /\ OwnInv' /\ AloneInv'
  BY <1>1, <1>2, AllIdle
<1>4. StrayInv' /\ FailsForCause' /\ CalmInv'
  BY <1>1 DEF BuildInv, StrayInv, FailsForCause, CalmInv, Exists
<1>5. phase # "catchup"
  BY <1>1 DEF BuildInv, PastInv
<1>6. CASE failed
  <2>1. stage' = "down" /\ todo' = {}
    BY <1>6 DEF NextStage
  <2>2. TypeInv' /\ PastInv' /\ JobsInv'
    BY <1>1, <1>2, <1>5, <2>1, KindIs DEF BuildInv, TypeInv, Stages, PastInv, JobsInv
  <2> QED
    BY <1>3, <1>4, <2>2 DEF BuildInv
<1>7. CASE ~failed
  <2>1. todo = {} /\ stage' = After[stage] /\ todo' = Jobs(stage')
    BY <1>7 DEF NextStage
  <2>2. \A j \in Kind(stage) : Finished(j)
    BY <1>1, <1>7, <2>1 DEF BuildInv, JobsInv, Held
  <2>3. PICK s : s = stage'
    OBVIOUS
  <2>4. /\ stage = "index" => s = "attach" /\ Index \subseteq done
        /\ stage = "attach" => s = "constraint" /\ Kind("attach") \subseteq attached
        /\ stage = "constraint" =>
             s = "validate" /\ \A c \in Constraint : c \in done \/ (c \in ForeignKey /\ Added(c))
        /\ stage = "validate" => s = "deferred" /\ ForeignKey \subseteq done
        /\ stage = "deferred" => s = "vacuum" /\ Deferred \subseteq done
        /\ stage = "vacuum" => s = "leave" /\ Table \subseteq done
    BY <2>1, <2>2, <2>3, KindIs DEF After, Finished
  <2>5. s \in Stages \ {"down", "index"}
    BY <1>1, <2>4 DEF Stages
  <2>6. /\ s \notin {"validate", "vacuum", "leave"} => todo' = Kind(s)
        /\ s = "validate" => todo' = ForeignKey \ done
        /\ s = "vacuum" => todo' = Table \ done
        /\ s = "leave" => todo' = {}
    BY <2>1, <2>3, <2>5, KindIs DEF Jobs, Stages
  <2>7. TypeInv'
    BY <1>1, <1>2, <2>3, <2>5, <2>6, KindIs DEF BuildInv, TypeInv
  <2>8. PastInv'
    <3>1. s = "validate" => \A c \in todo' : Added(c)
      BY <1>1, <2>4, <2>6, Kinds
    <3>2. \A c : Added(c)' <=> Added(c)
      BY <1>1 DEF Added
    <3> QED
      BY <1>1, <1>5, <2>3, <2>4, <3>1, <3>2 DEF BuildInv, PastInv
  <2>9. JobsInv'
    BY <1>1, <2>3, <2>5, <2>6, KindIs DEF JobsInv, Finished
  <2> QED
    BY <1>3, <1>4, <2>7, <2>8, <2>9 DEF BuildInv
<1> QED
  BY <1>6, <1>7

LEMMA ForeignKeeps ==
  ASSUME BuildInv, NEW o \in Named, NEW r \in Renderings, Foreign(o, r) PROVE BuildInv'
<1>1. /\ UNCHANGED <<phase, done, known, vacuumed, strays, landed, work, stage, todo, failed, fault>>
      /\ stage = "down" /\ phase = "indexes" /\ there' = [there EXCEPT ![o] = r]
      /\ backs' = backs \ {o} /\ valid' = valid \ {o} /\ forged' = forged \cup {o}
  BY DEF Foreign, store, run
<1>2. \A w \in Worker : work[w].at = "idle"
  BY <1>1, KindIs DEF BuildInv, TypeInv, WorkInv, JobOK
<1>3. /\ there' \in [Named -> Renderings \cup {"absent"}] /\ there'[o] = r
      /\ \A n \in Named : n # o => there'[n] = there[n]
  BY <1>1 DEF BuildInv, TypeInv
<1>4. TypeInv'
  BY <1>1, <1>3 DEF BuildInv, TypeInv
<1>5. WorkInv' /\ ApartInv'
  BY <1>1, <1>2 DEF WorkInv, JobOK, ApartInv
<1>6. ObjectInv'
  <2>1. \A n \in done' \cap Named : there'[n] # "absent"
    BY <1>1, <1>3 DEF BuildInv, ObjectInv, Renderings
  <2>2. \A n \in Named \ forged' : there'[n] \in {"own", "absent"}
    BY <1>1, <1>3 DEF BuildInv, ObjectInv
  <2>3. \A c \in (Constraint \ (ForeignKey \ Direct)) \ forged' : there'[c] # "absent" => c \in valid'
    BY <1>1, <1>3, Kinds DEF BuildInv, ObjectInv
  <2>4. MarksAreTrue'
    BY <1>1, <1>3, Kinds DEF BuildInv, ObjectInv, MarksAreTrue, Ready
  <2> QED
    BY <1>1, <2>1, <2>2, <2>3, <2>4 DEF BuildInv, ObjectInv
<1>7. StrayInv' /\ OwnInv' /\ PastInv' /\ JobsInv' /\ AloneInv' /\ CalmInv'
  BY <1>1, KindIs DEF BuildInv, StrayInv, OwnInv, PastInv, JobsInv, AloneInv, CalmInv
<1>8. FailsForCause'
  <2>1. \A c \in Constraint : Exists(c) => Exists(c)'
    BY <1>3, Kinds DEF Exists, Renderings
  <2> QED
    BY <1>1, <2>1 DEF BuildInv, FailsForCause
<1> QED
  BY <1>4, <1>5, <1>6, <1>7, <1>8 DEF BuildInv

LEMMA StrayKeeps ==
  ASSUME BuildInv, NEW s \in strays, Stray(s[1], s[2]) PROVE BuildInv'
<1>1. PICK op, o : op = s[1] /\ o = s[2]
  OBVIOUS
<1>2. /\ op \in {"create", "back", "attach", "check"} /\ o \in Named
      /\ op = "create" /\ o \in ForeignKey => Index \subseteq done
      /\ op = "back" => o \in Backing
  BY <1>1 DEF BuildInv, StrayInv
<1>3. /\ UNCHANGED <<phase, done, known, stage, todo, work, failed, fault, forged>>
      /\ strays' \subseteq strays
  BY DEF Stray, store, run
<1>4. StrayInv'
  BY <1>3 DEF BuildInv, StrayInv
<1>5. CASE UNCHANGED <<target, landed>>
  <2>1. UNCHANGED <<there, backs, attached, valid, vacuumed, landed>>
    BY <1>5 DEF target
  <2>2. /\ TypeInv' /\ ApartInv' /\ ObjectInv' /\ PastInv'
        /\ AloneInv' /\ CalmInv' /\ FailsForCause'
    BY <1>3, <2>1 DEF BuildInv, TypeInv, ApartInv, ObjectInv, MarksAreTrue, Ready, PastInv, Added,
       AloneInv, CalmInv, FailsForCause, Exists
  <2>3. WorkInv' /\ OwnInv'
    BY <1>3, <2>1 DEF BuildInv, WorkInv, JobOK, Added, OwnInv, OwnOK
  <2>4. JobsInv'
    BY <1>3, <2>1 DEF BuildInv, JobsInv, Finished, Held, Added
  <2> QED
    BY <1>4, <2>2, <2>3, <2>4 DEF BuildInv
<1>6. CASE Accepted(op, o) /\ Execute(op, o) /\ landed' = landed \cup {<<op, o>>}
  <2>1. /\ Grows /\ backs' \subseteq Backing
        /\ \A n \in Named : n # o => there'[n] = there[n]
        /\ \/ there'[o] = there[o]
           \/ /\ op = "create"
              /\ o \in Constraint \ (ForeignKey \ Direct) => o \in valid'
              /\ o \in Parted \cap Backing => o \in backs'
    BY <1>2, <1>6, ExecuteGrows
  <2>2. TypeInv' /\ ApartInv' /\ AloneInv' /\ CalmInv'
    BY <1>3, <2>1 DEF BuildInv, TypeInv, ApartInv, AloneInv, CalmInv, Grows
  <2>3. \A n \in Inventory : Added(n) => Added(n)'
    BY <1>3, <2>1, Kinds DEF Added, Grows, BuildInv, TypeInv, Renderings
  <2>4. WorkInv'
    <3> SUFFICES ASSUME NEW w \in Worker PROVE JobOK(work[w].job, work[w].at, work[w].got)'
      BY DEF WorkInv
    <3>1. PICK k, b, h : k = work[w].job /\ b = work[w].at /\ h = work[w].got
      OBVIOUS
    <3>2. JobOK(k, b, h)
      BY <3>1 DEF BuildInv, WorkInv
    <3>3. /\ b \in {"record", "adopt"} => k \in Named
          /\ b # "idle" /\ stage = "validate" => k \in Inventory
      BY <3>2, KindIs, Kinds DEF JobOK
    <3>4. k \in Named /\ there[k] # "absent" => there'[k] = there[k]
      BY <2>1 DEF Grows
    <3>5. JobOK(k, b, h)'
      BY <1>3, <2>1, <2>3, <3>2, <3>3, <3>4, Kinds DEF JobOK, Grows
    <3> QED
      BY <1>3, <3>1, <3>5
  <2>5. ObjectInv'
    <3>1. \A n \in done' \cap Named : there'[n] # "absent"
      BY <1>3, <2>1 DEF BuildInv, ObjectInv, Grows
    <3>2. \A n \in Named \ forged' : there'[n] \in {"own", "absent"}
      BY <1>3, <2>1 DEF BuildInv, ObjectInv, Grows
    <3>3. \A c \in (Constraint \ (ForeignKey \ Direct)) \ forged' : there'[c] # "absent" => c \in valid'
      BY <1>3, <2>1, Kinds DEF BuildInv, ObjectInv, Grows
    <3>4. MarksAreTrue'
      BY <1>3, <2>1, Kinds DEF BuildInv, ObjectInv, MarksAreTrue, Ready, Grows
    <3> QED
      BY <1>3, <2>1, <3>1, <3>2, <3>3, <3>4 DEF BuildInv, ObjectInv
  <2>6. OwnInv'
    <3> SUFFICES ASSUME forged = {} PROVE OwnInv'
      BY <1>3 DEF OwnInv
    <3>1. \A n \in Inventory : known'[n] \in {"none", "own"}
      BY <1>3 DEF BuildInv, OwnInv
    <3>2. \A x \in Parted \cap Backing : there'[x] # "absent" => x \in backs'
      BY <2>1, Kinds DEF BuildInv, OwnInv, Grows
    <3>3. \A c \in ForeignKey : there'[c] # "absent" => Index \subseteq done'
      BY <1>2, <1>3, <2>1, Kinds DEF BuildInv, OwnInv, Grows
    <3>4. \A w \in Worker : OwnOK(work[w].job, work[w].at, work[w].got)'
      BY <1>3, <1>6 DEF BuildInv, OwnInv, OwnOK
    <3> QED
      BY <3>1, <3>2, <3>3, <3>4 DEF OwnInv
  <2>7. PastInv'
    <3>1. stage = "validate" => \A c \in todo : Added(c)'
      BY <2>3, KindIs, Kinds DEF BuildInv, PastInv, TypeInv
    <3>2. stage \in {"validate", "deferred", "vacuum", "leave"}
            => \A c \in Constraint : c \in done \/ (c \in ForeignKey /\ Added(c)')
      BY <2>3, Kinds DEF BuildInv, PastInv
    <3> QED
      BY <1>3, <2>1, <3>1, <3>2 DEF BuildInv, PastInv, Grows
  <2>8. JobsInv'
    BY <1>3, <2>1, <2>3, Kinds DEF BuildInv, JobsInv, Finished, Held, Grows
  <2>9. FailsForCause'
    <3>1. \A c \in Constraint : Exists(c) => Exists(c)'
      BY <2>1, Kinds DEF Exists, Grows
    <3> QED
      BY <1>3, <1>6, <3>1 DEF BuildInv, FailsForCause
  <2> QED
    BY <1>4, <2>2, <2>4, <2>5, <2>6, <2>7, <2>8, <2>9 DEF BuildInv
<1> QED
  BY <1>1, <1>5, <1>6 DEF Stray

-----------------------------------------------------------------------------
LEMMA BuildNext == BuildInv /\ [Next]_vars => BuildInv'
<1> SUFFICES ASSUME BuildInv, [Next]_vars PROVE BuildInv'
  OBVIOUS
<1>1. CASE Resume \/ NextStage \/ Leave \/ Crash
  BY <1>1, ResumeKeeps, NextStageKeeps, LeaveKeeps, CrashKeeps
<1>2. CASE \E w \in Worker : Advance(w)
  <2>1. PICK w \in Worker : Advance(w)
    BY <1>2
  <2> QED
    BY <2>1, TakeKeeps, InspectIndexKeeps, InspectConstraintKeeps, InspectForeignKeyKeeps,
       InspectDeferredKeeps, ProbeLapsesKeeps, VacuumKeeps, IssueKeeps, RecordKeeps, AdoptKeeps,
       InspectAgainKeeps, CompleteKeeps, CancelKeeps DEF Advance
<1>3. CASE \E s \in strays : Stray(s[1], s[2])
  BY <1>3, StrayKeeps
<1>4. CASE \E o \in Named, r \in Renderings : Foreign(o, r)
  BY <1>4, ForeignKeeps
<1>5. CASE UNCHANGED vars
  <2>1. UNCHANGED <<phase, done, known, there, backs, attached, valid, vacuumed, strays, stage,
                    todo, work, failed, fault, landed, forged>>
    BY <1>5 DEF vars
  <2>2. /\ TypeInv' /\ ApartInv' /\ ObjectInv' /\ StrayInv'
        /\ AloneInv' /\ CalmInv' /\ FailsForCause'
    BY <2>1 DEF BuildInv, TypeInv, ApartInv, ObjectInv, MarksAreTrue, Ready, StrayInv,
       AloneInv, CalmInv, FailsForCause, Exists
  <2>3. WorkInv' /\ OwnInv'
    BY <2>1 DEF BuildInv, WorkInv, JobOK, Added, OwnInv, OwnOK
  <2>4. PastInv' /\ JobsInv'
    BY <2>1 DEF BuildInv, PastInv, JobsInv, Finished, Held, Added
  <2> QED
    BY <2>2, <2>3, <2>4 DEF BuildInv
<1> QED
  BY <1>1, <1>2, <1>3, <1>4, <1>5 DEF Next

LEMMA BuildInvariant == Spec => []BuildInv
BY BuildInit, BuildNext, PTL DEF Spec

LEMMA BuildImplies == BuildInv => TargetComplete
<1> SUFFICES ASSUME BuildInv PROVE CatchupIsComplete
  BY DEF BuildInv, ObjectInv, TargetComplete
<1> SUFFICES ASSUME phase = "catchup", forged = {}
             PROVE  (\A o \in Object : Ready(o)) /\ (\A x \in Index : Usable(x))
  BY DEF CatchupIsComplete
<1>1. Object \subseteq done /\ Kind("attach") \subseteq attached
  BY DEF BuildInv, PastInv
<1>2. \A o \in Object : Ready(o)
  BY <1>1 DEF BuildInv, ObjectInv, MarksAreTrue
<1>3. \A x \in Index : Children(x) \subseteq Kind("attach")
  BY KindIs, InventoryAssumption DEF Children
<1>4. \A x \in Index : Below(x) \subseteq attached
  BY <1>1, <1>3, KindIs DEF Below
<1>5. \A x \in Index : Exists(x)
  BY <1>1, Kinds DEF BuildInv, ObjectInv, Exists
<1> QED
  BY <1>2, <1>4, <1>5 DEF Usable

\* Whatever is killed, cancelled or executed late, a mark of CompleteIndex,
\* CompleteConstraint or CompleteStep stands for an object that is whole on the
\* target, and the phase is left for catchup only with all of them.
THEOREM TargetCompleteAlways == Spec => []TargetComplete
BY BuildInvariant, BuildImplies, PTL

\* ensureIndex, ensureConstraint and RestoreDeferred never refuse what an
\* earlier attempt has made, but for a constraint without a recorded rendering
\* whose probe fails, and no statement is issued before its time.
THEOREM FailsForCauseAlways == Spec => []FailsForCause
<1>1. BuildInv => FailsForCause
  BY DEF BuildInv
<1> QED
  BY <1>1, BuildInvariant, PTL

\* A completion mark is only set on an object that is as recorded, and as the
\* source describes it unless matchIndex or rendersAlike could not tell.
THEOREM CompletesOwnAlways == Spec => CompletesOwn
<1>1. ASSUME BuildInv, [Next]_vars, NEW o \in (done' \ done) \cap Inventory
      PROVE  there[o] = known[o] /\ (there[o] = "own" \/ o \in Expression \cup Unprobed)
  <2>1. o \in done' /\ o \notin done /\ o \in Inventory
    BY <1>1
  <2>2. done' # done
    BY <2>1
  <2>3. \A w \in Worker : Advance(w) => Complete(w) \/ done' = done
    BY DEF Advance, Take, InspectIndex, InspectConstraint, InspectForeignKey, InspectDeferred,
       ProbeLapses, Vacuum, Issue, Record, Adopt, InspectAgain, Cancel, store
  <2>4. Resume \/ NextStage \/ Leave \/ Crash \/ vars' = vars => done' = done
    BY DEF Resume, NextStage, Leave, Crash, store, vars
  <2>5. (\E s \in strays : Stray(s[1], s[2])) \/ (\E n \in Named, r \in Renderings : Foreign(n, r))
          => done' = done
    BY DEF Stray, Foreign, store
  <2>6. PICK w \in Worker : Complete(w)
    BY <1>1, <2>2, <2>3, <2>4, <2>5 DEF Next
  <2>7. work[w].at = "complete" /\ work[w].job = o
    BY <2>1, <2>6 DEF Complete
  <2>8. there[o] = known[o]
    BY <1>1, <2>1, <2>7 DEF BuildInv, WorkInv, JobOK, Added
  <2>9. o \in Named /\ there[o] # "none"
    BY <1>1, <2>1, Kinds DEF BuildInv, TypeInv, Renderings
  <2> QED
    BY <1>1, <2>1, <2>8, <2>9 DEF BuildInv, ObjectInv, Lenient
<1>2. BuildInv /\ [Next]_vars
        => [\A o \in (done' \ done) \cap Inventory :
              /\ there[o] = known[o]
              /\ there[o] = "own" \/ o \in Expression \cup Unprobed]_vars
  BY <1>1
<1> QED
  BY <1>2, BuildInvariant, PTL DEF Spec, CompletesOwn
=============================================================================
