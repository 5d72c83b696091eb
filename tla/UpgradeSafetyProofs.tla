------------------------- MODULE UpgradeSafetyProofs -------------------------
(***************************************************************************)
(* Theorems about what the ladder of UpgradeOperator keeps apart and       *)
(* carries over: volumes, databases, ports and annotations.  They hold for *)
(* every number of nodes when a pod counts as available while it exists;   *)
(* the run stopped_by_scaledown shows what breaks when it does not.        *)
(***************************************************************************)
EXTENDS UpgradeOperatorProofs

-----------------------------------------------------------------------------
(***************************************************************************)
(* The inductive invariant.  A fact about a stage holds for the persisted  *)
(* status and already for the one a pass is about to persist: saving then  *)
(* disturbs nothing.  A stale pass will not save.                          *)

Held ==
    {status} \cup IF pass.pc \in {"save", "saveRequeue"} /\ ~pass.stale THEN {pass.st} ELSE {}

(* The stages in which no pod runs.                                        *)
Down == {"upgrade-primary", "upgrade-secondaries", "upgrade-primary-move"}

(* A status is empty at first; it has a target other than its version      *)
(* until the move, the same after it, and none in between upgrades.        *)
Known(st) ==
    /\ st.state = "" => st = NoStatus
    /\ st.state # "" => st.version # None
    /\ st.state = LastStage => st.target = st.version
    /\ st.state \notin {"", LastStage} => st.target # st.version

(* The pods are gone where the scripts work, listen where no client finds  *)
(* them on the way there, and run the binaries of the cluster's version.   *)
Apart(st) ==
    /\ st.state \in Down \cup {""} =>
          sts.replicas = 0 /\ \A n \in Nodes : pod[n].phase = "none"
    /\ st.state \in {"upgrade-preupgrade-sync", "upgrade-scaledown"} =>
          /\ sts.replicas # 0 => sts.port = MaintenancePort
          /\ \A n \in Nodes : pod[n].phase # "none" => pod[n].port = MaintenancePort
    /\ sts.replicas # 0 => sts.version = st.version
    /\ \A n \in Nodes : pod[n].phase # "none" => pod[n].version = st.version

(* Before the cluster is initialised there is nothing to upgrade.          *)
NoDatabase(st) ==
    /\ cm.leader = NoNode
    /\ st.target = None /\ st.offers = {}
    /\ \A n \in Nodes :
        /\ vol[n].data = None /\ vol[n].new = None
        /\ pod[n].phase \in {"none", "up"}

(* The databases on the leader's volume, and the identity on record.       *)
LeaderDatabase(st) ==
    LET v == vol[cm.leader] IN
    /\ st.state = "upgrade-primary" =>
          /\ v.data = st.version
          /\ v.new \in {None, st.target}
          /\ cm.dbid = st.version \/ (cm.dbid = st.target /\ v.new = st.target)
    /\ st.state = "upgrade-secondaries" =>
          v.data = st.version /\ v.new = st.target /\ cm.dbid = st.target
    /\ st.state = "upgrade-primary-move" =>
          /\ cm.dbid = st.target
          /\ \/ v.data = st.version /\ v.new = st.target
             \/ v.data = st.target /\ v.new = None
    /\ st.state \notin Down =>
          v.data = st.version /\ v.new = None /\ cm.dbid = st.version

(* The databases on the other volumes.                                     *)
OtherDatabases(st) ==
    \A n \in Nodes \ {cm.leader} :
        /\ vol[n].new = None
        /\ \/ vol[n].data = None
           \/ vol[n].data = st.version /\ st.state # "upgrade-primary-move"
           \/ /\ vol[n].data = st.target
              /\ st.state \in {"upgrade-secondaries", "upgrade-primary-move"}

Stored(st) ==
    /\ cm.dbid = None => NoDatabase(st)
    /\ cm.dbid # None =>
          /\ st.state # ""
          /\ cm.leader \in Nodes
          /\ LeaderDatabase(st)
          /\ OtherDatabases(st)

(* The jobs work on what their stage is about, and what they report is so. *)
UpJob(st) ==
    job["up"].phase # "none" =>
        /\ st.state = "upgrade-primary"
        /\ job["up"].node = cm.leader
        /\ job["up"].from = st.version /\ job["up"].to = st.target
        /\ job["up"].args = st.version
        /\ job["up"].ckpt \in {None, st.version}
        /\ Succeeded("up") => job["up"].newid = st.target /\ vol[cm.leader].new = st.target

MoveJob(st) ==
    job["move"].phase # "none" =>
        /\ st.state = "upgrade-primary-move"
        /\ job["move"].node = cm.leader
        /\ Succeeded("move") => vol[cm.leader].data = st.target

PreupgradeJob(st) ==
    job["preupgrade"].phase # "none" =>
        st.state = "upgrade-preupgrade" /\ job["preupgrade"].args \in {None, st.version}

SecondaryJobs(st) ==
    /\ pstream \in {NoNode, cm.leader}
    /\ \A n \in Nodes : sup[n].phase # "none" =>
        /\ st.state = "upgrade-secondaries"
        /\ n # cm.leader
        /\ sup[n].from = st.version /\ sup[n].to = st.target /\ sup[n].ckpt = st.version
        /\ SecondarySucceeded(n) => vol[n].data \in {None, st.target}

(* What the annotations carry from stage to stage.                         *)
Recorded(st) ==
    /\ st.state \in {"upgrade-preupgrade-scaledown", "upgrade-preupgrade-sync",
                     "upgrade-scaledown", "upgrade-primary"} => cm.initdb = st.version
    /\ st.state \in Down => cm.ckpt \in {None, st.version}
    /\ st.state \notin Down \cup {LastStage} => cm.ckpt = None

Fits(st) ==
    /\ Known(st) /\ Apart(st) /\ Stored(st)
    /\ UpJob(st) /\ MoveJob(st) /\ PreupgradeJob(st) /\ SecondaryJobs(st)
    /\ Recorded(st)

(* The status a pass may be about to save, given the persisted one.        *)
Follows ==
    \/ pass.st = status
    \/ /\ status.state \notin Stages \cup {""} /\ status.target = None
       /\ \/ \E s \in {"ready", "scaling"}, offers \in SUBSET Versions :
                pass.st = [status EXCEPT !.state = s, !.offers = offers]
          \/ \E t \in UpgradeVersions(status.version) :
                pass.st = [status EXCEPT !.target = t]
    \/ /\ status.state \notin Stages
       /\ status.target # None
       /\ pass.st = [status EXCEPT !.state = "upgrade-preupgrade"]
    \/ /\ status.state \in Stages \ {"upgrade-primary-move"}
       /\ pass.st = Advance(status)
    \/ /\ status.state = "upgrade-primary-move"
       /\ pass.st = Advance(Moved(status))

(* What a pass works on is the status as persisted, and why it is where it *)
(* is.                                                                     *)
StatusRead ==
    /\ pass.pc \in Points \ (FinalPoints \cup {"deleteDone", "deleteFailed"}) =>
          pass.st = status
    /\ pass.pc = "deleteDone" =>
          pass.st = IF status.state = "upgrade-primary-move" THEN Moved(status) ELSE status
    /\ pass.pc = "clear" => status.state = LastStage /\ pass.st = Advance(status)
    /\ pass.pc \in {"save", "saveRequeue"} /\ ~pass.stale => Follows
    /\ pass.pc = "initialize" => status.state = ""
    /\ pass.pc \in {"request", "service", "sts"} => status.state # "" /\ status.target = None
    /\ pass.pc = "request" /\ ~pass.stale => specVersion # status.version
    /\ pass.pc = "enter" => status.state # ""

(* What a pass has seen or done before it moves on.                        *)
Progress ==
    /\ pass.pc = "deleteDone" => Succeeded(StageJob[status.state])
    /\ pass.pc = "setDBId" => Succeeded("up")
    /\ pass.pc = "deleteDone" /\ status.state = "upgrade-preupgrade" =>
          cm.initdb = status.version
    /\ pass.pc = "deleteDone" /\ status.state = "upgrade-primary" => cm.dbid = status.target
    /\ pass.pc \in {"clients", "dropStream", "dropClients", "dropFailed"} =>
          pass.leader = cm.leader
    /\ pass.pc \in {"dropStream", "dropClients"} =>
          \A n \in Nodes \ {cm.leader} :
              /\ vol[n].data \in {None, status.target}
              /\ sup[n].phase # "none" => n \in pass.drop

Safe == StatusRead /\ Progress /\ \A st \in Held : Fits(st)

-----------------------------------------------------------------------------
(* What the parts of the invariant depend on.                              *)

(* The databases on the volumes stay what they are.                        *)
SameDatabases ==
    \A n \in Nodes : vol'[n].data = vol[n].data /\ vol'[n].new = vol[n].new

LEMMA KnownKept == ASSUME NEW st, Known(st) PROVE Known(st)'
  BY DEF Known

LEMMA ApartKept == ASSUME NEW st, Apart(st), UNCHANGED <<sts, pod>> PROVE Apart(st)'
  BY DEF Apart

LEMMA StoredKept ==
    ASSUME NEW st, Stored(st), SameDatabases, cm'.dbid = cm.dbid, cm'.leader = cm.leader,
           cm.dbid = None => \A n \in Nodes : pod'[n].phase \in {"none", "up"}
    PROVE  Stored(st)'
  <1>1. CASE cm.dbid = None
    BY <1>1 DEF Stored, NoDatabase, SameDatabases
  <1>2. CASE cm.dbid # None
    <2>1. LeaderDatabase(st)'
      BY <1>2 DEF Stored, LeaderDatabase, SameDatabases
    <2>2. OtherDatabases(st)'
      BY <1>2 DEF Stored, OtherDatabases, SameDatabases
    <2> QED
      BY <1>2, <2>1, <2>2 DEF Stored
  <1> QED
    BY <1>1, <1>2

(* Nothing of the leader's database is touched that a job refers to.       *)
LEMMA LeaderJobsKept ==
    ASSUME NEW st, UpJob(st), MoveJob(st), PreupgradeJob(st), UNCHANGED job,
           \/ cm'.leader = cm.leader /\ cm.leader \in Nodes /\ SameDatabases
           \/ cm'.leader = cm.leader /\ vol' = vol
           \/ job["up"].phase = "none" /\ job["move"].phase = "none"
    PROVE  UpJob(st)' /\ MoveJob(st)' /\ PreupgradeJob(st)'
  BY DEF UpJob, MoveJob, PreupgradeJob, Succeeded, SameDatabases

LEMMA SecondaryJobsKept ==
    ASSUME NEW st, SecondaryJobs(st), UNCHANGED sup, pstream' \in {NoNode, pstream},
           cm'.leader = cm.leader, SameDatabases
    PROVE  SecondaryJobs(st)'
  BY DEF SecondaryJobs, SecondarySucceeded, SameDatabases

LEMMA RecordedKept ==
    ASSUME NEW st, Recorded(st), cm'.initdb = cm.initdb, cm'.ckpt = cm.ckpt
    PROVE  Recorded(st)'
  BY DEF Recorded

(* The objects and the cluster as far as the invariant speaks of them.     *)
world == <<sts, job, sup, pstream, cm, pod, vol>>

LEMMA FitsKept == ASSUME NEW st, Fits(st), UNCHANGED world PROVE Fits(st)'
  <1>1. SameDatabases
    BY DEF world, SameDatabases
  <1>2. cm.dbid = None => \A n \in Nodes : pod'[n].phase \in {"none", "up"}
    BY DEF world, Fits, Stored, NoDatabase
  <1> QED
    BY <1>1, <1>2, KnownKept, ApartKept, StoredKept, LeaderJobsKept, SecondaryJobsKept,
       RecordedKept DEF Fits, world

LEMMA HeldKept ==
    ASSUME \A st \in Held : Fits(st), Held' \subseteq Held, UNCHANGED world
    PROVE  (\A st \in Held : Fits(st))'
  <1> SUFFICES ASSUME NEW st \in Held' PROVE Fits(st)'
    OBVIOUS
  <1> QED
    BY FitsKept

-----------------------------------------------------------------------------
(* The environment keeps the invariant.                                    *)

(* What a pass has seen of the jobs and the volumes stays so.              *)
LEMMA ProgressKept ==
    ASSUME Progress, UNCHANGED <<status, pass>>,
           \A j \in Jobs : Succeeded(j) => Succeeded(j)',
           cm'.initdb = cm.initdb,
           pass.pc = "deleteDone" => cm'.dbid = cm.dbid,
           pass.pc = "deleteDone" => status.state \in DOMAIN StageJob,
           pass.pc \in {"clients", "dropStream", "dropClients", "dropFailed"} =>
               /\ cm'.leader = cm.leader
               /\ \A n \in Nodes :
                   /\ vol'[n].data \in {vol[n].data, None, status.target}
                   /\ sup'[n].phase # "none" => sup[n].phase # "none"
    PROVE  Progress'
  <1>1. pass.pc = "deleteDone" => StageJob[status.state] \in Jobs
    BY LadderTypes
  <1> QED
    BY <1>1, JobsAre DEF Progress

(* Only the operator changes what a pass works on and reads.               *)
LEMMA ReadKept ==
    ASSUME StatusRead, UNCHANGED <<specVersion, status, pass>>
    PROVE  StatusRead' /\ Held' = Held
  BY DEF StatusRead, Follows, Held

LEMMA UserSafe ==
    ASSUME Inductive, Safe, NEW v \in Versions, SetVersion(v)
    PROVE  Safe'
  <1>1. pass \in PassType
    BY DEF Inductive, TypeOK
  <1>2. /\ pass' = [pass EXCEPT !.stale = pass'.stale]
        /\ pass'.stale \/ pass.pc = Idle
        /\ UNCHANGED <<status, world>>
    BY <1>1 DEF SetVersion, PassType, objects, cluster, world
  <1>3. /\ pass'.pc = pass.pc /\ pass'.st = pass.st /\ pass'.leader = pass.leader
        /\ pass'.drop = pass.drop
    BY <1>1, <1>2 DEF PassType
  <1>4. StatusRead'
    BY <1>2, <1>3 DEF Safe, StatusRead, Idle, Points, Follows
  <1>5. Progress'
    BY <1>2, <1>3 DEF Safe, Progress, Succeeded, world
  <1>6. Held' \subseteq Held
    BY <1>2, <1>3 DEF Held, Idle
  <1> QED
    BY <1>2, <1>4, <1>5, <1>6, HeldKept DEF Safe

(* A pod starts as its StatefulSet says, goes on as it is, or goes; its    *)
(* server runs only where there is a database, and none is lost with it.   *)
PodsChange ==
    /\ UNCHANGED <<specVersion, status, pass, sts, job, sup, pstream, cm>>
    /\ SameDatabases
    /\ \A n \in Nodes : pod'[n].phase # "none" =>
          \/ /\ pod[n].phase # "none"
             /\ pod'[n].version = pod[n].version /\ pod'[n].port = pod[n].port
          \/ /\ sts.replicas # 0
             /\ pod'[n].version = sts.version /\ pod'[n].port = sts.port
    /\ \A n \in Nodes :
          \/ pod'[n].phase \in {"none", "up"}
          \/ pod[n].phase \notin {"none", "up"}
          \/ vol[n].data # None

LEMMA PodsAre == ASSUME TypeOK, Pods \/ PodFaults PROVE PodsChange
  <1>1. PICK n \in Nodes : \/ PodStart(n) \/ PodReady(n) \/ PodRecovers(n)
                          \/ PodAvailable(n) \/ PodStop(n) \/ PodUnready(n) \/ PodLost(n)
    BY DEF Pods, PodFaults
  <1>2. PICK record : PodChange(n, record)
    BY <1>1 DEF PodStart, PodReady, PodRecovers, PodAvailable, PodStop, PodUnready, PodLost
  <1>3. pod \in [Nodes -> PodType] /\ vol \in [Nodes -> VolType]
    BY DEF TypeOK
  <1>4. UNCHANGED <<specVersion, status, pass, sts, job, sup, pstream, cm>>
    BY <1>2 DEF PodChange, objects
  <1>5. SameDatabases
    <2>1. vol' = vol \/ \E c : vol' = [vol EXCEPT ![n].ckpt = c]
      BY <1>1 DEF PodStart, PodReady, PodRecovers, PodAvailable, PodStop, PodUnready, PodLost,
           Dirty
    <2> QED
      BY <1>3, <2>1 DEF SameDatabases, VolType
  <1>6. \A m \in Nodes \ {n} : pod'[m] = pod[m]
    BY <1>2, <1>3 DEF PodChange
  <1>7. \/ pod'[n].phase = "none"
        \/ /\ pod[n].phase # "none"
           /\ pod'[n].version = pod[n].version /\ pod'[n].port = pod[n].port
        \/ /\ sts.replicas # 0
           /\ pod'[n].version = sts.version /\ pod'[n].port = sts.port
    BY <1>1, <1>3, NAssumption
       DEF PodStart, PodReady, PodRecovers, PodAvailable, PodStop, PodUnready, PodLost,
           PodChange, PodType, NoPod, Serving
  <1>8. \/ pod'[n].phase \in {"none", "up"} \/ pod[n].phase \notin {"none", "up"}
        \/ vol[n].data # None
    BY <1>1, <1>3
       DEF PodStart, PodReady, PodRecovers, PodAvailable, PodStop, PodUnready, PodLost,
           PodChange, PodType, NoPod, Serving
  <1> QED
    BY <1>4, <1>5, <1>6, <1>7, <1>8 DEF PodsChange

LEMMA PodsSafe == ASSUME Safe, Inductive, PodsChange PROVE Safe'
  <1>1. StatusRead' /\ Held' = Held
    BY ReadKept DEF Safe, PodsChange
  <1>2. Progress'
    <2>1. pass.pc = "deleteDone" => status.state \in DOMAIN StageJob
      BY DEF Inductive, PassInItsStage
    <2> QED
      BY <2>1, ProgressKept DEF Safe, PodsChange, Succeeded, SameDatabases
  <1>3. ASSUME NEW st \in Held PROVE Fits(st)'
    <2>1. Fits(st)
      BY DEF Safe
    <2>2. Known(st)'
      BY <2>1, KnownKept DEF Fits
    <2>3. Apart(st)'
      BY <2>1 DEF Fits, Apart, PodsChange
    <2>4. cm.dbid = None => \A n \in Nodes : pod'[n].phase \in {"none", "up"}
      BY <2>1 DEF Fits, Stored, NoDatabase, PodsChange
    <2>5. Stored(st)'
      BY <2>1, <2>4, StoredKept DEF Fits, PodsChange
    <2>6. UpJob(st)' /\ MoveJob(st)' /\ PreupgradeJob(st)'
      <3>1. job["up"].phase # "none" \/ job["move"].phase # "none" => cm.leader \in Nodes
        BY <2>1 DEF Inductive, JobHasNode, Fits, UpJob, MoveJob
      <3> QED
        BY <2>1, <3>1, LeaderJobsKept DEF Fits, PodsChange
    <2>7. SecondaryJobs(st)' /\ Recorded(st)'
      BY <2>1, SecondaryJobsKept, RecordedKept DEF Fits, PodsChange
    <2> QED
      BY <2>2, <2>3, <2>5, <2>6, <2>7 DEF Fits
  <1> QED
    BY <1>1, <1>2, <1>3 DEF Safe

(* Where a pod runs nothing works on the volumes, and they hold at most    *)
(* the database of the cluster's version.                                  *)
LEMMA WherePodsRun ==
    ASSUME Inductive, Safe, NEW n \in Nodes, pod[n].phase # "none", NEW st \in Held
    PROVE  /\ Fits(st) /\ status \in Held /\ Fits(status)
           /\ st.state \notin Down \cup {""} /\ status.state \notin Down \cup {""}
           /\ pod[n].version = st.version /\ st.version # None
           /\ job["up"].phase = "none" /\ job["move"].phase = "none"
           /\ pstream = NoNode /\ \A m \in Nodes : sup[m].phase = "none"
           /\ pass.pc \notin {"clients", "dropStream", "dropClients", "dropFailed"}
  <1>1. status \in Held /\ Fits(status) /\ Fits(st)
    BY DEF Held, Safe
  <1>2. st.state \notin Down \cup {""} /\ status.state \notin Down \cup {""}
    BY <1>1 DEF Fits, Apart
  <1>3. pod[n].version = st.version /\ st.version # None
    BY <1>1, <1>2 DEF Fits, Apart, Known
  <1>4. /\ job["up"].phase = "none" /\ job["move"].phase = "none"
        /\ \A m \in Nodes : sup[m].phase = "none"
    BY <1>1, <1>2 DEF Fits, UpJob, MoveJob, SecondaryJobs, Down
  <1>5. pstream = NoNode
    BY <1>2 DEF Inductive, JobsInTheirStage, Down
  <1>6. pass.pc \notin {"clients", "dropStream", "dropClients", "dropFailed"}
    BY <1>2 DEF Inductive, PassInItsStage, Down
  <1> QED
    BY <1>1, <1>2, <1>3, <1>4, <1>5, <1>6

(* Patroni gives the cluster its first database, another leader with the   *)
(* same database, or a replica a copy of the leader's.                     *)
LEMMA PatroniSafe == ASSUME Inductive, Safe, Patroni PROVE Safe'
  <1>1. PICK n \in Nodes : Bootstrap(n) \/ AcquireLeader(n) \/ Clone(n)
    BY DEF Patroni
  <1>2. pod[n].phase # "none"
    BY <1>1 DEF Bootstrap, AcquireLeader, Clone
  <1>3. /\ cm \in CmType /\ vol \in [Nodes -> VolType] /\ NoNode \notin Nodes
    BY NAssumption DEF Inductive, TypeOK, NoNode, Nodes
  <1>4. UNCHANGED <<specVersion, status, pass, sts, job, sup, pstream, pod>>
        /\ cm'.initdb = cm.initdb /\ cm'.ckpt = cm.ckpt
    BY <1>1, <1>3 DEF Bootstrap, AcquireLeader, Clone, PatroniChange, CmType, operator
  <1>5. StatusRead' /\ Held' = Held
    BY <1>4, ReadKept DEF Safe
  <1>6. Progress'
    <2>1. status \in Held /\ Fits(status)
      BY DEF Held, Safe
    <2>2. pass.pc \notin {"clients", "dropStream", "dropClients", "dropFailed"}
      BY <1>2, <2>1, WherePodsRun
    <2>3. pass.pc = "deleteDone" => status.state \in DOMAIN StageJob
      BY DEF Inductive, PassInItsStage
    <2>4. cm'.dbid = cm.dbid \/ cm.dbid = None
      BY <1>1, <1>3 DEF Bootstrap, AcquireLeader, Clone, PatroniChange, CmType
    <2>5. cm.dbid = None => status.state \notin Stages
      BY <2>1 DEF Fits, Stored, NoDatabase, Inductive, StagesHaveTargets
    <2> QED
      BY <1>4, <2>2, <2>3, <2>4, <2>5, LadderTypes, ProgressKept DEF Safe, Succeeded
  <1>7. ASSUME NEW st \in Held PROVE Fits(st)'
    <2>1. /\ Fits(st) /\ st.state \notin Down \cup {""}
          /\ pod[n].version = st.version /\ st.version # None
          /\ job["up"].phase = "none" /\ job["move"].phase = "none"
          /\ pstream = NoNode /\ \A m \in Nodes : sup[m].phase = "none"
      BY <1>2, WherePodsRun
    <2>2. Known(st)' /\ Apart(st)' /\ Recorded(st)'
      BY <1>4, <2>1, KnownKept, ApartKept, RecordedKept DEF Fits
    <2>3. UpJob(st)' /\ MoveJob(st)' /\ PreupgradeJob(st)' /\ SecondaryJobs(st)'
      BY <1>4, <2>1 DEF Fits, UpJob, MoveJob, PreupgradeJob, SecondaryJobs
    <2>4. CASE Bootstrap(n)
      <3>1. NoDatabase(st)
        BY <2>1, <2>4 DEF Bootstrap, Fits, Stored
      <3>2. /\ cm'.dbid = st.version /\ cm'.leader = n
            /\ vol'[n].data = st.version /\ vol'[n].new = None
            /\ \A m \in Nodes \ {n} : vol'[m] = vol[m]
        BY <1>3, <2>1, <2>4 DEF Bootstrap, PatroniChange, CmType
      <3>3. LeaderDatabase(st)'
        BY <2>1, <3>2 DEF LeaderDatabase, Down
      <3>4. OtherDatabases(st)'
        BY <3>1, <3>2 DEF OtherDatabases, NoDatabase
      <3> QED
        BY <2>1, <2>2, <2>3, <3>2, <3>3, <3>4 DEF Fits, Stored
    <2>5. CASE AcquireLeader(n)
      <3>1. cm.dbid # None /\ cm.leader \in Nodes /\ LeaderDatabase(st) /\ OtherDatabases(st)
        BY <2>1, <2>5 DEF AcquireLeader, Fits, Stored, NoDatabase
      <3>2. /\ cm'.dbid = cm.dbid /\ cm'.leader = n /\ vol[n].data = cm.dbid /\ SameDatabases
        BY <1>3, <2>5 DEF AcquireLeader, PatroniChange, CmType, SameDatabases, VolType
      <3>3. LeaderDatabase(st)'
        BY <2>1, <3>1, <3>2 DEF LeaderDatabase, OtherDatabases, Down, SameDatabases
      <3>4. OtherDatabases(st)'
        BY <2>1, <3>1, <3>2 DEF LeaderDatabase, OtherDatabases, Down, SameDatabases
      <3> QED
        BY <2>1, <2>2, <2>3, <3>1, <3>2, <3>3, <3>4 DEF Fits, Stored
    <2>6. CASE Clone(n)
      <3>1. cm.dbid # None /\ cm.leader \in Nodes /\ LeaderDatabase(st) /\ OtherDatabases(st)
        BY <2>1, <2>6 DEF Clone, Fits, Stored, NoDatabase
      <3>2. vol[cm.leader].data = st.version /\ vol[n].data = None
        BY <2>1, <2>6, <3>1 DEF Clone, LeaderDatabase
      <3>3. /\ cm' = cm /\ vol'[n].data = st.version /\ vol'[n].new = vol[n].new
            /\ \A m \in Nodes \ {n} : vol'[m] = vol[m]
        BY <1>3, <2>6, <3>2 DEF Clone, PatroniChange, VolType
      <3>4. n # cm.leader
        BY <2>1, <3>2
      <3>5. LeaderDatabase(st)'
        BY <3>1, <3>3, <3>4 DEF LeaderDatabase
      <3>6. OtherDatabases(st)'
        BY <2>1, <3>1, <3>3, <3>4 DEF OtherDatabases, Down
      <3> QED
        BY <2>1, <2>2, <2>3, <3>1, <3>3, <3>5, <3>6 DEF Fits, Stored
    <2> QED
      BY <1>1, <2>4, <2>5, <2>6
  <1> QED
    BY <1>5, <1>6, <1>7 DEF Safe

LEMMA LeaderKnown == ASSUME cm.leader \in Nodes PROVE SyncLeader = cm.leader /\ SyncLeader # NoNode
  BY NAssumption DEF SyncLeader, Nodes, NoNode

(* Where a server is reachable there is a database, the leader's.          *)
LEMMA WhereReachable ==
    ASSUME Inductive, Safe, NEW port, Reachable(port), NEW st \in Held
    PROVE  /\ cm.leader \in Nodes /\ SyncLeader = cm.leader
           /\ st.state \notin Down
           /\ vol[SyncLeader].data = st.version
  <1>1. SyncLeader \in Nodes /\ Serving(SyncLeader)
    BY NAssumption DEF Reachable, SyncLeader, Nodes, Inductive, TypeOK, CmType
  <1>2. pod[SyncLeader].phase \notin {"none", "up"}
    BY <1>1 DEF Serving
  <1>3. Fits(st)
    BY DEF Safe
  <1>4. cm.dbid # None
    BY <1>1, <1>2, <1>3 DEF Fits, Stored, NoDatabase
  <1>5. cm.leader \in Nodes /\ LeaderDatabase(st)
    BY <1>3, <1>4 DEF Fits, Stored
  <1>6. st.state \notin Down
    BY <1>1, <1>2, <1>3 DEF Fits, Apart
  <1> QED
    BY <1>5, <1>6, LeaderKnown DEF LeaderDatabase

(* A job's pods change that job and perhaps the volumes; what has          *)
(* succeeded stays so.                                                     *)
JobChanges(j) ==
    /\ UNCHANGED <<specVersion, status, pass, sts, sup, pstream, pod>>
    /\ \A i \in Jobs \ {j} : job'[i] = job[i]
    /\ job[j].phase # "none"
    /\ Succeeded(j) => Succeeded(j)'
    /\ cm'.dbid = cm.dbid /\ cm'.leader = cm.leader
    /\ cm'.initdb = cm.initdb /\ cm'.ckpt = cm.ckpt

LEMMA JobStepsAre ==
    ASSUME TypeOK, NEW j \in Jobs, NEW record, JobChange(j, record),
           Running(job[j]), cm' = cm \/ cm' = [cm EXCEPT !.pause = TRUE]
    PROVE  JobChanges(j)
  <1>1. /\ UNCHANGED <<specVersion, status, pass, sts, sup, pstream, pod>>
        /\ \A i \in Jobs \ {j} : job'[i] = job[i]
        /\ job[j].phase \in {"active", "failed"}
    BY DEF TypeOK, JobChange, Running
  <1>2. /\ cm'.dbid = cm.dbid /\ cm'.leader = cm.leader
        /\ cm'.initdb = cm.initdb /\ cm'.ckpt = cm.ckpt
    BY DEF TypeOK, CmType
  <1>3. ~Succeeded(j)
    BY <1>1 DEF Succeeded
  <1> QED
    BY <1>1, <1>2, <1>3 DEF JobChanges

(* What is left to show of such a step, where it leaves the databases.     *)
LEMMA JobChangesSafe ==
    ASSUME Inductive, Safe, NEW j \in Jobs, JobChanges(j), SameDatabases,
           \A st \in Held : UpJob(st)' /\ MoveJob(st)' /\ PreupgradeJob(st)'
    PROVE  Safe'
  <1>1. StatusRead' /\ Held' = Held
    BY ReadKept DEF Safe, JobChanges
  <1>2. Progress'
    <2>1. pass.pc = "deleteDone" => status.state \in DOMAIN StageJob
      BY DEF Inductive, PassInItsStage
    <2>2. \A i \in Jobs : Succeeded(i) => Succeeded(i)'
      BY DEF JobChanges, Succeeded
    <2> QED
      BY <2>1, <2>2, ProgressKept DEF Safe, JobChanges, SameDatabases
  <1>3. ASSUME NEW st \in Held PROVE Fits(st)'
    <2>1. Fits(st)
      BY DEF Safe
    <2>2. Known(st)' /\ Apart(st)' /\ Recorded(st)' /\ SecondaryJobs(st)'
      BY <2>1, KnownKept, ApartKept, RecordedKept, SecondaryJobsKept DEF Fits, JobChanges
    <2>3. cm.dbid = None => \A n \in Nodes : pod'[n].phase \in {"none", "up"}
      BY <2>1 DEF Fits, Stored, NoDatabase, JobChanges
    <2> QED
      BY <2>1, <2>2, <2>3, StoredKept DEF Fits, JobChanges
  <1> QED
    BY <1>1, <1>2, <1>3 DEF Safe

(* The jobs that only talk to the database, and every failure.             *)
LEMMA HarmlessJobsSafe ==
    ASSUME Inductive, Safe,
           PreupgradeRun \/ SyncRun \/ PostupgradeRun \/ \E j \in Jobs : JobFails(j)
    PROVE  Safe'
  <1>1. TypeOK /\ \A j \in Jobs : job[j] \in JobType
    BY DEF Inductive, TypeOK
  <1>2. \A st \in Held : UpJob(st) /\ MoveJob(st) /\ PreupgradeJob(st)
    BY DEF Safe, Fits
  <1>3. CASE PreupgradeRun
    <2>1. PICK args \in {None, vol[SyncLeader].data} :
            JobChange("preupgrade", [Finished(job["preupgrade"]) EXCEPT !.args = args])
      BY <1>3 DEF PreupgradeRun
    <2>2. JobChanges("preupgrade") /\ SameDatabases
      BY <1>1, <1>3, <2>1, JobStepsAre, JobsAre DEF PreupgradeRun, SameDatabases
    <2>3. job'["preupgrade"].args = args
      BY <1>1, <2>1, JobsAre DEF JobChange, Finished, JobType, TypeOK
    <2>4. ASSUME NEW st \in Held PROVE UpJob(st)' /\ MoveJob(st)' /\ PreupgradeJob(st)'
      <3>1. UpJob(st)' /\ MoveJob(st)'
        BY <1>2, <1>3, <2>2, JobsAre DEF JobChanges, UpJob, MoveJob, Succeeded, PreupgradeRun
      <3>2. vol[SyncLeader].data = st.version
        BY <1>3, WhereReachable DEF PreupgradeRun
      <3>3. PreupgradeJob(st)'
        BY <1>2, <2>2, <2>3, <3>2 DEF JobChanges, PreupgradeJob
      <3> QED
        BY <3>1, <3>3
    <2> QED
      BY <2>2, <2>4, JobChangesSafe, JobsAre
  <1>4. CASE SyncRun \/ PostupgradeRun
    <2>1. PICK j \in {"preupgrade-sync", "postupgrade"} : JobChanges(j) /\ vol' = vol
      <3>1. PICK j \in {"preupgrade-sync", "postupgrade"} :
              /\ Running(job[j])
              /\ \E record : JobChange(j, record)
              /\ cm' = cm \/ cm' = [cm EXCEPT !.pause = TRUE]
        BY <1>4 DEF SyncRun, PostupgradeRun
      <3> QED
        BY <1>1, <1>4, <3>1, JobStepsAre, JobsAre DEF SyncRun, PostupgradeRun
    <2>2. SameDatabases
      BY <2>1 DEF SameDatabases
    <2>3. \A st \in Held : UpJob(st)' /\ MoveJob(st)' /\ PreupgradeJob(st)'
      BY <1>2, <2>1, JobsAre DEF JobChanges, UpJob, MoveJob, PreupgradeJob, Succeeded
    <2> QED
      BY <2>1, <2>2, <2>3, JobChangesSafe, JobsAre
  <1>5. CASE \E j \in Jobs : JobFails(j)
    <2>1. PICK j \in Jobs : JobFails(j)
      BY <1>5
    <2>2. JobChanges(j) /\ vol' = vol /\ SameDatabases
      BY <1>1, <2>1, JobStepsAre DEF JobFails, Running, SameDatabases
    <2>3. job' = [job EXCEPT ![j] = [job[j] EXCEPT !.phase = "failed"]]
      BY <2>1 DEF JobFails, JobChange
    <2>4. job' = [job EXCEPT ![j].phase = "failed"] /\ job \in [Jobs -> JobType]
      BY <1>1, <2>3 DEF TypeOK
    <2>5. \A st \in Held : UpJob(st)' /\ MoveJob(st)' /\ PreupgradeJob(st)'
      BY <1>2, <2>2, <2>4, JobsAre
         DEF JobChanges, UpJob, MoveJob, PreupgradeJob, Succeeded, JobType
    <2> QED
      BY <2>2, <2>5, JobChangesSafe
  <1> QED
    BY <1>3, <1>4, <1>5

(* The scripts of the other jobs work on a database, with no pod around.   *)
LEMMA WhereScriptsRun ==
    ASSUME Inductive, Safe, NEW st \in Held,
           \/ st.state \in Stages
           \/ \E j \in Jobs : job[j].phase # "none"
    PROVE  Fits(st) /\ cm.dbid # None /\ cm.leader \in Nodes /\ NoNode \notin Nodes
  <1>1. status \in Held /\ Fits(status) /\ Fits(st)
    BY DEF Safe, Held
  <1>2. status.state \in Stages => status.target # None
    BY DEF Inductive, StagesHaveTargets
  <1>3. st.state \in Stages => st.target # None
    BY DEF Inductive, StagesHaveTargets, Held
  <1>4. \A j \in Jobs : \E s \in DOMAIN StageJob : StageJob[s] = j
    BY DEF StageJob, Jobs
  <1>5. (\E j \in Jobs : job[j].phase # "none") => status.state \in Stages
    BY <1>4, LadderTypes DEF Inductive, JobsInTheirStage
  <1>6. cm.dbid # None
    BY <1>1, <1>2, <1>3, <1>5 DEF Fits, Stored, NoDatabase
  <1>7. NoNode \notin Nodes
    BY NAssumption DEF Nodes, NoNode
  <1>8. Stored(st)
    BY <1>1 DEF Fits
  <1> QED
    BY <1>1, <1>6, <1>7, <1>8 DEF Stored

(* What is left to show of a script that changes a database.               *)
LEMMA ScriptSafe ==
    ASSUME Inductive, Safe, NEW j \in {"up", "move"}, JobChanges(j), cm' = cm,
           \A st \in Held :
               /\ LeaderDatabase(st)' /\ OtherDatabases(st)'
               /\ UpJob(st)' /\ MoveJob(st)' /\ PreupgradeJob(st)'
    PROVE  Safe'
  <1>1. StatusRead' /\ Held' = Held
    BY ReadKept DEF Safe, JobChanges
  <1>2. status \in Held /\ Fits(status) /\ j \in Jobs /\ job[j].phase # "none"
    BY JobsAre DEF Safe, Held, JobChanges
  <1>3. status.state \in {"upgrade-primary", "upgrade-primary-move"}
    BY <1>2 DEF Fits, UpJob, MoveJob
  <1>4. Progress'
    <2>1. pass.pc = "deleteDone" => status.state \in DOMAIN StageJob
      BY DEF Inductive, PassInItsStage
    <2>2. pass.pc \notin {"clients", "dropStream", "dropClients", "dropFailed"}
      BY <1>3 DEF Inductive, PassInItsStage
    <2>3. \A i \in Jobs : Succeeded(i) => Succeeded(i)'
      BY <1>2 DEF JobChanges, Succeeded
    <2> QED
      BY <2>1, <2>2, <2>3, ProgressKept DEF Safe, JobChanges
  <1>5. ASSUME NEW st \in Held PROVE Fits(st)'
    <2>1. Fits(st) /\ cm.dbid # None /\ cm.leader \in Nodes
      BY <1>2, WhereScriptsRun
    <2>2. Known(st)' /\ Apart(st)' /\ Recorded(st)'
      BY <2>1, KnownKept, ApartKept, RecordedKept DEF Fits, JobChanges
    <2>3. Stored(st)'
      BY <2>1 DEF Fits, Stored
    <2>4. SecondaryJobs(st)'
      <3>1. st.state \in {"upgrade-primary", "upgrade-primary-move"}
        BY <1>2, <2>1 DEF Fits, UpJob, MoveJob
      <3> QED
        BY <2>1, <3>1 DEF Fits, SecondaryJobs, JobChanges
    <2> QED
      BY <2>2, <2>3, <2>4 DEF Fits
  <1> QED
    BY <1>1, <1>4, <1>5 DEF Safe

(* pg_upgrade builds the new database beside the old one, perhaps without  *)
(* a word about it.                                                        *)
LEMMA UpJobSafe == ASSUME Inductive, Safe, UpRun \/ UpKilled PROVE Safe'
  <1> DEFINE j == job["up"]
  <1>1. /\ "up" \in Jobs /\ job \in [Jobs -> JobType] /\ j \in JobType /\ TypeOK
        /\ vol \in [Nodes -> VolType]
    BY JobsAre DEF Inductive, TypeOK
  <1>2. Running(j) /\ cm' = cm /\ j.phase \in {"active", "failed"}
    BY DEF UpRun, UpKilled, Running
  <1>3. PICK record :
          /\ JobChange("up", record)
          /\ record.from = j.from /\ record.to = j.to /\ record.node = j.node
          /\ record.args = j.args /\ record.ckpt \in {j.ckpt, j.from}
          /\ \/ /\ vol[j.node].new = None
                /\ vol' = [vol EXCEPT ![j.node].new = j.to]
                /\ record.newid = j.to \/ record.phase \in {"active", "failed"}
             \/ /\ vol[j.node].new # None /\ vol' = vol
                /\ record.newid = vol[j.node].new
    <2>1. Finished(j) \in JobType /\ Finished(j) = [j EXCEPT !.phase = Finished(j).phase]
      BY <1>1, FinishedType DEF Finished
    <2>2. CASE UpRun /\ Upgradable(j)
      <3>1. vol[j.node].new = None
        BY <2>2 DEF Upgradable
      <3>2. vol' = [vol EXCEPT ![j.node].new = j.to]
            /\ JobChange("up", [Finished(j) EXCEPT !.ckpt = j.from, !.newid = j.to])
        BY <2>2, <3>1 DEF UpRun
      <3> DEFINE record == [Finished(j) EXCEPT !.ckpt = j.from, !.newid = j.to]
      <3>3. /\ record.from = j.from /\ record.to = j.to /\ record.node = j.node
            /\ record.args = j.args /\ record.ckpt = j.from /\ record.newid = j.to
        BY <1>1, <2>1 DEF JobType
      <3> QED
        BY <3>1, <3>2, <3>3
    <2>3. CASE UpRun /\ ~Upgradable(j)
      <3>1. vol[j.node].new # None /\ vol' = vol
            /\ JobChange("up", [Finished(j) EXCEPT !.newid = vol[j.node].new])
        BY <2>3 DEF UpRun
      <3> DEFINE record == [Finished(j) EXCEPT !.newid = vol[j.node].new]
      <3>2. /\ record.from = j.from /\ record.to = j.to /\ record.node = j.node
            /\ record.args = j.args /\ record.ckpt = j.ckpt /\ record.newid = vol[j.node].new
        BY <1>1, <2>1 DEF JobType
      <3> QED
        BY <3>1, <3>2
    <2>4. CASE UpKilled
      <3>1. PICK phase \in {j.phase, "failed"} : JobChange("up", [j EXCEPT !.phase = phase])
        BY <2>4 DEF UpKilled
      <3>2. vol[j.node].new = None /\ vol' = [vol EXCEPT ![j.node].new = j.to]
        BY <2>4 DEF UpKilled, Upgradable
      <3> DEFINE record == [j EXCEPT !.phase = phase]
      <3>3. /\ record.from = j.from /\ record.to = j.to /\ record.node = j.node
            /\ record.args = j.args /\ record.ckpt = j.ckpt /\ record.phase = phase
        BY <1>1 DEF JobType
      <3> QED
        BY <1>2, <3>1, <3>2, <3>3
    <2> QED
      BY <2>2, <2>3, <2>4
  <1>4. JobChanges("up")
    BY <1>1, <1>2, <1>3, JobStepsAre
  <1>5. job'["up"] = record
    BY <1>1, <1>3 DEF JobChange
  <1>6. ASSUME NEW st \in Held
        PROVE  /\ LeaderDatabase(st)' /\ OtherDatabases(st)'
               /\ UpJob(st)' /\ MoveJob(st)' /\ PreupgradeJob(st)'
    <2>1. Fits(st) /\ cm.leader \in Nodes /\ cm.dbid # None
      BY <1>1, <1>2, WhereScriptsRun
    <2>2. /\ st.state = "upgrade-primary" /\ j.node = cm.leader /\ j.from = st.version
          /\ j.to = st.target /\ j.args = st.version /\ j.ckpt \in {None, st.version}
      BY <1>2, <2>1 DEF Fits, UpJob
    <2>3. LeaderDatabase(st) /\ OtherDatabases(st)
      BY <2>1 DEF Fits, Stored
    <2>4. /\ vol'[cm.leader].data = vol[cm.leader].data /\ vol'[cm.leader].new \in {None, st.target}
          /\ vol[cm.leader].new = st.target => vol'[cm.leader].new = st.target
          /\ \A n \in Nodes \ {cm.leader} : vol'[n] = vol[n]
      BY <1>1, <1>3, <2>1, <2>2, <2>3 DEF LeaderDatabase, VolType
    <2>5. LeaderDatabase(st)'
      BY <1>2, <2>2, <2>3, <2>4 DEF LeaderDatabase, Down
    <2>6. OtherDatabases(st)'
      BY <1>2, <2>3, <2>4 DEF OtherDatabases
    <2>7. record.phase \in {"succeeded", "mixed"}
            => record.newid = st.target /\ vol'[cm.leader].new = st.target
      BY <1>1, <1>3, <2>1, <2>2, <2>3 DEF LeaderDatabase, VolType
    <2>8. UpJob(st)'
      BY <1>2, <1>3, <1>5, <2>2, <2>7 DEF UpJob, Succeeded
    <2>9. MoveJob(st)' /\ PreupgradeJob(st)'
      BY <1>4, <2>1, <2>2, JobsAre DEF JobChanges, Fits, MoveJob, PreupgradeJob
    <2> QED
      BY <2>5, <2>6, <2>8, <2>9
  <1> QED
    BY <1>2, <1>4, <1>6, ScriptSafe

(* The move is done once, however often the script runs.                   *)
LEMMA MoveJobSafe == ASSUME Inductive, Safe, MoveRun PROVE Safe'
  <1> DEFINE j == job["move"]
  <1>1. /\ "move" \in Jobs /\ job \in [Jobs -> JobType] /\ j \in JobType /\ TypeOK
        /\ vol \in [Nodes -> VolType]
    BY JobsAre DEF Inductive, TypeOK
  <1>2. /\ Running(j) /\ cm' = cm /\ j.phase # "none"
        /\ JobChange("move", Finished(j))
        /\ vol' = [vol EXCEPT ![j.node] = MovedVolume(@)]
    BY DEF MoveRun, Running
  <1>3. JobChanges("move")
    BY <1>1, <1>2, JobStepsAre
  <1>4. job'["move"].node = j.node
    BY <1>1, <1>2 DEF JobChange, Finished, JobType
  <1>5. ASSUME NEW st \in Held
        PROVE  /\ LeaderDatabase(st)' /\ OtherDatabases(st)'
               /\ UpJob(st)' /\ MoveJob(st)' /\ PreupgradeJob(st)'
    <2>1. Fits(st) /\ cm.leader \in Nodes /\ cm.dbid # None
      BY <1>1, <1>2, WhereScriptsRun
    <2>2. st.state = "upgrade-primary-move" /\ j.node = cm.leader
      BY <1>2, <2>1 DEF Fits, MoveJob
    <2>3. LeaderDatabase(st) /\ OtherDatabases(st) /\ st.target # None
      BY <2>1, <2>2 DEF Fits, Stored, Inductive, StagesHaveTargets, Held, Stages, NextStage
    <2>4. /\ vol'[cm.leader].data = st.target /\ vol'[cm.leader].new = None
          /\ \A n \in Nodes \ {cm.leader} : vol'[n] = vol[n]
      BY <1>1, <1>2, <2>1, <2>2, <2>3 DEF LeaderDatabase, MovedVolume
    <2>5. LeaderDatabase(st)'
      BY <1>2, <2>2, <2>3, <2>4 DEF LeaderDatabase, Down
    <2>6. OtherDatabases(st)'
      BY <1>2, <2>3, <2>4 DEF OtherDatabases
    <2>7. MoveJob(st)'
      BY <1>2, <1>4, <2>2, <2>4 DEF MoveJob
    <2>8. UpJob(st)' /\ PreupgradeJob(st)'
      BY <1>3, <2>1, <2>2, JobsAre DEF JobChanges, Fits, UpJob, PreupgradeJob
    <2> QED
      BY <2>5, <2>6, <2>7, <2>8
  <1> QED
    BY <1>2, <1>3, <1>5, ScriptSafe

(* A secondary's script leaves the leader's volume alone, and its own      *)
(* empty or with the upgraded database.                                    *)
LEMMA SecondaryJobSafe ==
    ASSUME Inductive, Safe, NEW n \in Nodes, SupRun(n) \/ SupFails(n)
    PROVE  Safe'
  <1>1. /\ sup \in [Nodes -> JobType] /\ vol \in [Nodes -> VolType]
        /\ sup[n].phase \in {"active", "failed"}
        /\ UNCHANGED <<specVersion, status, pass, sts, job, pstream, cm, pod>>
    BY DEF Inductive, TypeOK, SupRun, SupFails, SupChange, Running
  <1>2. /\ \A m \in Nodes \ {n} : sup'[m] = sup[m]
        /\ sup'[n].phase # "none" /\ sup'[n].from = sup[n].from /\ sup'[n].to = sup[n].to
        /\ sup'[n].ckpt = sup[n].ckpt
        /\ SupFails(n) => sup'[n].phase = "failed"
    <2>1. Finished(sup[n]) \in JobType /\ Finished(sup[n]) = [sup[n] EXCEPT !.phase = Finished(sup[n]).phase]
      BY <1>1, FinishedType DEF Finished
    <2>2. Finished(sup[n]).phase # "none"
      BY <1>1 DEF Finished, JobType
    <2>3. PICK phase \in {"failed", Finished(sup[n]).phase} :
            /\ SupChange(n, [sup[n] EXCEPT !.phase = phase])
            /\ SupFails(n) => phase = "failed"
      BY <1>1, <2>1 DEF SupRun, SupFails
    <2> QED
      BY <1>1, <2>2, <2>3 DEF SupChange, JobType
  <1>3. StatusRead' /\ Held' = Held
    BY <1>1, ReadKept DEF Safe
  <1>4. ASSUME NEW st \in Held
        PROVE  /\ Fits(st) /\ cm.dbid # None /\ cm.leader \in Nodes
               /\ st.state = "upgrade-secondaries" /\ n # cm.leader
               /\ \A m \in Nodes \ {n} : vol'[m] = vol[m]
               /\ vol'[n].new = None
               /\ SupFails(n) => vol' = vol
               /\ vol'[n].data \in {None, st.target} \/ vol' = vol
               /\ SupRun(n) => vol'[n].data \in {None, st.target}
    <2>1. Fits(st) /\ SecondaryJobs(st)
      BY DEF Safe, Fits
    <2>2. /\ st.state = "upgrade-secondaries" /\ n # cm.leader
          /\ sup[n].to = st.target /\ pstream \in {NoNode, cm.leader}
      BY <1>1, <2>1 DEF SecondaryJobs
    <2>3. cm.dbid # None /\ cm.leader \in Nodes /\ NoNode \notin Nodes
      BY <2>2, WhereScriptsRun DEF Stages, NextStage
    <2>4. vol[cm.leader].new = st.target /\ vol[n].new = None
      BY <2>1, <2>2, <2>3 DEF Fits, Stored, LeaderDatabase, OtherDatabases
    <2>5. \/ vol' = vol /\ (SupRun(n) => vol[n].data = st.target)
          \/ vol' = [vol EXCEPT ![n] = [data |-> st.target, new |-> None, ckpt |-> None]]
             /\ SupRun(n)
          \/ vol' = [vol EXCEPT ![n] = [data |-> None, new |-> None, ckpt |-> None]]
             /\ SupRun(n)
      BY <2>2, <2>4 DEF SupRun, SupFails
    <2>6. SupFails(n) => vol' = vol
      BY DEF SupFails
    <2> QED
      BY <1>1, <2>1, <2>2, <2>3, <2>4, <2>5, <2>6
  <1>5. Progress'
    <2>1. pass.pc = "deleteDone" => status.state \in DOMAIN StageJob
      BY DEF Inductive, PassInItsStage
    <2>2. status \in Held
      BY DEF Held
    <2>3. \A m \in Nodes :
            /\ vol'[m].data \in {vol[m].data, None, status.target}
            /\ sup'[m].phase # "none" => sup[m].phase # "none"
      BY <1>1, <1>2, <1>4, <2>2
    <2> QED
      BY <1>1, <2>1, <2>3, ProgressKept DEF Safe, Succeeded
  <1>6. ASSUME NEW st \in Held PROVE Fits(st)'
    <2>1. Fits(st) /\ cm.dbid # None /\ cm.leader \in Nodes
          /\ st.state = "upgrade-secondaries" /\ n # cm.leader
      BY <1>4
    <2>2. Known(st)' /\ Apart(st)' /\ Recorded(st)'
      BY <1>1, <2>1, KnownKept, ApartKept, RecordedKept DEF Fits
    <2>3. UpJob(st)' /\ MoveJob(st)' /\ PreupgradeJob(st)'
      BY <1>1, <2>1 DEF Fits, UpJob, MoveJob, PreupgradeJob
    <2>4. LeaderDatabase(st)'
      BY <1>1, <1>4, <2>1 DEF Fits, Stored, LeaderDatabase
    <2>5. OtherDatabases(st)'
      BY <1>1, <1>4, <2>1 DEF Fits, Stored, OtherDatabases
    <2>6. SecondaryJobs(st)'
      <3>1. ASSUME NEW m \in Nodes, SecondarySucceeded(m)'
            PROVE  vol'[m].data \in {None, st.target}
        <4>1. CASE m = n
          BY <1>1, <1>2, <1>4, <3>1, <4>1 DEF SecondarySucceeded
        <4>2. CASE m # n
          <5>1. SecondarySucceeded(m) /\ sup[m].phase # "none"
            BY <1>2, <3>1, <4>2 DEF SecondarySucceeded
          <5>2. vol[m].data \in {None, st.target}
            BY <2>1, <5>1 DEF Fits, SecondaryJobs
          <5> QED
            BY <1>4, <4>2, <5>2
        <4> QED
          BY <4>1, <4>2
      <3> QED
        BY <1>1, <1>2, <2>1, <3>1 DEF Fits, SecondaryJobs
    <2> QED
      BY <1>1, <2>1, <2>2, <2>3, <2>4, <2>5, <2>6 DEF Fits, Stored
  <1> QED
    BY <1>3, <1>5, <1>6 DEF Safe

LEMMA EnvironmentSafe ==
    ASSUME Inductive, Safe, User \/ Pods \/ PodFaults \/ Patroni \/ JobPods \/ JobFaults
    PROVE  Safe'
  <1>1. CASE User
    BY <1>1, UserSafe DEF User
  <1>2. CASE Pods \/ PodFaults
    BY <1>2, PodsAre, PodsSafe DEF Inductive
  <1>3. CASE Patroni
    BY <1>3, PatroniSafe
  <1>4. CASE JobPods \/ JobFaults
    BY <1>4, HarmlessJobsSafe, UpJobSafe, MoveJobSafe, SecondaryJobSafe DEF JobPods, JobFaults
  <1> QED
    BY <1>1, <1>2, <1>3, <1>4

-----------------------------------------------------------------------------
(* The steps of a pass keep the invariant: how it ends, goes on and saves. *)

LEMMA StatusFits == ASSUME Safe PROVE status \in Held /\ Fits(status)
  BY DEF Safe, Held

(* A pass is over, or given up.                                            *)
LEMMA OverSafe ==
    ASSUME pass' = NoPass, \A st \in {status'} : Fits(st)'
    PROVE  Safe'
  <1>1. pass'.pc = "idle"
    BY DEF NoPass, Idle
  <1>2. StatusRead' /\ Progress'
    BY <1>1 DEF StatusRead, Progress, Points, FinalPoints, Stages, NextStage, LastStage
  <1>3. Held' = {status'}
    BY <1>1 DEF Held
  <1> QED
    BY <1>2, <1>3 DEF Safe

(* The points a pass may go on to from another of its stage.               *)
WorkingPoints ==
    {"upgrade-preupgrade", "syncService", "syncJob", "setDBId", "clients", "dropStream",
     "dropClients", "dropFailed", "postServiceReady", "postServiceWait", "postJob",
     "deleteDone", "deleteFailed", "save"}

LEMMA GoOnSafe ==
    ASSUME UNCHANGED <<specVersion, status>>, pass'.st = status,
           pass'.pc \in WorkingPoints,
           pass'.pc = "deleteDone" => status.state # "upgrade-primary-move",
           Progress', \A st \in {status} : Fits(st)'
    PROVE  Safe'
  <1>1. StatusRead'
    BY DEF WorkingPoints, StatusRead, Follows, Points, FinalPoints, Stages, NextStage, LastStage
  <1>2. Held' = {status}
    BY DEF Held
  <1> QED
    BY <1>1, <1>2 DEF Safe

(* A pass is about to save.                                                *)
LEMMA SavingSafe ==
    ASSUME UNCHANGED status, NEW next, pass'.st = next,
           pass'.pc \in {"save", "saveRequeue"},
           pass'.stale \/ (Follows' /\ Fits(next)'),
           \A st \in {status} : Fits(st)'
    PROVE  Safe'
  <1>1. StatusRead' /\ Progress'
    BY DEF StatusRead, Progress, Points, FinalPoints, Stages, NextStage, LastStage
  <1>2. \A st \in Held' : Fits(st)'
    BY DEF Held
  <1> QED
    BY <1>1, <1>2 DEF Safe

(* A pass at work has the status as it is.                                 *)
LEMMA StatusAtWork ==
    ASSUME Inductive, Safe
    PROVE  /\ \A s \in DOMAIN StageJob : AtJob(s) => pass.st = status /\ status.state = s
           /\ pass.pc \in Stages \cup {"enter", "service", "sts", "request", "initialize",
                 "syncService", "setDBId", "clients", "dropStream", "dropClients",
                 "dropFailed", "postServiceReady", "postServiceWait"} => pass.st = status
           /\ pass.pc \in Stages => status.state = pass.pc
  <1>1. ASSUME NEW s \in DOMAIN StageJob, AtJob(s)
        PROVE  pass.pc \notin {"deleteDone", "deleteFailed"}
    BY <1>1 DEF AtJob, JobPoint, StageJob
  <1>2. \A s \in DOMAIN StageJob : AtJob(s) =>
            pass.pc \in Points \ FinalPoints /\ status.state = s
    BY WhereInTheLadder
  <1>3. \A s \in DOMAIN StageJob : AtJob(s) => pass.st = status /\ status.state = s
    BY <1>1, <1>2 DEF Safe, StatusRead
  <1>4. pass.pc \in Stages => status.state = pass.pc
    BY DEF Inductive, PassInItsStage
  <1> QED
    BY <1>3, <1>4 DEF Safe, StatusRead, Points, FinalPoints, Stages, NextStage, LastStage

-----------------------------------------------------------------------------
(* The ordinary chain.                                                     *)

LEMMA BeginSafe == ASSUME Inductive, Safe, Begin PROVE Safe'
  <1>1. pass'.pc = EntryPoint /\ pass'.st = status /\ UNCHANGED <<specVersion, status, world>>
    BY DEF Begin, NoPass, world, objects, cluster
  <1>2. EntryPoint \in Stages \cup {"initialize", "enter", "request", "service"}
    BY DEF EntryPoint
  <1>3. Progress'
    BY <1>1, <1>2 DEF Progress, Stages, NextStage, LastStage
  <1>4. StatusRead'
    <2>1. EntryPoint \in Points \ (FinalPoints \cup {"deleteDone", "deleteFailed", "clear"})
      BY <1>2 DEF Points, FinalPoints, Stages, NextStage, LastStage
    <2>2. /\ EntryPoint = "initialize" => status.state = ""
          /\ EntryPoint \in {"request", "service", "sts"} => status.state # "" /\ status.target = None
          /\ EntryPoint = "request" => specVersion # status.version
          /\ EntryPoint = "enter" => status.state # ""
      BY DEF EntryPoint, Stages, NextStage, LastStage
    <2> QED
      BY <1>1, <2>1, <2>2 DEF StatusRead, FinalPoints
  <1>5. Held' \subseteq Held
    BY <1>1, <1>2 DEF Held, Stages, NextStage, LastStage
  <1> QED
    BY <1>1, <1>3, <1>4, <1>5, HeldKept DEF Safe

LEMMA SaveSafe == ASSUME Inductive, Safe, Save PROVE Safe'
  <1>1. pass' = NoPass /\ UNCHANGED world /\ status' \in Held
    BY DEF Save, Held, Unchallenged, EndWithError, world, objects, cluster
  <1>2. \A st \in {status'} : Fits(st)'
    BY <1>1, FitsKept DEF Safe
  <1> QED
    BY <1>1, <1>2, OverSafe

LEMMA EndSafe ==
    ASSUME Inductive, Safe, EndWithError, UNCHANGED <<status, world>>
    PROVE  Safe'
  <1>1. \A st \in {status'} : Fits(st)'
    BY StatusFits, FitsKept
  <1> QED
    BY <1>1, OverSafe DEF EndWithError

(* The first status finds nothing there.                                   *)
LEMMA InitializeSafe == ASSUME Inductive, Safe, Initialize PROVE Safe'
  <1>1. status.state = "" /\ Fits(status) /\ pass \in PassType
    BY StatusFits DEF Initialize, Safe, StatusRead, Inductive, TypeOK
  <1>2. status = NoStatus
    BY <1>1 DEF Fits, Known
  <1>3. /\ pass'.pc = "service" /\ pass'.st = status' /\ UNCHANGED world
        /\ status' = [NoStatus EXCEPT !.state = "scaling", !.version = specVersion]
        /\ specVersion \in Versions
    BY <1>1 DEF Initialize, PassType, world, objects, cluster, Inductive, TypeOK
  <1>4. /\ status'.state = "scaling" /\ status'.version # None /\ status'.target = None
        /\ status'.offers = {}
    BY <1>3, VersionFacts DEF NoStatus
  <1>5. StatusRead' /\ Progress' /\ Held' = {status'}
    BY <1>3, <1>4 DEF StatusRead, Progress, Held, Points, FinalPoints
  <1>6. ASSUME NEW st \in {status'} PROVE Fits(st)'
    <2>1. /\ sts.replicas = 0 /\ \A n \in Nodes : pod[n].phase = "none"
          /\ cm.dbid = None /\ NoDatabase(status)
      BY <1>1 DEF Fits, Apart, Stored
    <2>2. Known(st) /\ Apart(st)
      BY <1>4, <2>1 DEF Known, Apart, LastStage, Down
    <2>3. Stored(st)
      BY <1>4, <2>1 DEF Stored, NoDatabase
    <2>4. UpJob(st) /\ MoveJob(st) /\ PreupgradeJob(st) /\ SecondaryJobs(st) /\ Recorded(st)
      BY <1>1, <1>4
         DEF Fits, UpJob, MoveJob, PreupgradeJob, SecondaryJobs, Recorded, Down, LastStage
    <2> QED
      BY <1>3, <2>2, <2>3, <2>4, FitsKept DEF Fits
  <1> QED
    BY <1>5, <1>6 DEF Safe

(* The ordinary states and the first stage differ in nothing the invariant *)
(* speaks of.                                                              *)
LEMMA FirstStatusesFit ==
    ASSUME NEW st, NEW next, Fits(st),
           st.state \notin Stages \cup {""},
           next.state \in {"scaling", "ready", "upgrade-preupgrade"},
           next.version = st.version, next.target # st.version,
           cm.dbid = None => next.target = None /\ next.offers = {}
    PROVE  Fits(next)
  <1>1. /\ st.state \notin Down \cup {"", "upgrade-preupgrade", "upgrade-preupgrade-scaledown",
             "upgrade-preupgrade-sync", "upgrade-scaledown", LastStage}
        /\ next.state \notin Down \cup {"", LastStage}
    BY DEF Stages, NextStage, LastStage, Down
  <1>2. Known(next)
    BY <1>1 DEF Fits, Known
  <1>3. Apart(next)
    BY <1>1 DEF Fits, Apart
  <1>4. Stored(next)
    BY <1>1 DEF Fits, Stored, NoDatabase, LeaderDatabase, OtherDatabases, Down
  <1>5. UpJob(next) /\ MoveJob(next) /\ PreupgradeJob(next) /\ SecondaryJobs(next)
    BY <1>1 DEF Fits, UpJob, MoveJob, PreupgradeJob, SecondaryJobs, Down
  <1>6. Recorded(next)
    BY <1>1 DEF Fits, Recorded, Down
  <1> QED
    BY <1>2, <1>3, <1>4, <1>5, <1>6 DEF Fits

(* The user's wish becomes the target, one the version can be upgraded to. *)
LEMMA RequestSafe == ASSUME Inductive, StatusesMeant, Safe, RequestUpgrade PROVE Safe'
  <1>1. /\ pass \in PassType /\ status \in StatusType /\ Fits(status) /\ pass.st = status
        /\ status.state # "" /\ status.state \notin Stages /\ status.target = None
        /\ specVersion \in status.offers
        /\ ~pass.stale => specVersion # status.version
    BY StatusFits, StatusAtWork DEF RequestUpgrade, AllowedTargets, Inductive, TypeOK, PassInItsStage, Safe, StatusRead
  <1>2. PICK next : next = [status EXCEPT !.target = specVersion]
    OBVIOUS
  <1>3. pass'.st = next /\ pass'.pc = "saveRequeue" /\ pass'.stale = pass.stale
        /\ UNCHANGED <<status, specVersion, world>>
    BY <1>1, <1>2 DEF RequestUpgrade, PassType, world, objects, cluster
  <1>4. \A st \in {status} : Fits(st)'
    BY <1>1, <1>3, FitsKept
  <1>5. ASSUME ~pass.stale PROVE Follows' /\ Fits(next)'
    <2>1. specVersion \in UpgradeVersions(status.version)
      BY <1>1, <1>5 DEF StatusesMeant, OffersMeant
    <2>2. Follows'
      BY <1>1, <1>2, <1>3, <2>1 DEF Follows
    <2>3. cm.dbid # None
      BY <1>1 DEF Fits, Stored, NoDatabase
    <2>4. next.state = status.state /\ next.version = status.version /\ next.target = specVersion
      BY <1>1, <1>2 DEF StatusType
    <2>5. status.state \in {"scaling", "ready"}
      BY <1>1 DEF StatusType
    <2>6. Fits(next)
      BY <1>1, <1>5, <2>3, <2>4, <2>5, FirstStatusesFit
    <2> QED
      BY <1>3, <2>2, <2>6, FitsKept
  <1> QED
    BY <1>3, <1>4, <1>5, SavingSafe

LEMMA EnterSafe == ASSUME Inductive, Safe, EnterUpgrade PROVE Safe'
  <1>1. /\ pass \in PassType /\ status \in StatusType /\ Fits(status) /\ pass.st = status
        /\ status.state \notin Stages \cup {""} /\ status.target # None
    BY StatusFits, StatusAtWork DEF EnterUpgrade, Inductive, TypeOK, PassInItsStage, Safe, StatusRead
  <1>2. PICK next : next = [status EXCEPT !.state = "upgrade-preupgrade"]
    OBVIOUS
  <1>3. pass'.st = next /\ pass'.pc = "saveRequeue" /\ UNCHANGED <<status, world>>
    BY <1>1, <1>2 DEF EnterUpgrade, PassType, world, objects, cluster
  <1>4. \A st \in {status} : Fits(st)'
    BY <1>1, <1>3, FitsKept
  <1>5. Follows'
    BY <1>1, <1>2, <1>3 DEF Follows
  <1>6. Fits(next)'
    <2>1. /\ next.state = "upgrade-preupgrade" /\ next.version = status.version
          /\ next.target = status.target /\ next.offers = status.offers
      BY <1>1, <1>2 DEF StatusType
    <2>2. status.target # status.version
      BY <1>1 DEF Fits, Known, Stages, LastStage
    <2>3. cm.dbid # None
      BY <1>1 DEF Fits, Stored, NoDatabase
    <2>4. Fits(next)
      BY <1>1, <2>1, <2>2, <2>3, FirstStatusesFit
    <2> QED
      BY <1>3, <2>4, FitsKept
  <1> QED
    BY <1>3, <1>4, <1>5, <1>6, SavingSafe

LEMMA ServiceSafe == ASSUME Inductive, Safe, ReconcileService PROVE Safe'
  <1>1. pass \in PassType /\ pass.st = status /\ status.state # "" /\ status.target = None
    BY StatusAtWork DEF ReconcileService, Inductive, TypeOK, Safe, StatusRead
  <1>2. /\ pass'.pc = "sts" /\ pass'.st = status /\ UNCHANGED <<specVersion, status, world>>
    BY <1>1 DEF ReconcileService, SetService, Goto, PassType, world, cluster
  <1>3. StatusRead' /\ Progress'
    BY <1>1, <1>2 DEF StatusRead, Progress, Points, FinalPoints, Stages, NextStage, LastStage
  <1>4. Held' \subseteq Held
    BY <1>2 DEF Held
  <1> QED
    BY <1>2, <1>3, <1>4, HeldKept DEF Safe

(* The StatefulSet runs the version of the status, on a port that suits    *)
(* its state.                                                              *)
LEMMA StatefulSetFits ==
    ASSUME NEW st, Fits(st), NEW port, sts' = [replicas |-> N, port |-> port, version |-> st.version],
           st.state \notin Down \cup {""},
           st.state \in {"upgrade-preupgrade-sync", "upgrade-scaledown"} => port = MaintenancePort,
           UNCHANGED <<job, sup, pstream, cm, pod, vol>>
    PROVE  Fits(st)'
  <1>1. Apart(st)'
    BY DEF Fits, Apart
  <1>2. SameDatabases
    BY DEF SameDatabases
  <1>3. cm.dbid = None => \A n \in Nodes : pod'[n].phase \in {"none", "up"}
    BY DEF Fits, Stored, NoDatabase
  <1> QED
    BY <1>1, <1>2, <1>3, KnownKept, StoredKept, LeaderJobsKept, SecondaryJobsKept, RecordedKept
       DEF Fits

(* Versions are offered, at the earliest, when servers run.                *)
LEMMA StatefulSetSafe == ASSUME Inductive, Safe, ReconcileStatefulSet PROVE Safe'
  <1>1. /\ pass \in PassType /\ status \in StatusType /\ Fits(status) /\ pass.st = status
        /\ status.state \notin Stages \cup {""} /\ status.target = None
    BY StatusFits, StatusAtWork DEF ReconcileStatefulSet, Inductive, TypeOK, PassInItsStage, Safe, StatusRead
  <1>2. PICK next : next = [status EXCEPT !.state = IF AllReady THEN "ready" ELSE "scaling",
                           !.offers = IF AllReady THEN UpgradeVersions(status.version) ELSE @]
    OBVIOUS
  <1>3. /\ pass'.st = next /\ pass'.pc = "save"
        /\ sts' = [replicas |-> N, port |-> ClientPort, version |-> status.version]
        /\ UNCHANGED <<status, job, sup, pstream, cm, pod, vol>>
    BY <1>1, <1>2 DEF ReconcileStatefulSet, SetSts, PassType, cluster
  <1>4. Follows'
    <2>1. next = [status EXCEPT !.state = next.state, !.offers = next.offers]
          /\ next.state \in {"ready", "scaling"} /\ next.offers \in SUBSET Versions
      BY <1>1, <1>2, UpgradeVersionsType DEF StatusType
    <2> QED
      BY <1>1, <1>3, <2>1 DEF Follows
  <1>5. /\ next.state \in {"scaling", "ready"} /\ next.version = status.version
        /\ next.target = None
        /\ ~AllReady => next.offers = status.offers
    BY <1>1, <1>2 DEF StatusType
  <1>6. cm.dbid = None => next.target = None /\ next.offers = {}
    <2>1. cm.dbid = None => ~AllReady
      <3>1. 0 \in Nodes
        BY NAssumption DEF Nodes
      <3> QED
        BY <1>1, <3>1 DEF Fits, Stored, NoDatabase, AllReady, Serving
    <2> QED
      BY <1>1, <1>5, <2>1 DEF Fits, Stored, NoDatabase
  <1>7. Fits(next)
    BY <1>1, <1>5, <1>6, FirstStatusesFit DEF Fits, Known
  <1>8. \A st \in {status, next} : Fits(st)'
    <2> SUFFICES ASSUME NEW st \in {status, next} PROVE Fits(st)'
      OBVIOUS
    <2>1. st.state \notin Stages \cup {""} /\ st.version = status.version /\ Fits(st)
      BY <1>1, <1>5, <1>7 DEF Stages, NextStage, LastStage
    <2> QED
      BY <1>3, <2>1, StatefulSetFits DEF Stages, NextStage, LastStage, Down
  <1> QED
    BY <1>3, <1>4, <1>8, SavingSafe

-----------------------------------------------------------------------------
(* The stages with a job.                                                  *)

(* A job is created or deleted in its stage: it must be what it should.    *)
LEMMA JobFits ==
    ASSUME NEW st, Fits(st), UNCHANGED <<sts, sup, pstream, cm, pod, vol>>,
           UpJob(st)', MoveJob(st)', PreupgradeJob(st)'
    PROVE  Fits(st)'
  <1>1. SameDatabases
    BY DEF SameDatabases
  <1>2. cm.dbid = None => \A n \in Nodes : pod'[n].phase \in {"none", "up"}
    BY DEF Fits, Stored, NoDatabase
  <1> QED
    BY <1>1, <1>2, KnownKept, ApartKept, StoredKept, SecondaryJobsKept, RecordedKept DEF Fits

LEMMA StageSafe == ASSUME Inductive, Safe, NEW s \in DOMAIN StageJob, Stage(s) PROVE Safe'
  <1>1. /\ pass \in PassType /\ pass.st = status /\ status.state = s /\ Fits(status) /\ AtJob(s)
        /\ job \in [Jobs -> JobType] /\ StageJob[s] \in Jobs
    BY StatusFits, StatusAtWork, LadderTypes
       DEF Stage, EnsureUpgradeJob, WaitForJob, JobFailed, JobSucceeded, Inductive, TypeOK
  <1>2. CASE EnsureUpgradeJob(s)
    <2>1. /\ pass'.pc = "save" /\ pass'.st = status
          /\ UNCHANGED <<specVersion, status, sts, sup, pstream, cm, pod, vol>>
          /\ job' = [job EXCEPT ![StageJob[s]] = [NoJob EXCEPT !.phase = "active"]]
          /\ s \in {"upgrade-preupgrade", "upgrade-preupgrade-sync", "upgrade-postupgrade"}
      BY <1>1, <1>2 DEF EnsureUpgradeJob, CreateJob, SetJob, Goto, PassType, cluster
    <2>2. StageJob[s] \notin {"up", "move"} /\ (StageJob[s] = "preupgrade" => s = "upgrade-preupgrade")
      BY <2>1 DEF StageJob
    <2>3. \A st \in {status} : UpJob(st)' /\ MoveJob(st)' /\ PreupgradeJob(st)'
      BY <1>1, <2>1, <2>2, JobsAre
         DEF Fits, UpJob, MoveJob, PreupgradeJob, Succeeded, NoJob
    <2>4. Progress'
      BY <2>1 DEF Progress
    <2>5. \A st \in {status} : Fits(st)'
      BY <1>1, <2>1, <2>3, JobFits
    <2> QED
      BY <2>1, <2>4, <2>5, GoOnSafe DEF WorkingPoints
  <1>3. CASE WaitForJob(s) \/ JobFailed(s) \/ JobSucceeded(s)
    <2>1. /\ pass'.pc \in {"save", "deleteFailed", "deleteDone"} /\ pass'.st = status
          /\ UNCHANGED <<specVersion, status, world>>
      BY <1>1, <1>3
         DEF WaitForJob, JobFailed, JobSucceeded, AfterSuccess, Goto, PassType, world, objects,
             cluster
    <2>2. pass'.pc = "deleteDone" =>
            /\ s \in {"upgrade-preupgrade-sync", "upgrade-postupgrade"}
            /\ Succeeded(StageJob[s])
      BY <1>1, <1>3 DEF WaitForJob, JobFailed, JobSucceeded, Goto, PassType
    <2>3. Progress'
      BY <1>1, <2>1, <2>2 DEF Progress, Succeeded, world
    <2>4. \A st \in {status} : Fits(st)'
      BY <1>1, <2>1, FitsKept
    <2> QED
      BY <1>1, <2>1, <2>2, <2>3, <2>4, GoOnSafe DEF WorkingPoints
  <1> QED
    BY <1>2, <1>3 DEF Stage

(* The cluster moves on from one stage to the next with nothing of the     *)
(* former left.                                                            *)
LEMMA NextStageFits ==
    ASSUME NEW st \in StatusType, NEW next, next = Advance(st), st.target # None,
           Fits(st)', cm'.dbid # None,
           \A j \in Jobs : job'[j].phase = "none", pstream' = NoNode,
           \A n \in Nodes : sup'[n].phase = "none",
           \/ st.state = "upgrade-preupgrade" /\ cm'.initdb = st.version
           \/ /\ st.state \in {"upgrade-preupgrade-scaledown", "upgrade-scaledown"}
              /\ sts'.replicas = 0 /\ \A n \in Nodes : pod'[n].phase = "none"
           \/ st.state = "upgrade-preupgrade-sync"
           \/ st.state = "upgrade-primary" /\ cm'.dbid = st.target
           \/ /\ st.state = "upgrade-secondaries"
              /\ \A n \in Nodes \ {cm'.leader} : vol'[n].data \in {None, st.target}
           \/ st.state = LastStage /\ cm'.ckpt = None
    PROVE  Fits(next)'
  <1>1. /\ next.version = st.version
        /\ st.state = LastStage => next.state = "ready" /\ next.target = None
        /\ st.state # LastStage => next.target = st.target
        /\ st.state = "upgrade-preupgrade" => next.state = "upgrade-preupgrade-scaledown"
        /\ st.state = "upgrade-preupgrade-scaledown" => next.state = "upgrade-preupgrade-sync"
        /\ st.state = "upgrade-preupgrade-sync" => next.state = "upgrade-scaledown"
        /\ st.state = "upgrade-scaledown" => next.state = "upgrade-primary"
        /\ st.state = "upgrade-primary" => next.state = "upgrade-secondaries"
        /\ st.state = "upgrade-secondaries" => next.state = "upgrade-primary-move"
    BY DEF Advance, NextStage, LastStage, StatusType
  <1>2. st.version # None /\ (st.state # LastStage => st.target # st.version)
    BY DEF Fits, Known, LastStage
  <1>3. Known(next)'
    BY <1>1, <1>2 DEF Known, LastStage
  <1>4. Apart(next)'
    BY <1>1 DEF Fits, Apart, Down, LastStage
  <1>5. LeaderDatabase(next)'
    BY <1>1, <1>2 DEF Fits, Stored, LeaderDatabase, Down, LastStage
  <1>6. OtherDatabases(next)'
    BY <1>1, <1>2 DEF Fits, Stored, OtherDatabases, LastStage
  <1>7. UpJob(next)' /\ MoveJob(next)' /\ PreupgradeJob(next)' /\ SecondaryJobs(next)'
    BY JobsAre DEF UpJob, MoveJob, PreupgradeJob, SecondaryJobs
  <1>8. Recorded(next)'
    BY <1>1 DEF Fits, Recorded, Down, LastStage
  <1>9. next.state # ""
    BY <1>1 DEF LastStage
  <1> QED
    BY <1>3, <1>4, <1>5, <1>6, <1>7, <1>8, <1>9 DEF Fits, Stored

(* The move makes the database on the leader's volume the cluster's.       *)
LEMMA MovedFits ==
    ASSUME NEW st \in StatusType, NEW next, next = Advance(Moved(st)), st.target # None,
           st.state = "upgrade-primary-move",
           Fits(st)', cm'.dbid # None, vol'[cm'.leader].data = st.target,
           \A j \in Jobs : job'[j].phase = "none", pstream' = NoNode
    PROVE  Fits(next)'
  <1>1. next.state = LastStage /\ next.version = st.target /\ next.target = st.target
    BY DEF Advance, Moved, NextStage, LastStage, StatusType
  <1>2. st.version # None /\ st.target # st.version
    BY DEF Fits, Known, LastStage
  <1>3. Known(next)' /\ Apart(next)'
    BY <1>1 DEF Fits, Known, Apart, Down, LastStage
  <1>4. LeaderDatabase(next)' /\ OtherDatabases(next)'
    BY <1>1, <1>2 DEF Fits, Stored, LeaderDatabase, OtherDatabases, Down, LastStage
  <1>5. UpJob(next)' /\ MoveJob(next)' /\ PreupgradeJob(next)' /\ SecondaryJobs(next)'
    BY JobsAre DEF Fits, UpJob, MoveJob, PreupgradeJob, SecondaryJobs
  <1>6. Recorded(next)'
    BY <1>1 DEF Recorded, Down, LastStage
  <1> QED
    BY <1>1, <1>3, <1>4, <1>5, <1>6 DEF Fits, Stored, LastStage

(* The status of a stage: there is a database, and a target for it.        *)
LEMMA StageFits ==
    ASSUME Inductive, Safe, status.state \in Stages
    PROVE  /\ Fits(status) /\ status \in StatusType /\ status \in Held
           /\ cm.dbid # None /\ cm.leader \in Nodes /\ NoNode \notin Nodes
           /\ status.target # None
           /\ LeaderDatabase(status) /\ OtherDatabases(status)
  <1>1. status \in Held /\ Fits(status)
    BY StatusFits
  <1>2. cm.dbid # None /\ cm.leader \in Nodes /\ NoNode \notin Nodes
    BY <1>1, WhereScriptsRun
  <1>3. Stored(status)
    BY <1>1 DEF Fits
  <1> QED
    BY <1>1, <1>2, <1>3 DEF Inductive, TypeOK, StagesHaveTargets, Stored

(* Without the stage's own job, there is none.                             *)
LEMMA OnlyTheStagesJob ==
    ASSUME Inductive, Safe
    PROVE  /\ \A s \in DOMAIN StageJob, j \in Jobs :
                status.state = s /\ j # StageJob[s] => job[j].phase = "none"
           /\ status.state \notin DOMAIN StageJob => \A j \in Jobs : job[j].phase = "none"
           /\ status.state # "upgrade-secondaries" =>
                pstream = NoNode /\ \A n \in Nodes : sup[n].phase = "none"
  <1>1. \A j \in Jobs : \E s \in DOMAIN StageJob : StageJob[s] = j
    BY DEF StageJob, Jobs
  <1>2. status.state # "upgrade-secondaries" => \A n \in Nodes : sup[n].phase = "none"
    BY StatusFits DEF Fits, SecondaryJobs
  <1> QED
    BY <1>1, <1>2 DEF Inductive, JobsInTheirStage

LEMMA DeletionFits ==
    ASSUME NEW st, Fits(st), NEW j \in Jobs, job \in [Jobs -> JobType],
           job' = [job EXCEPT ![j] = NoJob], UNCHANGED <<sts, sup, pstream, cm, pod, vol>>
    PROVE  Fits(st)'
  <1>1. job'[j].phase = "none" /\ \A i \in Jobs \ {j} : job'[i] = job[i]
    BY DEF NoJob
  <1>2. UpJob(st)' /\ MoveJob(st)' /\ PreupgradeJob(st)'
    BY <1>1, JobsAre DEF Fits, UpJob, MoveJob, PreupgradeJob, Succeeded
  <1> QED
    BY <1>2, JobFits

LEMMA DeleteFailedSafe == ASSUME Inductive, Safe, DeleteFailedJob PROVE Safe'
  <1>1. pass' = NoPass /\ UNCHANGED <<status, sts, sup, pstream, cm, pod, vol>>
    BY DEF DeleteFailedJob, EndWithError, SetJob, cluster
  <1>2. /\ pass.st.state \in DOMAIN StageJob /\ job \in [Jobs -> JobType]
        /\ job' = [job EXCEPT ![StageJob[pass.st.state]] = NoJob]
    BY DEF DeleteFailedJob, SetJob, Inductive, TypeOK, PassInItsStage, Points, FinalPoints
  <1>3. \A st \in {status'} : Fits(st)'
    BY <1>1, <1>2, StatusFits, LadderTypes, DeletionFits
  <1> QED
    BY <1>1, <1>3, OverSafe

LEMMA DeleteSucceededSafe == ASSUME Inductive, Safe, DeleteSucceededJob PROVE Safe'
  <1>1. /\ pass.pc = "deleteDone" /\ pass \in PassType /\ status.state \in DOMAIN StageJob
        /\ pass.st.state = status.state /\ job \in [Jobs -> JobType]
        /\ status.state \in Stages /\ StageJob[status.state] \in Jobs
        /\ pass.st = IF status.state = "upgrade-primary-move" THEN Moved(status) ELSE status
        /\ Succeeded(StageJob[status.state])
    BY LadderTypes
       DEF DeleteSucceededJob, Inductive, TypeOK, PassInItsStage, Points, FinalPoints, Safe,
           StatusRead, Progress
  <1>2. /\ Fits(status) /\ status \in StatusType /\ status.target # None
        /\ cm.dbid # None /\ cm.leader \in Nodes
    BY <1>1, StageFits
  <1>3. PICK next : next = Advance(pass.st)
    OBVIOUS
  <1>4. /\ pass'.st = next
        /\ pass'.pc = IF status.state = LastStage THEN "clear" ELSE "saveRequeue"
        /\ UNCHANGED <<specVersion, status, sts, sup, pstream, cm, pod, vol>>
        /\ job' = [job EXCEPT ![StageJob[status.state]] = NoJob]
    BY <1>1, <1>3 DEF DeleteSucceededJob, SetJob, Deleted, PassType, cluster
  <1>5. \A st \in {status} : Fits(st)'
    BY <1>1, <1>2, <1>4, DeletionFits
  <1>6. CASE status.state = LastStage
    <2>1. StatusRead' /\ Progress' /\ Held' = {status}
      BY <1>1, <1>3, <1>4, <1>6
         DEF StatusRead, Progress, Held, LastStage, Points, FinalPoints, Stages, NextStage
    <2> QED
      BY <1>5, <2>1 DEF Safe
  <1>7. CASE status.state # LastStage
    <2>1. Follows'
      BY <1>1, <1>3, <1>4, <1>7 DEF Follows
    <2>2. /\ \A j \in Jobs : job'[j].phase = "none"
          /\ pstream' = NoNode /\ \A n \in Nodes : sup'[n].phase = "none"
      <3>1. \A j \in Jobs \ {StageJob[status.state]} : job[j].phase = "none"
        BY <1>1, OnlyTheStagesJob
      <3>2. status.state # "upgrade-secondaries"
        BY <1>1 DEF StageJob
      <3> QED
        BY <1>1, <1>4, <3>1, <3>2, OnlyTheStagesJob DEF NoJob
    <2>3. PICK st : st = status
      OBVIOUS
    <2>4. CASE status.state = "upgrade-primary-move"
      <3>1. vol[cm.leader].data = status.target
        BY <1>1, <1>2, <2>4 DEF Fits, MoveJob, Succeeded, StageJob
      <3>2. Fits(next)'
        BY <1>1, <1>2, <1>3, <1>4, <1>5, <2>2, <2>3, <2>4, <3>1, MovedFits
      <3> QED
        BY <1>4, <1>5, <1>7, <2>1, <3>2, SavingSafe
    <2>5. CASE status.state # "upgrade-primary-move"
      <3>1. \/ status.state = "upgrade-preupgrade" /\ cm.initdb = status.version
            \/ status.state = "upgrade-preupgrade-sync"
            \/ status.state = "upgrade-primary" /\ cm.dbid = status.target
        BY <1>1, <1>7, <2>5 DEF StageJob, LastStage, Safe, Progress
      <3>2. Fits(next)'
        BY <1>1, <1>2, <1>3, <1>4, <1>5, <2>2, <2>3, <2>5, <3>1, NextStageFits
      <3> QED
        BY <1>4, <1>5, <1>7, <2>1, <3>2, SavingSafe
    <2> QED
      BY <2>4, <2>5
  <1> QED
    BY <1>6, <1>7

-----------------------------------------------------------------------------
(* The stages of the way down.                                             *)

(* The settings kept for initdb are those of the cluster's database.       *)
LEMMA PreupgradeSafe ==
    ASSUME Inductive, Safe, PreupgradeAccept \/ PreupgradeRefuse
    PROVE  Safe'
  <1>1. /\ pass \in PassType /\ cm \in CmType /\ Fits(status) /\ pass.st = status
        /\ status.state = "upgrade-preupgrade" /\ Succeeded("preupgrade")
    BY StatusFits, StatusAtWork DEF PreupgradeAccept, PreupgradeRefuse, Inductive, TypeOK, StageJob
  <1>2. CASE PreupgradeRefuse
    <2>1. /\ pass'.pc = "deleteFailed" /\ pass'.st = status
          /\ UNCHANGED <<specVersion, status, world>>
      BY <1>1, <1>2 DEF PreupgradeRefuse, Goto, PassType, world, objects, cluster
    <2>2. Progress' /\ \A st \in {status} : Fits(st)'
      BY <1>1, <2>1, FitsKept DEF Progress
    <2> QED
      BY <2>1, <2>2, GoOnSafe DEF WorkingPoints
  <1>3. CASE PreupgradeAccept
    <2>1. /\ pass'.pc \in {"deleteDone", "deleteFailed"} /\ pass'.st = status
          /\ UNCHANGED <<specVersion, status, sts, job, sup, pstream, pod, vol>>
          /\ cm'.dbid = cm.dbid /\ cm'.leader = cm.leader /\ cm'.ckpt = cm.ckpt
          /\ cm'.initdb = job["preupgrade"].args
      BY <1>1, <1>3
         DEF PreupgradeAccept, SetConfig, SettingsRecorded, AfterSuccess, Goto, PassType, CmType,
             cluster
    <2>2. job["preupgrade"].args = status.version
      BY <1>1, <1>3 DEF PreupgradeAccept, Fits, PreupgradeJob, Succeeded
    <2>3. Progress'
      BY <1>1, <2>1, <2>2 DEF Progress, Succeeded, StageJob
    <2>4. ASSUME NEW st \in {status} PROVE Fits(st)'
      <3>1. SameDatabases /\ Fits(st) /\ st.state = "upgrade-preupgrade"
        BY <1>1, <2>1 DEF SameDatabases
      <3>2. cm.dbid = None => \A n \in Nodes : pod'[n].phase \in {"none", "up"}
        BY <2>1, <3>1 DEF Fits, Stored, NoDatabase
      <3>3. Recorded(st)'
        BY <2>1, <3>1 DEF Fits, Recorded, Down
      <3> QED
        BY <2>1, <3>1, <3>2, <3>3, KnownKept, ApartKept, StoredKept, LeaderJobsKept,
           SecondaryJobsKept DEF Fits
    <2> QED
      BY <1>1, <2>1, <2>3, <2>4, GoOnSafe DEF WorkingPoints
  <1> QED
    BY <1>2, <1>3

(* Scaled down means that no pod is left.                                  *)
LEMMA ScaleDownSafe ==
    ASSUME AvailableWhileRunning, Inductive, Safe, ScaleDown
    PROVE  Safe'
  <1>1. /\ pass \in PassType /\ sts \in StsType /\ pass.st = status
        /\ status.state \in {"upgrade-preupgrade-scaledown", "upgrade-scaledown"}
        /\ status.state \in Stages /\ status.state # LastStage
    BY StatusAtWork DEF ScaleDown, Inductive, TypeOK, Stages, NextStage, LastStage
  <1>2. /\ Fits(status) /\ status \in StatusType /\ status.target # None /\ cm.dbid # None
    BY <1>1, StageFits
  <1>3. /\ sts'.replicas = 0 /\ UNCHANGED <<specVersion, status, job, sup, pstream, cm, pod, vol>>
    BY <1>1 DEF ScaleDown, StsType, cluster
  <1>4. ASSUME NEW st \in {status} PROVE Fits(st)'
    <2>1. SameDatabases /\ Fits(st)
      BY <1>2, <1>3 DEF SameDatabases
    <2>2. cm.dbid = None => \A n \in Nodes : pod'[n].phase \in {"none", "up"}
      BY <1>2
    <2>3. Apart(st)'
      BY <1>3, <2>1 DEF Fits, Apart
    <2> QED
      BY <1>3, <2>1, <2>2, <2>3, KnownKept, StoredKept, LeaderJobsKept, SecondaryJobsKept,
         RecordedKept DEF Fits
  <1>5. CASE ScaledDown
    <2>1. PICK next : next = Advance(status)
      OBVIOUS
    <2>2. pass'.st = next /\ pass'.pc = "saveRequeue"
      BY <1>1, <1>5, <2>1 DEF ScaleDown, Done, PassType
    <2>3. \A n \in Nodes : pod'[n].phase = "none"
      BY <1>3, <1>5 DEF ScaledDown, CountedAvailable
    <2>4. Follows'
      BY <1>1, <1>3, <2>1, <2>2 DEF Follows
    <2>5. PICK st : st = status
      OBVIOUS
    <2>6. /\ \A j \in Jobs : job'[j].phase = "none"
          /\ pstream' = NoNode /\ \A n \in Nodes : sup'[n].phase = "none"
      BY <1>1, <1>3, OnlyTheStagesJob DEF StageJob
    <2>7. Fits(next)'
      BY <1>1, <1>2, <1>3, <1>4, <2>1, <2>3, <2>5, <2>6, NextStageFits
    <2> QED
      BY <1>3, <1>4, <2>2, <2>4, <2>7, SavingSafe
  <1>6. CASE ~ScaledDown
    <2>1. pass'.st = status /\ pass'.pc = "save"
      BY <1>1, <1>6 DEF ScaleDown, Goto, PassType
    <2>2. Progress'
      BY <2>1 DEF Progress
    <2> QED
      BY <1>3, <1>4, <2>1, <2>2, GoOnSafe DEF WorkingPoints
  <1> QED
    BY <1>5, <1>6

(* A single member has no replicas to bring in sync or to upgrade.         *)
LEMMA SkipSafe == ASSUME Inductive, Safe, SkipSingleNode PROVE Safe'
  <1>1. /\ pass \in PassType /\ pass.st = status /\ N = 1
        /\ status.state \in {"upgrade-preupgrade-sync", "upgrade-secondaries"}
        /\ status.state \in Stages /\ status.state # LastStage
    BY StatusAtWork DEF SkipSingleNode, Inductive, TypeOK, Stages, NextStage, LastStage
  <1>2. /\ Fits(status) /\ status \in StatusType /\ status.target # None /\ cm.dbid # None
        /\ cm.leader \in Nodes
    BY <1>1, StageFits
  <1>3. PICK next : next = Advance(status)
    OBVIOUS
  <1>4. /\ pass'.st = next /\ pass'.pc = "saveRequeue" /\ UNCHANGED <<status, world>>
    BY <1>1, <1>3 DEF SkipSingleNode, Done, PassType, world, objects, cluster
  <1>5. \A st \in {status} : Fits(st)'
    BY <1>2, <1>4, FitsKept
  <1>6. Nodes \ {cm.leader} = {}
    BY <1>1, <1>2 DEF Nodes
  <1>7. \A n \in Nodes : sup[n].phase = "none"
    BY <1>2, <1>6 DEF Fits, SecondaryJobs
  <1>8. (\A j \in Jobs : job[j].phase = "none") /\ pstream = NoNode
    <2>1. ASSUME NEW j \in Jobs PROVE job[j].phase = "none"
      <3>1. CASE status.state = "upgrade-preupgrade-sync" /\ j = "preupgrade-sync"
        BY <1>1, <3>1 DEF Inductive, NothingToSkip
      <3>2. CASE status.state = "upgrade-preupgrade-sync" /\ j # "preupgrade-sync"
        BY <3>2, OnlyTheStagesJob DEF StageJob
      <3>3. CASE status.state = "upgrade-secondaries"
        BY <3>3, OnlyTheStagesJob DEF StageJob
      <3> QED
        BY <1>1, <3>1, <3>2, <3>3
    <2> QED
      BY <1>1, <2>1 DEF Inductive, NothingToSkip
  <1>9. PICK st : st = status
    OBVIOUS
  <1>10. Fits(next)'
    BY <1>1, <1>2, <1>3, <1>4, <1>5, <1>6, <1>7, <1>8, <1>9, NextStageFits DEF world
  <1>11. Follows'
    BY <1>1, <1>3, <1>4 DEF Follows
  <1> QED
    BY <1>4, <1>5, <1>10, <1>11, SavingSafe

(* The cluster is started, to bring the replicas in sync or to serve its   *)
(* clients.                                                                *)
LEMMA StartSafe ==
    ASSUME Inductive, Safe, SyncStartCluster \/ PostStartCluster
    PROVE  Safe'
  <1>1. /\ pass \in PassType /\ pass.st = status
        /\ SyncStartCluster => status.state = "upgrade-preupgrade-sync"
        /\ PostStartCluster => status.state = LastStage
    BY StatusAtWork
       DEF SyncStartCluster, PostStartCluster, Inductive, TypeOK, Stages, NextStage, LastStage
  <1>2. PICK port :
          /\ sts' = [replicas |-> N, port |-> port, version |-> status.version]
          /\ status.state = "upgrade-preupgrade-sync" => port = MaintenancePort
    BY <1>1 DEF SyncStartCluster, PostStartCluster, SetSts, LastStage
  <1>3. /\ UNCHANGED <<specVersion, status, job, sup, pstream, cm, pod, vol>>
        /\ pass'.st = status /\ pass'.pc \in {"syncService", "postServiceReady", "postServiceWait"}
    BY <1>1 DEF SyncStartCluster, PostStartCluster, SetSts, Goto, PassType, cluster
  <1>4. Progress'
    BY <1>3 DEF Progress
  <1>5. ASSUME NEW st \in {status} PROVE Fits(st)'
    <2>1. /\ Fits(st) /\ st.state \notin Down \cup {"", "upgrade-scaledown"}
          /\ sts' = [replicas |-> N, port |-> port, version |-> st.version]
      BY <1>1, <1>2, StatusFits DEF Down, LastStage
    <2> QED
      BY <1>2, <1>3, <2>1, StatefulSetFits
  <1> QED
    BY <1>3, <1>4, <1>5, GoOnSafe DEF WorkingPoints

LEMMA ServicesSafe == ASSUME Inductive, Safe, SyncService \/ PostService PROVE Safe'
  <1>1. pass \in PassType /\ pass.st = status /\ Fits(status)
    BY StatusAtWork, StatusFits DEF SyncService, PostService, Inductive, TypeOK
  <1>2. /\ pass'.st = status /\ pass'.pc \in {"syncJob", "postJob", "save"}
        /\ UNCHANGED <<specVersion, status, world>>
    BY <1>1 DEF SyncService, PostService, SetService, Goto, PassType, world, cluster
  <1>3. Progress' /\ \A st \in {status} : Fits(st)'
    BY <1>1, <1>2, FitsKept DEF Progress
  <1> QED
    BY <1>2, <1>3, GoOnSafe DEF WorkingPoints

-----------------------------------------------------------------------------
(* The primary stage.                                                      *)

(* The jobs that work on the leader's volume are told what they are for.   *)
LEMMA CreationSafe == ASSUME Inductive, Safe, CreatePrimaryJob \/ CreateMoveJob PROVE Safe'
  <1>1. /\ pass \in PassType /\ pass.st = status /\ job \in [Jobs -> JobType]
        /\ CreatePrimaryJob => status.state = "upgrade-primary"
        /\ CreateMoveJob => status.state = "upgrade-primary-move"
        /\ status.state \in Stages
    BY StatusAtWork
       DEF CreatePrimaryJob, CreateMoveJob, StageJob, Inductive, TypeOK, Stages, NextStage
  <1>2. Fits(status) /\ SyncLeader = cm.leader
    BY <1>1, StageFits, LeaderKnown
  <1> DEFINE given   == [NoJob EXCEPT !.node = SyncLeader, !.from = status.version,
                            !.to = status.target, !.id = cm.dbid, !.args = cm.initdb]
             upgrade == [given EXCEPT !.phase = "active"]
             move    == [NoJob EXCEPT !.phase = "active", !.node = SyncLeader]
  <1>3. /\ upgrade.phase = "active" /\ upgrade.node = SyncLeader /\ upgrade.args = cm.initdb
        /\ upgrade.from = status.version /\ upgrade.to = status.target /\ upgrade.ckpt = None
    BY DEF NoJob
  <1>4. move.phase = "active" /\ move.node = SyncLeader
    BY DEF NoJob
  <1>5. CreatePrimaryJob => job' = [job EXCEPT !["up"] = upgrade]
    BY <1>1 DEF CreatePrimaryJob, CreateJob, SetJob
  <1>6. CreateMoveJob => job' = [job EXCEPT !["move"] = move]
    BY DEF CreateMoveJob, CreateJob, SetJob, NoJob
  <1> HIDE DEF given, upgrade, move
  <1>7. PICK j \in {"up", "move"} :
          /\ job'[j].phase = "active" /\ job'[j].node = cm.leader
          /\ \A i \in Jobs \ {j} : job'[i] = job[i]
          /\ j = "up" => /\ status.state = "upgrade-primary"
                         /\ job'[j].from = status.version /\ job'[j].to = status.target
                         /\ job'[j].args = cm.initdb /\ job'[j].ckpt = None
          /\ j = "move" => status.state = "upgrade-primary-move"
    <2>1. CASE CreatePrimaryJob
      <3>1. job'["up"] = upgrade /\ \A i \in Jobs \ {"up"} : job'[i] = job[i]
        BY <1>1, <1>5, <2>1, JobsAre
      <3> QED
        BY <1>1, <1>2, <1>3, <2>1, <3>1
    <2>2. CASE CreateMoveJob
      <3>1. job'["move"] = move /\ \A i \in Jobs \ {"move"} : job'[i] = job[i]
        BY <1>1, <1>6, <2>2, JobsAre
      <3> QED
        BY <1>1, <1>2, <1>4, <2>2, <3>1
    <2> QED
      BY <2>1, <2>2
  <1>8. /\ pass'.st = status /\ pass'.pc = "save"
        /\ UNCHANGED <<specVersion, status, sts, sup, pstream, cm, pod, vol>>
    BY <1>1 DEF CreatePrimaryJob, CreateMoveJob, CreateJob, SetJob, Goto, PassType, cluster
  <1>9. Progress'
    BY <1>8 DEF Progress
  <1>10. ASSUME NEW st \in {status} PROVE Fits(st)'
    <2>1. cm.initdb = st.version \/ j = "move"
      BY <1>2, <1>7 DEF Fits, Recorded
    <2>2. UpJob(st)' /\ MoveJob(st)' /\ PreupgradeJob(st)'
      BY <1>2, <1>7, <1>8, <2>1, JobsAre
         DEF Fits, UpJob, MoveJob, PreupgradeJob, Succeeded
    <2> QED
      BY <1>2, <1>8, <2>2, JobFits
  <1> QED
    BY <1>8, <1>9, <1>10, GoOnSafe DEF WorkingPoints

(* The checkpoint on record is that of the database just upgraded.         *)
LEMMA RecordCheckpointSafe == ASSUME Inductive, Safe, PrimaryRecordCheckpoint PROVE Safe'
  <1>1. /\ pass \in PassType /\ cm \in CmType /\ pass.st = status /\ Fits(status)
        /\ status.state = "upgrade-primary" /\ Succeeded("up")
    BY StatusFits, StatusAtWork DEF PrimaryRecordCheckpoint, Inductive, TypeOK, StageJob
  <1>2. /\ pass'.pc = "setDBId" /\ pass'.st = status
        /\ UNCHANGED <<specVersion, status, sts, job, sup, pstream, pod, vol>>
        /\ cm'.dbid = cm.dbid /\ cm'.leader = cm.leader /\ cm'.initdb = cm.initdb
        /\ cm'.ckpt \in {cm.ckpt, job["up"].ckpt}
    BY <1>1 DEF PrimaryRecordCheckpoint, SetConfig, Goto, PassType, CmType, cluster
  <1>3. Progress'
    BY <1>1, <1>2 DEF Progress, Succeeded
  <1>4. ASSUME NEW st \in {status} PROVE Fits(st)'
    <2>1. SameDatabases /\ Fits(st) /\ st.state = "upgrade-primary"
      BY <1>1, <1>2 DEF SameDatabases
    <2>2. job["up"].ckpt \in {None, st.version}
      BY <1>1, <2>1 DEF Fits, UpJob, Succeeded
    <2>3. cm.dbid = None => \A n \in Nodes : pod'[n].phase \in {"none", "up"}
      BY <1>2, <2>1 DEF Fits, Stored, NoDatabase
    <2>4. Recorded(st)'
      BY <1>2, <2>1, <2>2 DEF Fits, Recorded, Down
    <2> QED
      BY <1>2, <2>1, <2>3, <2>4, KnownKept, ApartKept, StoredKept, LeaderJobsKept,
         SecondaryJobsKept DEF Fits
  <1> QED
    BY <1>2, <1>3, <1>4, GoOnSafe DEF WorkingPoints

(* The identity on record becomes that of the upgraded database.           *)
LEMMA SetDBIdSafe == ASSUME Inductive, Safe, PrimarySetDBId PROVE Safe'
  <1>1. /\ pass \in PassType /\ cm \in CmType /\ pass.st = status
        /\ status.state = "upgrade-primary" /\ status.state \in Stages /\ Succeeded("up")
    BY StatusAtWork
       DEF PrimarySetDBId, Inductive, TypeOK, PassInItsStage, Safe, Progress, Stages, NextStage
  <1>2. Fits(status) /\ cm.dbid # None /\ cm.leader \in Nodes /\ status.target # None
    BY <1>1, StageFits
  <1>3. job["up"].newid = status.target /\ vol[cm.leader].new = status.target
    BY <1>1, <1>2 DEF Fits, UpJob, Succeeded
  <1>4. /\ pass'.pc \in {"deleteDone", "deleteFailed"} /\ pass'.st = status
        /\ UNCHANGED <<specVersion, status, sts, job, sup, pstream, pod, vol>>
        /\ cm'.dbid = status.target /\ cm'.leader = cm.leader /\ cm'.initdb = cm.initdb
        /\ cm'.ckpt = cm.ckpt
    BY <1>1, <1>3
       DEF PrimarySetDBId, SetConfig, Identified, AfterSuccess, Goto, PassType, CmType, cluster
  <1>5. Progress'
    BY <1>1, <1>4 DEF Progress, Succeeded, StageJob
  <1>6. ASSUME NEW st \in {status} PROVE Fits(st)'
    <2>1. SameDatabases /\ Fits(st) /\ st.state = "upgrade-primary"
      BY <1>1, <1>2, <1>4 DEF SameDatabases
    <2>2. LeaderDatabase(st)' /\ OtherDatabases(st)'
      BY <1>2, <1>3, <1>4, <2>1 DEF Fits, Stored, LeaderDatabase, OtherDatabases, Down
    <2>3. Stored(st)'
      BY <1>2, <1>4, <2>1, <2>2 DEF Stored
    <2> QED
      BY <1>2, <1>4, <2>1, <2>3, KnownKept, ApartKept, LeaderJobsKept, SecondaryJobsKept,
         RecordedKept DEF Fits
  <1> QED
    BY <1>1, <1>4, <1>5, <1>6, GoOnSafe DEF WorkingPoints

-----------------------------------------------------------------------------
(* The secondaries' stage.                                                 *)

SecondaryPoints == {"clients", "dropStream", "dropClients", "dropFailed"}

LEMMA WhereSecondariesAre ==
    ASSUME Inductive, Safe, pass.pc \in SecondaryPoints \cup {"upgrade-secondaries"}
    PROVE  /\ pass \in PassType /\ pass.st = status /\ status.state = "upgrade-secondaries"
           /\ Fits(status) /\ cm.dbid # None /\ cm.leader \in Nodes /\ NoNode \notin Nodes
           /\ status.target # None /\ status \in StatusType
           /\ sup \in [Nodes -> JobType] /\ SyncLeader = cm.leader
           /\ pass.pc \in SecondaryPoints => pass.leader = cm.leader
  <1>1. pass \in PassType /\ sup \in [Nodes -> JobType]
    BY DEF Inductive, TypeOK
  <1>2. pass.st = status /\ status.state = "upgrade-secondaries"
    BY StatusAtWork DEF SecondaryPoints, Stages, NextStage, Inductive, PassInItsStage
  <1>3. pass.pc \in SecondaryPoints => pass.leader = cm.leader
    BY DEF SecondaryPoints, Safe, Progress
  <1>4. status.state \in Stages
    BY <1>2 DEF Stages, NextStage
  <1> QED
    BY <1>1, <1>2, <1>3, <1>4, StageFits, LeaderKnown

(* The streamer serves the leader's volume, until it is deleted.           *)
LEMMA StreamerSafe == ASSUME Inductive, Safe, EnsureStreamer \/ DeleteStreamer PROVE Safe'
  <1>1. pass.pc \in {"upgrade-secondaries", "dropStream"}
    BY DEF EnsureStreamer, DeleteStreamer
  <1>2. /\ pass \in PassType /\ pass.st = status /\ Fits(status) /\ cm.leader \in Nodes
        /\ SyncLeader = cm.leader
    BY <1>1, WhereSecondariesAre DEF SecondaryPoints
  <1>3. /\ pass'.st = status
        /\ EnsureStreamer => pass'.pc = "clients" /\ pass'.leader = cm.leader
        /\ DeleteStreamer => pass'.pc = "dropClients" /\ pass'.leader = pass.leader
                             /\ pass'.drop = pass.drop
        /\ pstream' \in {NoNode, pstream, cm.leader}
        /\ UNCHANGED <<specVersion, status, sts, job, sup, cm, pod, vol>>
    BY <1>2 DEF EnsureStreamer, DeleteStreamer, Goto, PassType, cluster
  <1>4. pass'.pc \in {"clients", "dropClients"}
    BY <1>3
  <1>5. Progress'
    BY <1>3 DEF Safe, Progress, DeleteStreamer
  <1>6. ASSUME NEW st \in {status} PROVE Fits(st)'
    <2>1. SameDatabases /\ Fits(st)
      BY <1>2, <1>3 DEF SameDatabases
    <2>2. cm.dbid = None => \A n \in Nodes : pod'[n].phase \in {"none", "up"}
      BY <1>3, <2>1 DEF Fits, Stored, NoDatabase
    <2>3. SecondaryJobs(st)'
      BY <1>3, <2>1 DEF Fits, SecondaryJobs, SecondarySucceeded
    <2> QED
      BY <1>3, <2>1, <2>2, <2>3, KnownKept, ApartKept, StoredKept, LeaderJobsKept, RecordedKept
         DEF Fits
  <1> QED
    BY <1>3, <1>4, <1>5, <1>6, GoOnSafe DEF WorkingPoints

(* Only the secondaries' own jobs change.                                  *)
LEMMA SecondaryJobFits ==
    ASSUME NEW st, Fits(st), UNCHANGED <<sts, job, pstream, cm, pod, vol>>, SecondaryJobs(st)'
    PROVE  Fits(st)'
  <1>1. SameDatabases
    BY DEF SameDatabases
  <1>2. cm.dbid = None => \A n \in Nodes : pod'[n].phase \in {"none", "up"}
    BY DEF Fits, Stored, NoDatabase
  <1> QED
    BY <1>1, <1>2, KnownKept, ApartKept, StoredKept, LeaderJobsKept, RecordedKept DEF Fits

(* A secondary's job is told the checkpoint of the database its leader     *)
(* had.                                                                    *)
LEMMA CreateSecondarySafe == ASSUME Inductive, Safe, CreateSecondaryJob PROVE Safe'
  <1>1. /\ pass.st = status /\ status.state = "upgrade-secondaries" /\ Fits(status)
        /\ pass.leader = cm.leader /\ sup \in [Nodes -> JobType] /\ pass.pc = "clients"
    BY WhereSecondariesAre DEF CreateSecondaryJob, SecondaryPoints
  <1>2. UNCHANGED <<specVersion, status, pass, sts, job, pstream, cm, pod, vol>>
    BY DEF CreateSecondaryJob, operator, cluster
  <1>3. PICK n \in Missing :
          sup' = [sup EXCEPT ![n] = [NoJob EXCEPT !.phase = "active", !.node = n,
                     !.from = pass.st.version, !.to = pass.st.target,
                     !.id = cm.dbid, !.ckpt = cm.ckpt]]
    BY DEF CreateSecondaryJob
  <1>4. n \in Nodes /\ n # cm.leader
    BY <1>1, <1>3 DEF Missing, Secondaries
  <1>5. /\ sup'[n].phase = "active" /\ sup'[n].from = status.version
        /\ sup'[n].to = status.target /\ sup'[n].ckpt = cm.ckpt
        /\ \A m \in Nodes \ {n} : sup'[m] = sup[m]
    BY <1>1, <1>3, <1>4 DEF NoJob
  <1>6. cm.ckpt = status.version
    BY <1>1 DEF CreateSecondaryJob, StreamArgsKnown, Fits, Recorded, Down
  <1>7. ASSUME NEW st \in {status} PROVE Fits(st)'
    <2>1. SecondaryJobs(st)'
      BY <1>1, <1>2, <1>4, <1>5, <1>6 DEF Fits, SecondaryJobs, SecondarySucceeded
    <2> QED
      BY <1>1, <1>2, <2>1, SecondaryJobFits
  <1>8. StatusRead' /\ Held' = {status}
    BY <1>1, <1>2, ReadKept DEF Safe, Held
  <1>9. Progress'
    BY <1>1, <1>2 DEF Safe, Progress
  <1> QED
    BY <1>7, <1>8, <1>9 DEF Safe

(* When every job of a secondary has succeeded, every volume is empty or   *)
(* upgraded, and every job is to be deleted.                               *)
LEMMA CheckSecondariesSafe == ASSUME Inductive, Safe, CheckSecondaryJobs PROVE Safe'
  <1>1. /\ pass \in PassType /\ pass.st = status /\ status.state = "upgrade-secondaries"
        /\ Fits(status) /\ pass.leader = cm.leader
    BY WhereSecondariesAre DEF CheckSecondaryJobs, SecondaryPoints
  <1>2. /\ pass'.st = status /\ pass'.leader = pass.leader
        /\ pass'.pc \in {"dropFailed", "dropStream", "save"}
        /\ pass'.pc = "dropStream" =>
              /\ \A n \in Secondaries(pass.leader) : SecondarySucceeded(n)
              /\ pass'.drop = Secondaries(pass.leader)
        /\ UNCHANGED <<specVersion, status, world>>
    BY <1>1 DEF CheckSecondaryJobs, CleanedUp, PassType, world, objects, cluster
  <1>3. Progress'
    <2>1. \A n \in Nodes \ {cm.leader} :
            SecondarySucceeded(n) => vol[n].data \in {None, status.target}
      BY <1>1 DEF Fits, SecondaryJobs, SecondarySucceeded
    <2>2. Secondaries(pass.leader) = Nodes \ {cm.leader}
      BY <1>1 DEF Secondaries
    <2> QED
      BY <1>1, <1>2, <2>1, <2>2 DEF Progress, world
  <1>4. \A st \in {status} : Fits(st)'
    BY <1>1, <1>2, FitsKept
  <1> QED
    BY <1>1, <1>2, <1>3, <1>4, GoOnSafe DEF WorkingPoints

LEMMA DeleteSecondarySafe == ASSUME Inductive, Safe, DeleteSecondaryJob PROVE Safe'
  <1>1. /\ pass \in PassType /\ pass.st = status /\ status.state = "upgrade-secondaries"
        /\ Fits(status) /\ sup \in [Nodes -> JobType] /\ pass.leader = cm.leader
        /\ pass.pc \in {"dropClients", "dropFailed"}
    BY WhereSecondariesAre DEF DeleteSecondaryJob, SecondaryPoints
  <1>2. PICK n \in pass.drop :
          sup' = [sup EXCEPT ![n] = NoJob] /\ pass' = [pass EXCEPT !.drop = @ \ {n}]
    BY DEF DeleteSecondaryJob
  <1>3. /\ pass'.st = status /\ pass'.pc = pass.pc /\ pass'.leader = pass.leader
        /\ pass'.drop = pass.drop \ {n}
        /\ UNCHANGED <<specVersion, status, sts, job, pstream, cm, pod, vol>>
    BY <1>1, <1>2 DEF DeleteSecondaryJob, PassType, cluster
  <1>4. /\ n \in Nodes /\ sup'[n].phase = "none" /\ \A m \in Nodes \ {n} : sup'[m] = sup[m]
    BY <1>1, <1>2 DEF PassType, NoJob
  <1>5. Progress'
    BY <1>1, <1>3, <1>4 DEF Safe, Progress
  <1>6. ASSUME NEW st \in {status} PROVE Fits(st)'
    <2>1. SecondaryJobs(st)'
      BY <1>1, <1>3, <1>4 DEF Fits, SecondaryJobs, SecondarySucceeded
    <2> QED
      BY <1>1, <1>3, <2>1, SecondaryJobFits
  <1> QED
    BY <1>1, <1>3, <1>5, <1>6, GoOnSafe DEF WorkingPoints

LEMMA SecondariesDoneSafe == ASSUME Inductive, Safe, SecondaryJobsDeleted PROVE Safe'
  <1>1. /\ pass \in PassType /\ pass.st = status /\ status.state = "upgrade-secondaries"
        /\ Fits(status) /\ status \in StatusType /\ status.target # None /\ cm.dbid # None
        /\ UNCHANGED <<specVersion, status, world>>
    BY WhereSecondariesAre
       DEF SecondaryJobsDeleted, SecondaryPoints, world, objects, cluster
  <1>2. CASE pass.pc = "dropClients"
    <2>1. PICK next : next = Advance(status)
      OBVIOUS
    <2>2. pass'.st = next /\ pass'.pc = "saveRequeue"
      BY <1>1, <1>2, <2>1 DEF SecondaryJobsDeleted, Done, PassType
    <2>3. \A st \in {status} : Fits(st)'
      BY <1>1, FitsKept
    <2>4. Follows'
      BY <1>1, <2>1, <2>2 DEF Follows, Stages, NextStage
    <2>5. \A n \in Nodes \ {cm.leader} : vol[n].data \in {None, status.target}
      BY <1>2 DEF Safe, Progress
    <2>6. \A n \in Nodes : sup[n].phase = "none"
      <3>1. pass.drop = {}
        BY DEF SecondaryJobsDeleted
      <3>2. \A n \in Nodes \ {cm.leader} : sup[n].phase = "none"
        BY <1>2, <3>1 DEF Safe, Progress
      <3> QED
        BY <1>1, <3>2 DEF Fits, SecondaryJobs
    <2>7. (\A j \in Jobs : job[j].phase = "none") /\ pstream = NoNode
      BY <1>1, <1>2, OnlyTheStagesJob DEF StageJob, Inductive, PassInItsStage
    <2>8. PICK st : st = status
      OBVIOUS
    <2>9. Fits(next)'
      BY <1>1, <2>1, <2>3, <2>5, <2>6, <2>7, <2>8, NextStageFits DEF world
    <2> QED
      BY <1>1, <2>2, <2>3, <2>4, <2>9, SavingSafe
  <1>3. CASE pass.pc # "dropClients"
    BY <1>1, <1>3, EndSafe DEF SecondaryJobsDeleted
  <1> QED
    BY <1>2, <1>3

-----------------------------------------------------------------------------
(* The end of an upgrade.                                                  *)

LEMMA MoveSucceededSafe == ASSUME Inductive, Safe, MoveSucceeded PROVE Safe'
  <1>1. /\ pass \in PassType /\ pass.st = status /\ status.state = "upgrade-primary-move"
        /\ Fits(status) /\ Succeeded("move")
    BY StatusFits, StatusAtWork DEF MoveSucceeded, Inductive, TypeOK, StageJob
  <1>2. /\ pass'.st = Moved(status) /\ pass'.pc \in {"deleteDone", "deleteFailed"}
        /\ UNCHANGED <<specVersion, status, world>>
    BY <1>1 DEF MoveSucceeded, AfterSuccess, PassType, world, objects, cluster
  <1>3. StatusRead' /\ Progress' /\ Held' \subseteq Held
    BY <1>1, <1>2
       DEF StatusRead, Progress, Held, Succeeded, StageJob, Points, FinalPoints, world
  <1> QED
    BY <1>2, <1>3, HeldKept DEF Safe

(* The next upgrade starts without the annotations of this one.            *)
LEMMA ClearSafe == ASSUME Inductive, Safe, ClearAnnotations PROVE Safe'
  <1>1. /\ pass \in PassType /\ cm \in CmType /\ pass.pc = "clear"
        /\ status.state = LastStage /\ pass.st = Advance(status) /\ status.state \in Stages
    BY DEF ClearAnnotations, Inductive, TypeOK, Safe, StatusRead, Stages
  <1>2. Fits(status) /\ status \in StatusType /\ status.target # None /\ cm.dbid # None
    BY <1>1, StageFits
  <1>3. PICK next : next = Advance(status)
    OBVIOUS
  <1>4. /\ pass'.st = next /\ pass'.pc = "saveRequeue"
        /\ UNCHANGED <<specVersion, status, sts, job, sup, pstream, pod, vol>>
        /\ cm'.dbid = cm.dbid /\ cm'.leader = cm.leader /\ cm'.initdb = None /\ cm'.ckpt = None
    BY <1>1, <1>3 DEF ClearAnnotations, SetConfig, Cleared, Goto, PassType, CmType, cluster
  <1>5. ASSUME NEW st \in {status} PROVE Fits(st)'
    <2>1. SameDatabases /\ Fits(st) /\ st.state = LastStage
      BY <1>1, <1>2, <1>4 DEF SameDatabases
    <2>2. cm.dbid = None => \A n \in Nodes : pod'[n].phase \in {"none", "up"}
      BY <1>2
    <2>3. Recorded(st)'
      BY <1>4, <2>1 DEF Recorded, Down, LastStage
    <2> QED
      BY <1>4, <2>1, <2>2, <2>3, KnownKept, ApartKept, StoredKept, LeaderJobsKept,
         SecondaryJobsKept DEF Fits
  <1>6. (\A j \in Jobs : job[j].phase = "none") /\ pstream = NoNode
    <2>1. pass.st.state # status.state
      BY <1>1, <1>2 DEF Advance, LastStage, StatusType
    <2> QED
      BY <1>1, <2>1 DEF Inductive, NothingLeftBehind, NothingLeft, FinalPoints
  <1>7. \A n \in Nodes : sup[n].phase = "none"
    BY <1>1, OnlyTheStagesJob DEF LastStage
  <1>8. PICK st : st = status
    OBVIOUS
  <1>9. Fits(next)'
    BY <1>1, <1>2, <1>3, <1>4, <1>5, <1>6, <1>7, <1>8, NextStageFits
  <1>10. Follows'
    BY <1>1, <1>3, <1>4 DEF Follows, LastStage
  <1> QED
    BY <1>4, <1>5, <1>9, <1>10, SavingSafe

-----------------------------------------------------------------------------
(* The invariant is inductive.                                             *)

LEMMA OperatorSafe ==
    ASSUME AvailableWhileRunning, Inductive, StatusesMeant, Safe, Operator \/ Abort
    PROVE  Safe'
  <1>1. CASE \/ Begin \/ Save \/ Initialize \/ RequestUpgrade \/ EnterUpgrade
             \/ ReconcileService \/ ReconcileStatefulSet
    BY <1>1, BeginSafe, SaveSafe, InitializeSafe, RequestSafe, EnterSafe, ServiceSafe,
       StatefulSetSafe
  <1>2. CASE Abort \/ RejectUpgrade \/ NoStreamArgs
    BY <1>2, EndSafe DEF Abort, RejectUpgrade, NoStreamArgs, world, objects, cluster
  <1>3. CASE \E s \in DOMAIN StageJob : Stage(s)
    BY <1>3, StageSafe
  <1>4. CASE DeleteSucceededJob \/ DeleteFailedJob
    BY <1>4, DeleteSucceededSafe, DeleteFailedSafe
  <1>5. CASE \/ PreupgradeAccept \/ PreupgradeRefuse \/ ScaleDown \/ SkipSingleNode
             \/ SyncStartCluster \/ SyncService \/ PostStartCluster \/ PostService
    BY <1>5, PreupgradeSafe, ScaleDownSafe, SkipSafe, StartSafe, ServicesSafe
  <1>6. CASE \/ CreatePrimaryJob \/ PrimaryRecordCheckpoint \/ PrimarySetDBId
             \/ CreateMoveJob \/ MoveSucceeded \/ ClearAnnotations
    BY <1>6, CreationSafe, RecordCheckpointSafe, SetDBIdSafe, MoveSucceededSafe, ClearSafe
  <1>7. CASE \/ EnsureStreamer \/ CreateSecondaryJob \/ CheckSecondaryJobs
             \/ DeleteStreamer \/ DeleteSecondaryJob \/ SecondaryJobsDeleted
    BY <1>7, StreamerSafe, CreateSecondarySafe, CheckSecondariesSafe, DeleteSecondarySafe,
       SecondariesDoneSafe
  <1> QED
    BY <1>1, <1>2, <1>3, <1>4, <1>5, <1>6, <1>7 DEF Operator

LEMMA InitSafe == ASSUME Init PROVE Safe
  <1>1. /\ status = NoStatus /\ pass = NoPass
        /\ sts = [replicas |-> 0, port |-> None, version |-> None]
        /\ pod = [n \in Nodes |-> NoPod] /\ job = [j \in Jobs |-> NoJob]
        /\ sup = [n \in Nodes |-> NoJob] /\ pstream = NoNode
        /\ cm = [dbid |-> None, ckpt |-> None, initdb |-> None, pause |-> FALSE,
                 leader |-> NoNode]
        /\ vol = [n \in Nodes |-> [data |-> None, new |-> None, ckpt |-> None]]
    BY DEF Init
  <1>2. /\ pass.pc = "idle" /\ status.state = "" /\ status.target = None /\ status.offers = {}
    BY <1>1 DEF NoPass, NoStatus, Idle
  <1>3. StatusRead /\ Progress /\ Held = {status}
    BY <1>2 DEF StatusRead, Progress, Held, Points, FinalPoints, Stages, NextStage, LastStage
  <1>4. ASSUME NEW st \in {status} PROVE Fits(st)
    <2>1. Known(st)
      BY <1>1, <1>2 DEF Known, LastStage
    <2>2. Apart(st)
      BY <1>1, <1>2 DEF Apart, NoPod, Down
    <2>3. Stored(st)
      BY <1>1, <1>2 DEF Stored, NoDatabase, NoPod
    <2>4. UpJob(st) /\ MoveJob(st) /\ PreupgradeJob(st) /\ SecondaryJobs(st)
      BY <1>1, JobsAre DEF UpJob, MoveJob, PreupgradeJob, SecondaryJobs, NoJob
    <2>5. Recorded(st)
      BY <1>1, <1>2 DEF Recorded, Down
    <2> QED
      BY <2>1, <2>2, <2>3, <2>4, <2>5 DEF Fits
  <1> QED
    BY <1>3, <1>4 DEF Safe

LEMMA StepSafe ==
    ASSUME AvailableWhileRunning, Inductive, StatusesMeant, Safe, [Next]_vars
    PROVE  Safe'
  <1>1. CASE Operator \/ Abort
    BY <1>1, OperatorSafe
  <1>2. CASE User \/ Pods \/ PodFaults \/ Patroni \/ JobPods \/ JobFaults
    BY <1>2, EnvironmentSafe
  <1>3. CASE UNCHANGED vars
    <2>1. UNCHANGED <<specVersion, status, pass, world>>
      BY <1>3 DEF vars, operator, objects, cluster, world
    <2>2. StatusRead' /\ Held' = Held
      BY <2>1, ReadKept DEF Safe
    <2>3. Progress'
      BY <2>1 DEF Safe, Progress, Succeeded, world
    <2> QED
      BY <2>1, <2>2, <2>3, HeldKept DEF Safe
  <1> QED
    BY <1>1, <1>2, <1>3 DEF Next

Invariant == Inductive /\ StatusesMeant /\ Safe

LEMMA AlwaysSafe == ASSUME AvailableWhileRunning PROVE Spec => []Invariant
  <1>1. Init => Invariant
    BY InitInductive, InitMeant, InitSafe DEF Invariant
  <1>2. Invariant /\ [Next]_vars => Invariant'
    BY StepInductive, StepMeant, StepSafe DEF Invariant
  <1> QED
    BY <1>1, <1>2, PTL DEF Spec

-----------------------------------------------------------------------------
(***************************************************************************)
(* The theorems.                                                           *)

(* What holds of the persisted status holds; where the database is.        *)
LEMMA InvariantFits ==
    ASSUME Invariant
    PROVE  /\ Fits(status)
           /\ cm.dbid # None => /\ cm.leader \in Nodes /\ SyncLeader = cm.leader
                                /\ SyncLeader # NoNode
                                /\ LeaderDatabase(status) /\ OtherDatabases(status)
           /\ (\E n \in Nodes : sup[n].phase # "none") \/ (\E j \in Jobs : job[j].phase # "none")
                => cm.dbid # None
  <1>1. status \in Held /\ Fits(status)
    BY StatusFits DEF Invariant
  <1>2. cm.dbid # None => /\ cm.leader \in Nodes
                          /\ LeaderDatabase(status) /\ OtherDatabases(status)
    BY <1>1 DEF Fits, Stored
  <1>3. (\E j \in Jobs : job[j].phase # "none") => cm.dbid # None
    BY <1>1, WhereScriptsRun DEF Invariant
  <1>4. (\E n \in Nodes : sup[n].phase # "none") => cm.dbid # None
    <2>1. (\E n \in Nodes : sup[n].phase # "none") => status.state \in Stages
      BY <1>1 DEF Fits, SecondaryJobs, Stages, NextStage
    <2> QED
      BY <1>1, <2>1, WhereScriptsRun DEF Invariant
  <1> QED
    BY <1>1, <1>2, <1>3, <1>4, LeaderKnown

(* For any number of nodes, no database server and no two scripts are ever *)
(* at work on one volume, although a pass may die between any two of its   *)
(* calls, jobs fail and are repeated, and pods come and go (scaledown.go,  *)
(* primary.go, secondary.go, primary-move.go).                             *)
THEOREM VolumesKeptApart == ASSUME AvailableWhileRunning PROVE Spec => []VolumeExclusive
  <1>1. Invariant => VolumeExclusive
    <2> SUFFICES ASSUME Invariant, NEW n \in Nodes
                 PROVE  LET scripts == {j \in {"up", "move"} : Running(job[j]) /\ job[j].node = n}
                                       \cup {s \in {"sup"} : Running(sup[n])}
                        IN  /\ pod[n].phase # "none" => scripts = {} /\ pstream # n
                            /\ \A i, j \in scripts : i = j
      BY DEF VolumeExclusive
    <2>1. Fits(status)
      BY InvariantFits
    <2>2. /\ Running(job["up"]) => status.state = "upgrade-primary"
          /\ Running(job["move"]) => status.state = "upgrade-primary-move"
          /\ Running(sup[n]) => status.state = "upgrade-secondaries"
      BY <2>1 DEF Fits, UpJob, MoveJob, SecondaryJobs, Running
    <2>3. pod[n].phase # "none" => status.state \notin Down
      BY <2>1 DEF Fits, Apart
    <2>4. pstream = n => status.state = "upgrade-secondaries"
      <3>1. NoNode # n
        BY NAssumption DEF NoNode, Nodes
      <3> QED
        BY <3>1 DEF Invariant, Inductive, JobsInTheirStage
    <2> QED
      BY <2>2, <2>3, <2>4 DEF Down
  <1> QED
    BY <1>1, AlwaysSafe, PTL

(* For any number of nodes, a pod that runs finds the database of its own  *)
(* version on its volume, or none: the StatefulSet changes its image only  *)
(* with the data (primary-move.go, postupgrade.go; statefulset.go).        *)
THEOREM BinariesMatchDatabases == ASSUME AvailableWhileRunning PROVE Spec => []MatchingBinaries
  <1>1. Invariant => MatchingBinaries
    <2> SUFFICES ASSUME Invariant, NEW n \in Nodes, pod[n].phase # "none"
                 PROVE  vol[n].data \in {None, pod[n].version}
      BY DEF MatchingBinaries
    <2>1. pod[n].version = status.version /\ status.state \notin Down
      BY InvariantFits DEF Fits, Apart
    <2>2. CASE cm.dbid = None
      BY <2>2, InvariantFits DEF Fits, Stored, NoDatabase
    <2>3. CASE cm.dbid # None
      BY <2>1, <2>3, InvariantFits DEF LeaderDatabase, OtherDatabases, Down
    <2> QED
      BY <2>2, <2>3
  <1> QED
    BY <1>1, AlwaysSafe, PTL

(* For any number of nodes, the volume of the leader the operator would    *)
(* use holds a database from the cluster's initialisation on (primary.go   *)
(* and primary-move.go work there, secondary.go empties others only).      *)
THEOREM LeaderKeepsDatabase == ASSUME AvailableWhileRunning PROVE Spec => []LeaderHasDatabase
  <1>1. Invariant => LeaderHasDatabase
    <2> SUFFICES ASSUME Invariant, cm.dbid # None
                 PROVE  SyncLeader # NoNode /\ vol[SyncLeader].data # None
      BY DEF LeaderHasDatabase
    <2>1. status.state # "" /\ status.version # None
      BY InvariantFits DEF Fits, Stored, Known
    <2>2. status.state = "upgrade-primary-move" => status.target # None
      BY DEF Invariant, Inductive, StagesHaveTargets, Stages, NextStage
    <2> QED
      BY <2>1, <2>2, InvariantFits DEF LeaderDatabase, Down
  <1> QED
    BY <1>1, AlwaysSafe, PTL

(* For any number of nodes, no server listens on the clients' port from    *)
(* the sync stage until the upgraded cluster starts (preupgrade-sync.go,   *)
(* scaledown.go, postupgrade.go).                                          *)
THEOREM ClientsStayOut == ASSUME AvailableWhileRunning PROVE Spec => []ClientsShutOut
  <1>1. Invariant => ClientsShutOut
    BY InvariantFits DEF ClientsShutOut, Fits, Apart, Down
  <1> QED
    BY <1>1, AlwaysSafe, PTL

(* For any number of nodes, every job of a secondary is gone before its    *)
(* stage is left, the ones that count a failure beside their success       *)
(* included (secondary.go).                                                *)
THEOREM SecondaryJobsStay == ASSUME AvailableWhileRunning PROVE Spec => []SecondaryJobsInTheirStage
  <1>1. Invariant => SecondaryJobsInTheirStage
    BY InvariantFits DEF SecondaryJobsInTheirStage, Fits, SecondaryJobs
  <1> QED
    BY <1>1, AlwaysSafe, PTL

(* For any number of nodes, the secondaries are upgraded in place only     *)
(* against the checkpoint and the versions of the leader's own upgrade,    *)
(* never with what an earlier upgrade recorded (configmap.go,              *)
(* ClearUpgradeAnnotations; primary.go, secondary.go).                     *)
THEOREM CheckpointIsFresh == ASSUME AvailableWhileRunning PROVE Spec => []CheckpointFresh
  <1>1. Invariant => CheckpointFresh
    <2> SUFFICES ASSUME Invariant, NEW n \in Nodes, sup[n].phase # "none"
                 PROVE  /\ sup[n].ckpt = sup[n].from
                        /\ sup[n].from = vol[SyncLeader].data
                        /\ sup[n].to = vol[SyncLeader].new
      BY DEF CheckpointFresh
    <2>1. /\ status.state = "upgrade-secondaries" /\ sup[n].from = status.version
          /\ sup[n].to = status.target /\ sup[n].ckpt = status.version
      BY InvariantFits DEF Fits, SecondaryJobs
    <2> QED
      BY <2>1, InvariantFits DEF LeaderDatabase
  <1> QED
    BY <1>1, AlwaysSafe, PTL

(* For any number of nodes, pg_upgrade's new cluster is initialised with   *)
(* the settings read from the very database it upgrades (preupgrade.go,    *)
(* primary.go; configmap.go, SetPrimaryInitdbArgs).                        *)
THEOREM InitdbArgsAreKnown == ASSUME AvailableWhileRunning PROVE Spec => []InitdbArgsKnown
  <1>1. Invariant => InitdbArgsKnown
    BY InvariantFits DEF InitdbArgsKnown, Fits, UpJob
  <1> QED
    BY <1>1, AlwaysSafe, PTL

(* For any number of nodes, the identity on record is that of the leader's *)
(* database whenever a pod runs, although it changes in a call of its own  *)
(* (configmap.go, SetDBId; primary.go).                                    *)
THEOREM IdentityIsKnown == ASSUME AvailableWhileRunning PROVE Spec => []IdentityKnown
  <1>1. Invariant => IdentityKnown
    <2> SUFFICES ASSUME Invariant, cm.dbid # None, NEW n \in Nodes, pod[n].phase # "none"
                 PROVE  cm.dbid = vol[SyncLeader].data
      BY DEF IdentityKnown
    <2>1. status.state \notin Down
      BY InvariantFits DEF Fits, Apart
    <2> QED
      BY <2>1, InvariantFits DEF LeaderDatabase
  <1> QED
    BY <1>1, AlwaysSafe, PTL

(* "Database is stopped in this phase.": it is, for any number of nodes,   *)
(* and stays so until the upgrade's last stage, if the operator's count of *)
(* available pods misses none (scaledown.go; upgrade/README.md).           *)
THEOREM DatabaseStaysStopped == ASSUME AvailableWhileRunning PROVE Spec => []DatabaseStopped
  <1>1. Invariant => DatabaseStopped
    BY InvariantFits DEF DatabaseStopped, Fits, Apart, Down
  <1> QED
    BY <1>1, AlwaysSafe, PTL

(* The status is written by two steps only.                                *)
LEMMA StatusChanges ==
    ASSUME Inductive, [Next]_vars, status' # status
    PROVE  Save \/ Initialize
  <1>1. CASE User \/ Pods \/ PodFaults \/ Patroni \/ JobPods \/ JobFaults
    <2>1. EnvironmentStep
      BY <1>1, UserStep, PodsStep, PatroniStep, JobsStep DEF User, Inductive
    <2> QED
      BY <2>1 DEF EnvironmentStep
  <1>2. CASE Operator \/ Abort
    BY <1>2
       DEF Operator, Abort, Begin, RequestUpgrade, RejectUpgrade, EnterUpgrade,
           ReconcileService, ReconcileStatefulSet, SetService, SetSts, Stage, EnsureUpgradeJob,
           WaitForJob, JobFailed, JobSucceeded, CreateJob, SetJob, DeleteSucceededJob,
           DeleteFailedJob, PreupgradeAccept, PreupgradeRefuse, SetConfig, ScaleDown,
           SkipSingleNode, SyncStartCluster, SyncService, CreatePrimaryJob,
           PrimaryRecordCheckpoint, PrimarySetDBId, EnsureStreamer, NoStreamArgs,
           CreateSecondaryJob, CheckSecondaryJobs, DeleteStreamer, DeleteSecondaryJob,
           SecondaryJobsDeleted, CreateMoveJob, MoveSucceeded, PostStartCluster, PostService,
           ClearAnnotations
  <1>3. CASE UNCHANGED vars
    BY <1>3 DEF vars
  <1> QED
    BY <1>1, <1>2, <1>3 DEF Next

(* For any number of nodes, the cluster's version changes only to that of  *)
(* the database on the leader's volume, while nothing runs, although the   *)
(* move and the update of the status are calls of their own                *)
(* (primary-move.go; upgrade.go, Handle).                                  *)
THEOREM VersionFollowsTheData == ASSUME AvailableWhileRunning PROVE Spec => VersionFollowsData
  <1> DEFINE step == status.version # None /\ status'.version # status.version =>
                        /\ vol[SyncLeader].data = status'.version
                        /\ \A n \in Nodes : pod[n].phase = "none"
  <1>1. Invariant /\ [Next]_vars => [step]_vars
    <2> SUFFICES ASSUME Invariant, [Next]_vars, status.version # None,
                        status'.version # status.version
                 PROVE  /\ vol[SyncLeader].data = status'.version
                        /\ \A n \in Nodes : pod[n].phase = "none"
      OBVIOUS
    <2>1. Inductive /\ Safe /\ status \in StatusType /\ Fits(status)
      BY InvariantFits DEF Invariant, Inductive, TypeOK
    <2>2. CASE Initialize
      <3>1. status.state = ""
        BY <2>1, <2>2 DEF Initialize, Safe, StatusRead
      <3>2. status = NoStatus
        BY <2>1, <3>1 DEF Fits, Known
      <3> QED
        BY <3>2 DEF NoStatus
    <2>3. CASE Save
      <3>1. status' = pass.st /\ ~pass.stale /\ pass.pc \in {"save", "saveRequeue"}
        BY <2>3 DEF Save, Unchallenged
      <3>2. Follows /\ pass.st \in Held
        BY <2>1, <3>1 DEF Safe, StatusRead, Held
      <3>3. status.state = "upgrade-primary-move" /\ pass.st = Advance(Moved(status))
        BY <2>1, <3>1, <3>2 DEF Follows, Advance, StatusType
      <3>4. pass.st.state = LastStage /\ status.state \in Down
        BY <2>1, <3>3 DEF Advance, Moved, NextStage, LastStage, StatusType, Down
      <3>5. \A n \in Nodes : pod[n].phase = "none"
        BY <2>1, <3>4 DEF Fits, Apart
      <3>6. cm.dbid # None
        BY <2>1, <3>3, StageFits DEF Stages, NextStage
      <3>7. LeaderDatabase(pass.st)
        BY <2>1, <3>2, <3>6 DEF Safe, Fits, Stored
      <3>8. vol[SyncLeader].data = pass.st.version
        BY <3>4, <3>6, <3>7, InvariantFits DEF LeaderDatabase, Down, LastStage
      <3> QED
        BY <3>1, <3>5, <3>8
    <2> QED
      BY <2>1, <2>2, <2>3, StatusChanges
  <1> QED
    BY <1>1, AlwaysSafe, PTL DEF Spec, VersionFollowsData
=============================================================================
