------------------------ MODULE UpgradeOperatorProofs ------------------------
(***************************************************************************)
(* Theorems about UpgradeOperator, for every number of nodes and whether   *)
(* or not a pod counts as available while it exists.                       *)
(***************************************************************************)
EXTENDS UpgradeOperator, TLAPS

-----------------------------------------------------------------------------
(* The registry and the tables.                                            *)

LEMMA VersionsAre == Versions = {13, 15, 17}
  BY DEF Versions, Images

LEMMA VersionFacts == None \in Version /\ Versions \subseteq Version /\ None \notin Versions
  BY VersionsAre DEF Version, None

(* Whatever serves a version, the upgrades it offers are to known versions.*)
LEMMA UpgradeVersionsType == ASSUME NEW v PROVE UpgradeVersions(v) \subseteq Versions
  <1> DEFINE ships == {i \in DOMAIN Images : v \in Images[i]}
  <1>1. DOMAIN Images = {1, 2}
    BY DEF Images
  <1>2. CASE ships = {}
    BY <1>2 DEF UpgradeVersions, GetImage
  <1>3. CASE ships # {}
    <2>1. \E i \in ships : \A j \in ships : j <= i
      BY <1>1, <1>3
    <2>2. GetImage(v) \in ships
      BY <1>3, <2>1 DEF GetImage
    <2> QED
      BY <2>2 DEF UpgradeVersions, Versions
  <1> QED
    BY <1>2, <1>3

LEMMA LadderTypes ==
    /\ \A s \in DOMAIN NextStage : NextStage[s] \in Stages
    /\ \A s \in Stages : s # LastStage => s \in DOMAIN NextStage
    /\ DOMAIN StageJob \subseteq Stages
    /\ \A s \in DOMAIN StageJob : StageJob[s] \in Jobs
  BY DEF NextStage, Stages, LastStage, StageJob, Jobs

LEMMA NoRecordTypes ==
    /\ NoStatus \in StatusType
    /\ NoJob \in JobType
    /\ NoPod \in PodType
    /\ NoPass \in PassType
  BY VersionFacts
     DEF NoStatus, StatusType, NoJob, JobType, NoPod, PodType, JobPhases, PodPhases,
         NoNode, NoPass, PassType, Port

-----------------------------------------------------------------------------
(***************************************************************************)
(* The inductive invariant.                                                *)

NothingLeft == (\A j \in Jobs : job[j].phase = "none") /\ pstream = NoNode

(* The points of a pass at which the status it will save may have moved on *)
(* from the persisted one.                                                 *)
FinalPoints == {"clear", "save", "saveRequeue"}

(* Before these a pass has the persisted state, and each belongs to its    *)
(* stage: the ones of the ordinary chain to none.                          *)
PassInItsStage ==
    /\ pass.pc \in Points \ FinalPoints => pass.st.state = status.state
    /\ pass.pc \in {"initialize", "request", "enter", "service", "sts"}
         => status.state \notin Stages
    /\ pass.pc = "enter" => pass.st.target # None
    /\ pass.pc \in Stages => status.state = pass.pc
    /\ pass.pc \in {"syncService", "syncJob"}
         => status.state = "upgrade-preupgrade-sync" /\ N # 1
    /\ pass.pc = "setDBId" => status.state = "upgrade-primary"
    /\ pass.pc \in {"clients", "dropStream", "dropClients", "dropFailed"}
         => status.state = "upgrade-secondaries"
    /\ pass.pc = "dropClients" => pstream = NoNode
    /\ pass.pc \in {"postServiceReady", "postServiceWait", "postJob"}
         => status.state = LastStage
    /\ pass.pc \in {"deleteDone", "deleteFailed"} => status.state \in DOMAIN StageJob

(* A pass moves on only when its stage has left nothing behind.            *)
NothingLeftBehind ==
    pass.pc \in FinalPoints => pass.st.state = status.state \/ NothingLeft

(* A stage always has a target, so Begin never takes it for idleness.      *)
StagesHaveTargets ==
    /\ status.state \in Stages => status.target # None
    /\ pass.st.state \in Stages => pass.st.target # None

(* What the shortcuts of a single member skip never was there.             *)
NothingToSkip == N = 1 => job["preupgrade-sync"].phase = "none" /\ pstream = NoNode

(* A pass that leaves the stages in which Patroni may be paused resumed it.*)
PausingStages == {"upgrade-preupgrade-sync", "upgrade-scaledown", "upgrade-primary"}
ResumedBeforeMovingOn ==
    /\ pass.pc = "deleteDone" /\ status.state = "upgrade-primary" => ~cm.pause
    /\ pass.pc \in FinalPoints /\ pass.st.state \notin PausingStages => ~cm.pause

(* The two jobs that work on one volume know which.                        *)
JobHasNode == \A j \in {"up", "move"} : job[j].phase # "none" => job[j].node \in Nodes

Inductive ==
    /\ TypeOK
    /\ JobHasNode
    /\ PassInItsStage
    /\ NothingLeftBehind
    /\ StagesHaveTargets
    /\ NothingToSkip
    /\ ResumedBeforeMovingOn
    /\ JobsInTheirStage
    /\ PausedOnTheWayDown

-----------------------------------------------------------------------------
(* Type correctness.                                                       *)

(* How a pass changes.                                                     *)
LEMMA GotoType == ASSUME pass \in PassType, NEW pc \in Points, Goto(pc) PROVE pass' \in PassType
  BY DEF Goto, PassType

LEMMA EndType == ASSUME EndWithError PROVE pass' \in PassType /\ queued' \in BOOLEAN
  BY NoRecordTypes DEF EndWithError

LEMMA StatusEdits ==
    ASSUME NEW st \in StatusType
    PROVE  /\ \A s \in {"", "scaling", "ready"} \cup Stages : [st EXCEPT !.state = s] \in StatusType
           /\ \A v \in Version : [st EXCEPT !.version = v] \in StatusType
           /\ \A v \in Version : [st EXCEPT !.target = v] \in StatusType
  BY DEF StatusType

LEMMA AdvanceType ==
    ASSUME NEW st \in StatusType, st.state \in Stages
    PROVE  Advance(st) \in StatusType
  <1>1. CASE st.state = LastStage
    BY <1>1, VersionFacts DEF Advance, StatusType
  <1>2. CASE st.state # LastStage
    BY <1>2, LadderTypes DEF Advance, StatusType
  <1> QED
    BY <1>1, <1>2

LEMMA DoneType ==
    ASSUME pass \in PassType, pass.st.state \in Stages, Done
    PROVE  pass' \in PassType
  <1>1. pass.st \in StatusType
    BY DEF PassType
  <1>2. Advance(pass.st) \in StatusType
    BY <1>1, AdvanceType
  <1> QED
    BY <1>2 DEF Done, PassType, Points

(* What the pods do keeps the types.                                       *)
LEMMA PodTypes ==
    ASSUME TypeOK, NEW n \in Nodes, NEW record \in PodType, PodChange(n, record),
           vol' \in [Nodes -> VolType]
    PROVE  TypeOK'
  BY DEF TypeOK, PodChange, objects

LEMMA VolumeEdits ==
    ASSUME vol \in [Nodes -> VolType], NEW n \in Nodes
    PROVE  /\ \A c \in Version : [vol EXCEPT ![n].ckpt = c] \in [Nodes -> VolType]
           /\ \A c \in Version : [vol EXCEPT ![n].new = c] \in [Nodes -> VolType]
           /\ \A v \in VolType : [vol EXCEPT ![n] = v] \in [Nodes -> VolType]
  BY DEF VolType

LEMMA PodActionTypes ==
    ASSUME TypeOK, NEW n \in Nodes,
           \/ PodStart(n) \/ PodReady(n) \/ PodRecovers(n) \/ PodAvailable(n)
           \/ PodStop(n) \/ PodUnready(n) \/ PodLost(n)
    PROVE  TypeOK'
  <1>1. pod[n] \in PodType /\ vol[n] \in VolType /\ sts \in StsType
    BY DEF TypeOK
  <1>2. \A phase \in PodPhases : [pod[n] EXCEPT !.phase = phase] \in PodType
    BY <1>1 DEF PodType
  <1>3. Dirty(n) => vol' \in [Nodes -> VolType]
    BY VolumeEdits, VersionFacts DEF TypeOK, Dirty
  <1>4. CASE PodStart(n)
    <2>1. [phase |-> "up", version |-> sts.version, port |-> sts.port] \in PodType
      BY <1>1 DEF StsType, PodType, PodPhases
    <2> QED
      BY <1>4, <2>1, PodTypes DEF PodStart, TypeOK
  <1>5. CASE PodReady(n)
    BY <1>5, <1>2, <1>3, PodTypes DEF PodReady, PodPhases
  <1>6. CASE PodRecovers(n)
    BY <1>6, <1>2, PodTypes DEF PodRecovers, PodPhases, TypeOK
  <1>7. CASE PodAvailable(n)
    BY <1>7, <1>2, PodTypes DEF PodAvailable, PodPhases, TypeOK
  <1>8. CASE PodStop(n)
    <2>1. LeavesCheckpoint(n) \subseteq Version
      BY <1>1, VersionFacts DEF LeavesCheckpoint, VolType
    <2>2. vol' \in [Nodes -> VolType]
      BY <1>8, <2>1, VolumeEdits DEF PodStop, TypeOK
    <2> QED
      BY <1>8, <2>2, NoRecordTypes, PodTypes DEF PodStop
  <1>9. CASE PodUnready(n)
    BY <1>9, <1>2, PodTypes DEF PodUnready, PodPhases, TypeOK
  <1>10. CASE PodLost(n)
    BY <1>10, <1>3, NoRecordTypes, PodTypes DEF PodLost
  <1> QED
    BY <1>4, <1>5, <1>6, <1>7, <1>8, <1>9, <1>10

(* What Patroni does keeps the types.                                      *)
LEMMA PatroniTypes ==
    ASSUME TypeOK, NEW n \in Nodes, NEW annotations \in CmType, NEW volume \in VolType,
           PatroniChange(annotations, n, volume)
    PROVE  TypeOK'
  BY VolumeEdits DEF TypeOK, PatroniChange, operator

LEMMA PatroniActionTypes ==
    ASSUME TypeOK, NEW n \in Nodes, Bootstrap(n) \/ AcquireLeader(n) \/ Clone(n)
    PROVE  TypeOK'
  <1>1. pod[n] \in PodType /\ vol[n] \in VolType /\ cm \in CmType
    BY DEF TypeOK
  <1>2. [cm EXCEPT !.leader = n] \in CmType
    BY <1>1 DEF CmType
  <1>3. CASE Bootstrap(n)
    <2>1. [cm EXCEPT !.dbid = pod[n].version, !.leader = n] \in CmType
      BY <1>1 DEF CmType, PodType
    <2>2. [data |-> pod[n].version, new |-> None, ckpt |-> None] \in VolType
      BY <1>1, VersionFacts DEF VolType, PodType
    <2> QED
      BY <1>3, <2>1, <2>2, PatroniTypes DEF Bootstrap
  <1>4. CASE AcquireLeader(n)
    <2>1. [vol[n] EXCEPT !.ckpt = None] \in VolType
      BY <1>1, VersionFacts DEF VolType
    <2> QED
      BY <1>4, <1>2, <2>1, PatroniTypes DEF AcquireLeader
  <1>5. CASE Clone(n)
    <2>1. vol[cm.leader] \in VolType
      BY <1>5, <1>1, NAssumption DEF Clone, CmType, TypeOK
    <2>2. [vol[n] EXCEPT !.data = vol[cm.leader].data, !.ckpt = None] \in VolType
      BY <1>1, <2>1, VersionFacts DEF VolType
    <2> QED
      BY <1>5, <1>1, <2>2, PatroniTypes DEF Clone
  <1> QED
    BY <1>3, <1>4, <1>5

(* What the pods of the jobs do keeps the types.                           *)
LEMMA FinishedType ==
    ASSUME NEW record \in JobType
    PROVE  Finished(record) \in JobType
  BY DEF Finished, JobType, JobPhases

LEMMA JobTypes ==
    ASSUME TypeOK, NEW j \in Jobs, NEW record \in JobType, JobChange(j, record),
           cm' \in CmType, vol' \in [Nodes -> VolType]
    PROVE  TypeOK'
  BY DEF TypeOK, JobChange

LEMMA SecondaryJobTypes ==
    ASSUME TypeOK, NEW n \in Nodes, NEW record \in JobType, SupChange(n, record),
           vol' \in [Nodes -> VolType]
    PROVE  TypeOK'
  BY DEF TypeOK, SupChange

LEMMA JobsAre ==
    {"preupgrade", "preupgrade-sync", "up", "move", "postupgrade"} \subseteq Jobs
  BY DEF Jobs

LEMMA LeaderType ==
    ASSUME TypeOK
    PROVE  SyncLeader \in Nodes \cup {NoNode}
  BY NAssumption DEF TypeOK, SyncLeader, CmType, Nodes

LEMMA JobActionTypes ==
    ASSUME TypeOK, JobHasNode,
           \/ PreupgradeRun \/ SyncRun \/ PostupgradeRun \/ UpRun \/ MoveRun
           \/ UpKilled \/ \E j \in Jobs : JobFails(j)
    PROVE  TypeOK'
  <1>1. \A j \in Jobs : job[j] \in JobType /\ Finished(job[j]) \in JobType
    BY FinishedType DEF TypeOK
  <1>2. cm \in CmType /\ vol \in [Nodes -> VolType]
    BY DEF TypeOK
  <1>3. CASE PreupgradeRun
    <2>1. PICK args \in {None, vol[SyncLeader].data} :
            JobChange("preupgrade", [Finished(job["preupgrade"]) EXCEPT !.args = args])
      BY <1>3 DEF PreupgradeRun
    <2>2. args \in Version
      BY <1>2, <1>3, LeaderType, VersionFacts DEF PreupgradeRun, Reachable, VolType
    <2>3. [Finished(job["preupgrade"]) EXCEPT !.args = args] \in JobType
      BY <1>1, <2>2, JobsAre DEF JobType
    <2> QED
      BY <1>2, <1>3, <2>1, <2>3, JobTypes, JobsAre DEF PreupgradeRun
  <1>4. CASE SyncRun
    <2>1. cm' \in CmType
      BY <1>2, <1>4 DEF SyncRun, CmType
    <2>2. [job["preupgrade-sync"] EXCEPT !.phase = "failed"] \in JobType
      BY <1>1, JobsAre DEF JobType, JobPhases
    <2> QED
      BY <1>1, <1>2, <1>4, <2>1, <2>2, JobTypes, JobsAre DEF SyncRun
  <1>5. CASE PostupgradeRun
    BY <1>1, <1>2, <1>5, JobTypes, JobsAre DEF PostupgradeRun
  <1>6. ASSUME Running(job["up"]) PROVE job["up"].node \in Nodes
    BY <1>6 DEF JobHasNode, Running
  <1>7. CASE UpRun
    <2> DEFINE j == job["up"]
    <2>1. j \in JobType /\ Finished(j) \in JobType /\ vol[j.node] \in VolType
      BY <1>1, <1>2, <1>6, <1>7, JobsAre DEF UpRun
    <2>2. vol' \in [Nodes -> VolType]
      <3>1. j.to \in Version /\ j.node \in Nodes
        BY <2>1, <1>6, <1>7 DEF UpRun, JobType
      <3> QED
        BY <1>2, <1>7, <3>1, VolumeEdits DEF UpRun
    <2>3. [Finished(j) EXCEPT !.ckpt = j.from, !.newid = j.to] \in JobType
      BY <2>1 DEF JobType
    <2>4. [Finished(j) EXCEPT !.newid = vol[j.node].new] \in JobType
      BY <2>1 DEF JobType, VolType
    <2> QED
      BY <1>2, <1>7, <2>2, <2>3, <2>4, JobTypes, JobsAre DEF UpRun
  <1>8. CASE MoveRun
    <2>1. Running(job["move"]) => job["move"].node \in Nodes
      BY DEF JobHasNode, Running
    <2>2. MovedVolume(vol[job["move"].node]) \in VolType
      BY <1>2, <1>8, <2>1, VersionFacts DEF MoveRun, MovedVolume, VolType
    <2>3. vol' \in [Nodes -> VolType]
      BY <1>2, <1>8, <2>1, <2>2, VolumeEdits DEF MoveRun
    <2> QED
      BY <1>1, <1>2, <1>8, <2>3, JobTypes, JobsAre DEF MoveRun
  <1>9. CASE UpKilled
    <2> DEFINE j == job["up"]
    <2>1. j \in JobType /\ j.to \in Version /\ j.node \in Nodes
      BY <1>1, <1>6, <1>9, JobsAre DEF UpKilled, JobType
    <2>2. vol' \in [Nodes -> VolType]
      BY <1>2, <1>9, <2>1, VolumeEdits DEF UpKilled
    <2>3. \A phase \in {j.phase, "failed"} : [j EXCEPT !.phase = phase] \in JobType
      BY <2>1 DEF JobType, JobPhases
    <2> QED
      BY <1>2, <1>9, <2>2, <2>3, JobTypes, JobsAre DEF UpKilled
  <1>10. CASE \E j \in Jobs : JobFails(j)
    <2>1. PICK j \in Jobs : JobFails(j)
      BY <1>10
    <2>2. [job[j] EXCEPT !.phase = "failed"] \in JobType
      BY <1>1 DEF JobType, JobPhases
    <2> QED
      BY <1>2, <2>1, <2>2, JobTypes DEF JobFails
  <1> QED
    BY <1>3, <1>4, <1>5, <1>7, <1>8, <1>9, <1>10

LEMMA SecondaryJobActionTypes ==
    ASSUME TypeOK, NEW n \in Nodes, SupRun(n) \/ SupFails(n)
    PROVE  TypeOK'
  <1>1. sup[n] \in JobType /\ Finished(sup[n]) \in JobType
    BY FinishedType DEF TypeOK
  <1>2. vol \in [Nodes -> VolType]
    BY DEF TypeOK
  <1>3. CASE SupRun(n)
    <2>1. [data |-> None, new |-> None, ckpt |-> None] \in VolType
      BY VersionFacts DEF VolType
    <2>2. pstream # NoNode =>
            [data |-> vol[pstream].new, new |-> None, ckpt |-> None] \in VolType
      BY <1>2, VersionFacts DEF VolType, TypeOK
    <2>3. vol' \in [Nodes -> VolType]
      BY <1>2, <1>3, <2>1, <2>2, VolumeEdits DEF SupRun
    <2> QED
      BY <1>1, <1>3, <2>3, SecondaryJobTypes DEF SupRun
  <1>4. CASE SupFails(n)
    <2>1. [sup[n] EXCEPT !.phase = "failed"] \in JobType
      BY <1>1 DEF JobType, JobPhases
    <2> QED
      BY <1>2, <1>4, <2>1, SecondaryJobTypes DEF SupFails
  <1> QED
    BY <1>3, <1>4

-----------------------------------------------------------------------------
(* Type correctness of the operator's steps.                               *)

(* Steps that change the pass and the queue only.                          *)
LEMMA PassTypes ==
    ASSUME TypeOK, pass' \in PassType, queued' \in BOOLEAN,
           UNCHANGED <<specVersion, status, objects, cluster>>
    PROVE  TypeOK'
  BY DEF TypeOK, objects, cluster

(* How a pass begins and ends.                                             *)
LEMMA EnvelopeTypes ==
    ASSUME TypeOK, Begin \/ Save \/ Abort \/ RejectUpgrade \/ RequestUpgrade \/ EnterUpgrade
    PROVE  TypeOK'
  <1>1. pass \in PassType /\ pass.st \in StatusType /\ status \in StatusType
        /\ queued \in BOOLEAN
    BY DEF TypeOK, PassType
  <1>2. CASE Begin
    <2>1. EntryPoint \in Points
      BY DEF EntryPoint, Points
    <2> QED
      BY <1>1, <1>2, <2>1, NoRecordTypes, PassTypes DEF Begin, PassType
  <1>3. CASE Save
    <2>1. status' \in StatusType /\ pass' \in PassType /\ queued' \in BOOLEAN
      BY <1>1, <1>3, NoRecordTypes DEF Save, EndWithError
    <2> QED
      BY <1>3, <2>1 DEF Save, TypeOK, objects, cluster
  <1>4. CASE Abort
    BY <1>4, EndType, PassTypes DEF Abort
  <1>5. CASE RejectUpgrade
    BY <1>5, EndType, PassTypes DEF RejectUpgrade
  <1>6. CASE RequestUpgrade
    <2>1. [pass.st EXCEPT !.target = specVersion] \in StatusType
      BY <1>1, StatusEdits, VersionFacts DEF TypeOK
    <2>2. pass' \in PassType
      BY <1>1, <1>6, <2>1 DEF RequestUpgrade, PassType, Points
    <2> QED
      BY <1>1, <1>6, <2>2, PassTypes DEF RequestUpgrade
  <1>7. CASE EnterUpgrade
    <2>1. [pass.st EXCEPT !.state = "upgrade-preupgrade"] \in StatusType
      BY <1>1, StatusEdits DEF Stages, NextStage
    <2>2. pass' \in PassType
      BY <1>1, <1>7, <2>1 DEF EnterUpgrade, PassType, Points
    <2> QED
      BY <1>1, <1>7, <2>2, PassTypes DEF EnterUpgrade
  <1> QED
    BY <1>2, <1>3, <1>4, <1>5, <1>6, <1>7

(* Steps that write one object and leave the rest of the cluster.          *)
LEMMA SetServiceTypes ==
    ASSUME TypeOK, pass' \in PassType, NEW port \in Port, SetService(port)
    PROVE  TypeOK'
  BY DEF TypeOK, SetService, cluster

LEMMA SetStsTypes ==
    ASSUME TypeOK, pass' \in PassType, NEW port \in Port, SetSts(port)
    PROVE  TypeOK'
  <1>1. pass.st.version \in Version
    BY DEF TypeOK, PassType, StatusType
  <1> QED
    BY <1>1 DEF TypeOK, SetSts, cluster, StsType

LEMMA SetJobTypes ==
    ASSUME TypeOK, pass' \in PassType, queued' \in BOOLEAN,
           NEW j \in Jobs, NEW record \in JobType, SetJob(j, record)
    PROVE  TypeOK'
  BY DEF TypeOK, SetJob, cluster

LEMMA SetConfigTypes ==
    ASSUME TypeOK, pass' \in PassType, NEW annotations \in CmType, SetConfig(annotations)
    PROVE  TypeOK'
  BY DEF TypeOK, SetConfig, cluster

LEMMA PortsAre == ClientPort \in Port /\ MaintenancePort \in Port
  BY DEF Port

LEMMA ChainTypes ==
    ASSUME TypeOK, \/ Initialize \/ ReconcileService \/ ReconcileStatefulSet
                   \/ SyncStartCluster \/ SyncService \/ PostStartCluster \/ PostService
    PROVE  TypeOK'
  <1>1. pass \in PassType /\ pass.st \in StatusType /\ queued \in BOOLEAN
    BY DEF TypeOK, PassType
  <1>2. CASE Initialize
    <2>1. status' \in StatusType
      BY <1>2, NoRecordTypes, VersionFacts DEF Initialize, TypeOK, StatusType
    <2>2. pass' \in PassType
      BY <1>1, <1>2, <2>1 DEF Initialize, PassType, Points
    <2> QED
      BY <1>2, <2>1, <2>2 DEF Initialize, TypeOK, objects, cluster
  <1>3. CASE ReconcileService
    BY <1>1, <1>3, GotoType, PortsAre, SetServiceTypes DEF ReconcileService, Points
  <1>4. CASE ReconcileStatefulSet
    <2>1. UpgradeVersions(pass.st.version) \subseteq Versions
      BY UpgradeVersionsType
    <2>2. pass' \in PassType
      BY <1>1, <1>4, <2>1 DEF ReconcileStatefulSet, PassType, StatusType, Points
    <2> QED
      BY <1>4, <2>2, PortsAre, SetStsTypes DEF ReconcileStatefulSet
  <1>5. CASE SyncStartCluster
    BY <1>1, <1>5, GotoType, PortsAre, SetStsTypes DEF SyncStartCluster, Points
  <1>6. CASE SyncService
    BY <1>1, <1>6, GotoType, PortsAre, SetServiceTypes DEF SyncService, Points
  <1>7. CASE PostStartCluster
    BY <1>1, <1>7, GotoType, PortsAre, SetStsTypes DEF PostStartCluster, Points
  <1>8. CASE PostService
    BY <1>1, <1>8, GotoType, PortsAre, SetServiceTypes DEF PostService, Points
  <1> QED
    BY <1>2, <1>3, <1>4, <1>5, <1>6, <1>7, <1>8

(* The calls of the stages' handlers.                                      *)
LEMMA StageTypes ==
    ASSUME TypeOK, NEW s \in DOMAIN StageJob, Stage(s)
    PROVE  TypeOK'
  <1>1. pass \in PassType /\ queued \in BOOLEAN /\ StageJob[s] \in Jobs
    BY LadderTypes DEF TypeOK
  <1>2. CASE EnsureUpgradeJob(s)
    <2>1. [NoJob EXCEPT !.phase = "active"] \in JobType
      BY NoRecordTypes DEF JobType, JobPhases
    <2>2. "save" \in Points
      BY DEF Points
    <2> QED
      BY <1>1, <1>2, <2>1, <2>2, GotoType, SetJobTypes DEF EnsureUpgradeJob, CreateJob
  <1>3. CASE WaitForJob(s)
    BY <1>1, <1>3, GotoType, PassTypes DEF WaitForJob, Points
  <1>4. CASE JobFailed(s)
    BY <1>1, <1>4, GotoType, PassTypes DEF JobFailed, Points
  <1>5. CASE JobSucceeded(s)
    <2>1. AfterSuccess(StageJob[s]) \in Points
      BY DEF AfterSuccess, Points
    <2> QED
      BY <1>1, <1>5, <2>1, GotoType, PassTypes DEF JobSucceeded
  <1> QED
    BY <1>2, <1>3, <1>4, <1>5 DEF Stage

LEMMA DeletionTypes ==
    ASSUME TypeOK, PassInItsStage, DeleteSucceededJob \/ DeleteFailedJob
    PROVE  TypeOK'
  <1>1. pass.pc \in {"deleteDone", "deleteFailed"}
    BY DEF DeleteSucceededJob, DeleteFailedJob
  <1>2. pass.st.state \in DOMAIN StageJob
    BY <1>1 DEF PassInItsStage, Points, FinalPoints
  <1>3. pass \in PassType /\ pass.st \in StatusType /\ queued \in BOOLEAN
    BY DEF TypeOK, PassType
  <1>4. CASE DeleteSucceededJob
    <2>1. Advance(pass.st) \in StatusType
      BY <1>2, <1>3, AdvanceType, LadderTypes
    <2>2. pass' \in PassType
      BY <1>3, <1>4, <2>1 DEF DeleteSucceededJob, PassType, Points
    <2> QED
      BY <1>2, <1>3, <1>4, <2>2, SetJobTypes, NoRecordTypes, LadderTypes
         DEF DeleteSucceededJob, Deleted
  <1>5. CASE DeleteFailedJob
    BY <1>2, <1>5, EndType, SetJobTypes, NoRecordTypes, LadderTypes DEF DeleteFailedJob
  <1> QED
    BY <1>4, <1>5

LEMMA ConfigTypes ==
    ASSUME TypeOK, \/ PreupgradeAccept \/ PrimaryRecordCheckpoint \/ PrimarySetDBId
                   \/ ClearAnnotations
    PROVE  TypeOK'
  <1>1. pass \in PassType /\ cm \in CmType /\ \A j \in Jobs : job[j] \in JobType
    BY DEF TypeOK
  <1>2. \A j \in Jobs : AfterSuccess(j) \in Points
    BY DEF AfterSuccess, Points
  <1>3. CASE PreupgradeAccept
    <2>1. SettingsRecorded \in CmType
      BY <1>1, JobsAre DEF SettingsRecorded, CmType, JobType
    <2> QED
      BY <1>1, <1>2, <1>3, <2>1, GotoType, SetConfigTypes, JobsAre DEF PreupgradeAccept
  <1>4. CASE PrimaryRecordCheckpoint
    <2>1. [cm EXCEPT !.ckpt = IF job["up"].ckpt = None THEN @ ELSE job["up"].ckpt] \in CmType
      BY <1>1, JobsAre DEF CmType, JobType
    <2>2. "setDBId" \in Points
      BY DEF Points
    <2> QED
      BY <1>1, <1>4, <2>1, <2>2, GotoType, SetConfigTypes DEF PrimaryRecordCheckpoint
  <1>5. CASE PrimarySetDBId
    <2>1. Identified \in CmType
      BY <1>1, JobsAre DEF Identified, CmType, JobType
    <2> QED
      BY <1>1, <1>2, <1>5, <2>1, GotoType, SetConfigTypes, JobsAre DEF PrimarySetDBId
  <1>6. CASE ClearAnnotations
    <2>1. Cleared \in CmType
      BY <1>1, VersionFacts DEF Cleared, CmType
    <2>2. "saveRequeue" \in Points
      BY DEF Points
    <2> QED
      BY <1>1, <1>6, <2>1, <2>2, GotoType, SetConfigTypes DEF ClearAnnotations
  <1> QED
    BY <1>3, <1>4, <1>5, <1>6

LEMMA HandlerTypes ==
    ASSUME TypeOK, PassInItsStage,
           \/ PreupgradeRefuse \/ ScaleDown \/ SkipSingleNode \/ CreatePrimaryJob
           \/ CreateMoveJob \/ MoveSucceeded
    PROVE  TypeOK'
  <1>1. pass \in PassType /\ pass.st \in StatusType /\ queued \in BOOLEAN /\ sts \in StsType
        /\ cm \in CmType /\ \A j \in Jobs : job[j] \in JobType
    BY DEF TypeOK, PassType
  <1>2. pass.pc \in Stages => pass.st.state \in Stages
    BY DEF PassInItsStage, Points, FinalPoints, Stages, NextStage, LastStage
  <1>3. "save" \in Points /\ "deleteFailed" \in Points /\ AfterSuccess("move") \in Points
    BY DEF Points, AfterSuccess
  <1>4. CASE PreupgradeRefuse
    BY <1>1, <1>3, <1>4, GotoType, PassTypes DEF PreupgradeRefuse
  <1>5. CASE ScaleDown
    <2>1. pass.pc \in Stages
      BY <1>5 DEF ScaleDown, Stages, NextStage
    <2>2. pass' \in PassType
      BY <1>1, <1>2, <1>3, <1>5, <2>1, DoneType, GotoType DEF ScaleDown
    <2> QED
      BY <1>5, <2>2 DEF ScaleDown, TypeOK, StsType, cluster
  <1>6. CASE SkipSingleNode
    <2>1. pass.pc \in Stages
      BY <1>6 DEF SkipSingleNode, Stages, NextStage
    <2> QED
      BY <1>1, <1>2, <1>6, <2>1, DoneType, PassTypes DEF SkipSingleNode
  <1>7. CASE CreatePrimaryJob
    <2> DEFINE r == [NoJob EXCEPT !.node = SyncLeader, !.from = pass.st.version,
                         !.to = pass.st.target, !.id = cm.dbid, !.args = cm.initdb]
    <2>1. [r EXCEPT !.phase = "active"] \in JobType
      BY <1>1, NoRecordTypes, LeaderType DEF JobType, JobPhases, StatusType, CmType
    <2> HIDE DEF r
    <2> QED
      BY <1>1, <1>3, <1>7, <2>1, GotoType, SetJobTypes, JobsAre
         DEF CreatePrimaryJob, CreateJob, r
  <1>8. CASE CreateMoveJob
    <2>1. [[NoJob EXCEPT !.node = SyncLeader] EXCEPT !.phase = "active"] \in JobType
      BY NoRecordTypes, LeaderType DEF JobType, JobPhases
    <2> QED
      BY <1>1, <1>3, <1>8, <2>1, GotoType, SetJobTypes, JobsAre DEF CreateMoveJob, CreateJob
  <1>9. CASE MoveSucceeded
    <2>1. Moved(pass.st) \in StatusType
      BY <1>1 DEF Moved, StatusType
    <2>2. pass' \in PassType
      BY <1>1, <1>3, <1>9, <2>1 DEF MoveSucceeded, PassType
    <2> QED
      BY <1>1, <1>9, <2>2, PassTypes DEF MoveSucceeded
  <1> QED
    BY <1>4, <1>5, <1>6, <1>7, <1>8, <1>9

LEMMA SecondariesTypes ==
    ASSUME TypeOK, PassInItsStage,
           \/ EnsureStreamer \/ NoStreamArgs \/ CreateSecondaryJob \/ CheckSecondaryJobs
           \/ DeleteStreamer \/ DeleteSecondaryJob \/ SecondaryJobsDeleted
    PROVE  TypeOK'
  <1>1. pass \in PassType /\ pass.st \in StatusType /\ queued \in BOOLEAN
        /\ cm \in CmType /\ sup \in [Nodes -> JobType] /\ pass.drop \subseteq Nodes
    BY DEF TypeOK, PassType
  <1>2. CASE EnsureStreamer
    <2>1. SyncLeader \in Nodes
      BY <1>2, LeaderType DEF EnsureStreamer
    <2>2. pass' \in PassType /\ pstream' \in Nodes \cup {NoNode}
      BY <1>1, <1>2, <2>1 DEF EnsureStreamer, PassType, Points, TypeOK
    <2> QED
      BY <1>2, <2>2 DEF EnsureStreamer, TypeOK, cluster
  <1>3. CASE NoStreamArgs
    BY <1>3, EndType, PassTypes DEF NoStreamArgs
  <1>4. CASE CreateSecondaryJob
    <2>1. PICK n \in Nodes :
            sup' = [sup EXCEPT ![n] = [NoJob EXCEPT !.phase = "active", !.node = n,
                       !.from = pass.st.version, !.to = pass.st.target,
                       !.id = cm.dbid, !.ckpt = cm.ckpt]]
      BY <1>4 DEF CreateSecondaryJob, Missing, Secondaries
    <2>2. [NoJob EXCEPT !.phase = "active", !.node = n, !.from = pass.st.version,
             !.to = pass.st.target, !.id = cm.dbid, !.ckpt = cm.ckpt] \in JobType
      BY <1>1, NoRecordTypes DEF JobType, JobPhases, StatusType, CmType
    <2>3. sup' \in [Nodes -> JobType]
      BY <1>1, <2>1, <2>2
    <2> QED
      BY <1>4, <2>3 DEF CreateSecondaryJob, TypeOK, cluster, operator
  <1>5. CASE CheckSecondaryJobs
    <2>1. pass' \in PassType
      BY <1>1, <1>5 DEF CheckSecondaryJobs, PassType, Points, CleanedUp, Secondaries
    <2> QED
      BY <1>1, <1>5, <2>1, PassTypes DEF CheckSecondaryJobs
  <1>6. CASE DeleteStreamer
    <2>1. pass' \in PassType
      BY <1>1, <1>6, GotoType DEF DeleteStreamer, Points
    <2> QED
      BY <1>6, <2>1 DEF DeleteStreamer, TypeOK, cluster
  <1>7. CASE DeleteSecondaryJob
    <2>1. PICK n \in Nodes :
            /\ sup' = [sup EXCEPT ![n] = NoJob]
            /\ pass' = [pass EXCEPT !.drop = @ \ {n}]
      BY <1>1, <1>7 DEF DeleteSecondaryJob
    <2>2. sup' \in [Nodes -> JobType] /\ pass' \in PassType
      BY <1>1, <2>1, NoRecordTypes DEF PassType
    <2> QED
      BY <1>7, <2>2 DEF DeleteSecondaryJob, TypeOK, cluster
  <1>8. CASE SecondaryJobsDeleted
    <2>1. pass.pc = "dropClients" => pass.st.state \in Stages
      BY DEF PassInItsStage, Points, FinalPoints, Stages, NextStage
    <2>2. pass' \in PassType /\ queued' \in BOOLEAN
      BY <1>1, <1>8, <2>1, DoneType, EndType DEF SecondaryJobsDeleted
    <2> QED
      BY <1>8, <2>2, PassTypes DEF SecondaryJobsDeleted
  <1> QED
    BY <1>2, <1>3, <1>4, <1>5, <1>6, <1>7, <1>8

-----------------------------------------------------------------------------
(* The environment neither creates nor deletes a job, does not touch a     *)
(* pass but for making it stale, and pauses Patroni from the sync job only.*)

EnvironmentStep ==
    /\ status' = status
    /\ pass'.pc = pass.pc /\ pass'.st = pass.st
    /\ \A j \in Jobs : job'[j].phase = "none" <=> job[j].phase = "none"
    /\ \A j \in Jobs : job'[j].node = job[j].node
    /\ pstream' = pstream
    /\ cm'.pause => cm.pause \/ job["preupgrade-sync"].phase # "none"

LEMMA UserStep == ASSUME TypeOK, NEW v \in Versions, SetVersion(v) PROVE TypeOK' /\ EnvironmentStep
  <1>1. pass \in PassType
    BY DEF TypeOK
  <1>2. pass'.pc = pass.pc /\ pass'.st = pass.st /\ pass' \in PassType
    BY <1>1 DEF SetVersion, PassType
  <1>3. TypeOK'
    BY <1>2 DEF TypeOK, SetVersion, objects, cluster
  <1> QED
    BY <1>2, <1>3 DEF SetVersion, EnvironmentStep, objects

LEMMA PodsStep ==
    ASSUME TypeOK, Pods \/ PodFaults
    PROVE  TypeOK' /\ EnvironmentStep
  <1>1. PICK n \in Nodes : \/ PodStart(n) \/ PodReady(n) \/ PodRecovers(n)
                          \/ PodAvailable(n) \/ PodStop(n) \/ PodUnready(n) \/ PodLost(n)
    BY DEF Pods, PodFaults
  <1>2. \E record : PodChange(n, record)
    BY <1>1 DEF PodStart, PodReady, PodRecovers, PodAvailable, PodStop, PodUnready, PodLost
  <1>3. EnvironmentStep
    BY <1>2 DEF PodChange, EnvironmentStep, objects
  <1> QED
    BY <1>1, <1>3, PodActionTypes

LEMMA PatroniStep ==
    ASSUME TypeOK, Patroni
    PROVE  TypeOK' /\ EnvironmentStep
  <1>1. PICK n \in Nodes : Bootstrap(n) \/ AcquireLeader(n) \/ Clone(n)
    BY DEF Patroni
  <1>2. cm'.pause = cm.pause
    BY <1>1 DEF Bootstrap, AcquireLeader, Clone, PatroniChange, TypeOK, CmType
  <1>3. UNCHANGED <<status, pass, job, pstream>>
    BY <1>1 DEF Bootstrap, AcquireLeader, Clone, PatroniChange, operator
  <1> QED
    BY <1>1, <1>2, <1>3, PatroniActionTypes DEF EnvironmentStep

LEMMA JobChangeStep ==
    ASSUME TypeOK, NEW j \in Jobs, NEW record, JobChange(j, record),
           record.phase = "none" <=> job[j].phase = "none", record.node = job[j].node,
           cm'.pause => cm.pause \/ job["preupgrade-sync"].phase # "none"
    PROVE  EnvironmentStep
  BY DEF TypeOK, JobChange, EnvironmentStep

LEMMA JobsStep ==
    ASSUME TypeOK, JobHasNode, JobPods \/ JobFaults
    PROVE  TypeOK' /\ EnvironmentStep
  <1>1. \A j \in Jobs : job[j] \in JobType
    BY DEF TypeOK
  <1>2. \A j \in Jobs : Finished(job[j]).phase # "none" /\ Finished(job[j]).node = job[j].node
    BY <1>1 DEF Finished, JobType
  <1>3. \A j \in Jobs : Finished(job[j]) \in JobType
    BY <1>1, FinishedType
  <1>4. CASE PreupgradeRun
    <2>1. PICK args :
            JobChange("preupgrade", [Finished(job["preupgrade"]) EXCEPT !.args = args])
      BY <1>4 DEF PreupgradeRun
    <2> DEFINE r == [Finished(job["preupgrade"]) EXCEPT !.args = args]
    <2>2. r.phase # "none" /\ r.node = job["preupgrade"].node
      BY <1>2, <1>3, JobsAre DEF JobType
    <2> HIDE DEF r
    <2>3. EnvironmentStep
      BY <1>4, <2>1, <2>2, JobChangeStep, JobsAre DEF PreupgradeRun, Running, r
    <2> QED
      BY <1>4, <2>3, JobActionTypes
  <1>5. CASE SyncRun
    <2>1. PICK after \in {Finished(job["preupgrade-sync"]),
                         [job["preupgrade-sync"] EXCEPT !.phase = "failed"]} :
            JobChange("preupgrade-sync", after)
      BY <1>5 DEF SyncRun
    <2>2. after.phase # "none" /\ after.node = job["preupgrade-sync"].node
      BY <1>1, <1>2, JobsAre DEF JobType
    <2>3. job["preupgrade-sync"].phase # "none"
      BY <1>5 DEF SyncRun, Running
    <2>4. EnvironmentStep
      BY <2>1, <2>2, <2>3, JobChangeStep, JobsAre
    <2> QED
      BY <1>5, <2>4, JobActionTypes
  <1>6. CASE PostupgradeRun
    <2>1. EnvironmentStep
      BY <1>2, <1>6, JobChangeStep, JobsAre DEF PostupgradeRun, Running
    <2> QED
      BY <1>6, <2>1, JobActionTypes
  <1>7. CASE UpRun
    <2> DEFINE j == job["up"]
    <2>1. PICK r \in {[Finished(j) EXCEPT !.ckpt = j.from, !.newid = j.to],
                     [Finished(j) EXCEPT !.newid = vol[j.node].new]} : JobChange("up", r)
      BY <1>7 DEF UpRun
    <2>2. r.phase # "none" /\ r.node = job["up"].node
      BY <1>2, <1>3, JobsAre DEF JobType
    <2>3. EnvironmentStep
      BY <1>7, <2>1, <2>2, JobChangeStep, JobsAre DEF UpRun, Running
    <2> QED
      BY <1>7, <2>3, JobActionTypes
  <1>8. CASE MoveRun
    <2>1. EnvironmentStep
      BY <1>2, <1>8, JobChangeStep, JobsAre DEF MoveRun, Running
    <2> QED
      BY <1>8, <2>1, JobActionTypes
  <1>9. CASE UpKilled
    <2> DEFINE j == job["up"]
    <2>1. PICK phase \in {j.phase, "failed"} : JobChange("up", [j EXCEPT !.phase = phase])
      BY <1>9 DEF UpKilled
    <2>2. [j EXCEPT !.phase = phase].phase = phase /\ [j EXCEPT !.phase = phase].node = j.node
      BY <1>1, JobsAre DEF JobType
    <2>3. EnvironmentStep
      BY <1>9, <2>1, <2>2, JobChangeStep, JobsAre DEF UpKilled, Running
    <2> QED
      BY <1>9, <2>3, JobActionTypes
  <1>10. CASE \E j \in Jobs : JobFails(j)
    <2>1. PICK j \in Jobs : JobFails(j)
      BY <1>10
    <2>2. [job[j] EXCEPT !.phase = "failed"].phase = "failed"
          /\ [job[j] EXCEPT !.phase = "failed"].node = job[j].node
      BY <1>1 DEF JobType
    <2>3. EnvironmentStep
      BY <2>1, <2>2, JobChangeStep DEF JobFails
    <2> QED
      BY <1>10, <2>3, JobActionTypes
  <1>11. CASE \E n \in Nodes : SupRun(n) \/ SupFails(n)
    <2>1. PICK n \in Nodes : SupRun(n) \/ SupFails(n)
      BY <1>11
    <2>2. UNCHANGED <<status, pass, job, pstream, cm>>
      BY <2>1 DEF SupRun, SupFails, SupChange
    <2> QED
      BY <2>1, <2>2, SecondaryJobActionTypes DEF EnvironmentStep
  <1> QED
    BY <1>4, <1>5, <1>6, <1>7, <1>8, <1>9, <1>10, <1>11 DEF JobPods, JobFaults

(* Nothing the environment does touches the rest of the invariant.         *)
LEMMA EnvironmentPreserves ==
    ASSUME Inductive, EnvironmentStep, TypeOK'
    PROVE  Inductive'
  <1> USE DEF Inductive, EnvironmentStep
  <1>1. JobHasNode'
    BY JobsAre DEF JobHasNode
  <1>2. PassInItsStage'
    BY DEF PassInItsStage
  <1>3. NothingLeftBehind'
    BY DEF NothingLeftBehind, NothingLeft
  <1>4. StagesHaveTargets'
    BY DEF StagesHaveTargets
  <1>5. NothingToSkip'
    BY JobsAre DEF NothingToSkip
  <1>6. JobsInTheirStage'
    BY LadderTypes DEF JobsInTheirStage
  <1>7. job["preupgrade-sync"].phase # "none" => status.state = "upgrade-preupgrade-sync"
    BY DEF JobsInTheirStage, StageJob
  <1>8. ResumedBeforeMovingOn'
    BY <1>7, JobsAre DEF ResumedBeforeMovingOn, NothingLeftBehind, NothingLeft, PausingStages
  <1>9. PausedOnTheWayDown'
    BY <1>7 DEF PausedOnTheWayDown
  <1> QED
    BY <1>1, <1>2, <1>3, <1>4, <1>5, <1>6, <1>8, <1>9

-----------------------------------------------------------------------------
(* The invariant is kept by the steps of a pass.                           *)

(* A pass is given up.                                                     *)
LEMMA EndPreserves ==
    ASSUME Inductive, TypeOK', EndWithError, UNCHANGED <<status, job, pstream, cm>>
    PROVE  Inductive'
  <1>1. pass'.pc = Idle /\ pass'.st.state \notin Stages
    BY DEF EndWithError, NoPass, NoStatus, Stages, NextStage, LastStage
  <1> QED
    BY <1>1 DEF Inductive, JobHasNode, PassInItsStage, NothingLeftBehind, NothingLeft,
         StagesHaveTargets, NothingToSkip, ResumedBeforeMovingOn, JobsInTheirStage,
         PausedOnTheWayDown, PausingStages, Idle, Points, FinalPoints, Stages, NextStage,
         LastStage, StageJob

(* A pass goes on in its stage, with the state it found; it may create the *)
(* stage's job, deploy or delete the streamer, and resume Patroni.         *)
JobCreated ==
    \E s \in DOMAIN StageJob, record \in JobType :
        /\ s = status.state
        /\ job' = [job EXCEPT ![StageJob[s]] = record]
        /\ StageJob[s] \in {"up", "move"} => record.node \in Nodes
        /\ s = "upgrade-preupgrade-sync" => N # 1

LEMMA GoOnPreserves ==
    ASSUME Inductive, TypeOK', status' = status,
           pass.pc \in Points \ FinalPoints,
           pass'.st.state = pass.st.state, pass'.st.target = pass.st.target,
           UNCHANGED job \/ JobCreated,
           pstream' \in {pstream, NoNode} \/ (N # 1 /\ status.state = "upgrade-secondaries"),
           cm'.pause => cm.pause,
           pass'.pc = "deleteDone" /\ status.state = "upgrade-primary" => ~cm'.pause,
           PassInItsStage'
    PROVE  Inductive'
  <1> USE DEF Inductive
  <1>1. pass.st.state = status.state
    BY DEF PassInItsStage
  <1>2. JobHasNode'
    <2>1. CASE UNCHANGED job
      BY <2>1 DEF JobHasNode
    <2>2. CASE JobCreated
      <3>1. PICK s \in DOMAIN StageJob, record \in JobType :
              /\ job' = [job EXCEPT ![StageJob[s]] = record]
              /\ StageJob[s] \in {"up", "move"} => record.node \in Nodes
        BY <2>2 DEF JobCreated
      <3>2. job \in [Jobs -> JobType]
        BY DEF TypeOK
      <3>3. ASSUME NEW j \in {"up", "move"}, job'[j].phase # "none"
            PROVE  job'[j].node \in Nodes
        BY <3>1, <3>2, <3>3, JobsAre DEF JobHasNode
      <3> QED
        BY <3>3 DEF JobHasNode
    <2> QED
      BY <2>1, <2>2
  <1>3. StagesHaveTargets' /\ PausedOnTheWayDown'
    BY DEF StagesHaveTargets, PausedOnTheWayDown
  <1>4. NothingLeftBehind'
    BY <1>1 DEF NothingLeftBehind
  <1>5. NothingToSkip'
    <2>1. CASE UNCHANGED job
      BY <2>1 DEF NothingToSkip
    <2>2. CASE JobCreated
      <3>1. PICK s \in DOMAIN StageJob, record \in JobType :
              /\ job' = [job EXCEPT ![StageJob[s]] = record]
              /\ s = "upgrade-preupgrade-sync" => N # 1
        BY <2>2 DEF JobCreated
      <3>2. StageJob[s] = "preupgrade-sync" => s = "upgrade-preupgrade-sync"
        BY DEF StageJob
      <3> QED
        BY <3>1, <3>2, JobsAre DEF NothingToSkip, TypeOK
    <2> QED
      BY <2>1, <2>2
  <1>6. ResumedBeforeMovingOn'
    BY <1>1 DEF ResumedBeforeMovingOn, PausedOnTheWayDown, PausingStages, FinalPoints
  <1>7. JobsInTheirStage'
    <2>1. pstream' # NoNode => status.state = "upgrade-secondaries"
      BY DEF JobsInTheirStage
    <2>2. ASSUME NEW t \in DOMAIN StageJob, job'[StageJob[t]].phase # "none"
          PROVE  status.state = t
      <3>1. CASE UNCHANGED job
        BY <2>2, <3>1 DEF JobsInTheirStage
      <3>2. CASE JobCreated
        <4>1. PICK s \in DOMAIN StageJob, record \in JobType :
                s = status.state /\ job' = [job EXCEPT ![StageJob[s]] = record]
          BY <3>2 DEF JobCreated
        <4>2. s # t => StageJob[s] # StageJob[t]
          BY DEF StageJob
        <4> QED
          BY <2>2, <4>1, <4>2, LadderTypes DEF JobsInTheirStage, TypeOK
      <3> QED
        BY <3>1, <3>2
    <2> QED
      BY <2>1, <2>2 DEF JobsInTheirStage
  <1> QED
    BY <1>2, <1>3, <1>4, <1>5, <1>6, <1>7

(* A stage is done: the pass will save a state that follows, no job is     *)
(* there, and Patroni is not paused any more where it must not be.         *)
LEMMA MovingOnPreserves ==
    ASSUME Inductive, TypeOK', status' = status, NothingLeft',
           pass'.pc \in FinalPoints,
           pass'.st.state \in Stages => pass'.st.target # None,
           cm'.pause => cm.pause /\ pass'.st.state \in PausingStages
    PROVE  Inductive'
  <1> USE DEF Inductive
  <1>1. JobHasNode'
    BY JobsAre DEF JobHasNode, NothingLeft
  <1>2. PassInItsStage'
    BY DEF PassInItsStage, FinalPoints, Stages, NextStage, LastStage
  <1>3. NothingLeftBehind'
    BY DEF NothingLeftBehind
  <1>4. StagesHaveTargets'
    BY DEF StagesHaveTargets
  <1>5. NothingToSkip'
    BY JobsAre DEF NothingToSkip, NothingLeft
  <1>6. ResumedBeforeMovingOn'
    BY DEF ResumedBeforeMovingOn, FinalPoints
  <1>7. JobsInTheirStage'
    BY LadderTypes DEF JobsInTheirStage, NothingLeft
  <1>8. PausedOnTheWayDown'
    BY DEF PausedOnTheWayDown
  <1> QED
    BY <1>1, <1>2, <1>3, <1>4, <1>5, <1>6, <1>7, <1>8

LEMMA BeginPreserves ==
    ASSUME Inductive, Begin, TypeOK'
    PROVE  Inductive'
  <1>1. pass'.pc = EntryPoint /\ pass'.st = status
        /\ UNCHANGED <<status, job, pstream, cm>>
    BY DEF Begin, NoPass, objects
  <1>2. EntryPoint \notin FinalPoints \cup {"deleteDone"}
    BY DEF EntryPoint, FinalPoints, Stages, NextStage, LastStage
  <1>3. PassInItsStage'
    BY <1>1 DEF Inductive, PassInItsStage, StagesHaveTargets, EntryPoint, Stages, NextStage,
         LastStage
  <1> QED
    BY <1>1, <1>2, <1>3 DEF Inductive, JobHasNode, NothingLeftBehind, StagesHaveTargets,
         NothingToSkip, ResumedBeforeMovingOn, JobsInTheirStage, PausedOnTheWayDown

LEMMA SavePreserves ==
    ASSUME Inductive, Save, TypeOK'
    PROVE  Inductive'
  <1>1. CASE Unchallenged
    <2>1. status' = pass.st /\ pass' = NoPass /\ UNCHANGED <<job, pstream, cm>>
      BY <1>1 DEF Save, objects
    <2>2. pass.pc \in FinalPoints
      BY DEF Save, FinalPoints
    <2>3. pass'.pc = Idle /\ pass'.st.state \notin Stages
      BY <2>1 DEF NoPass, NoStatus, Stages, NextStage, LastStage
    <2>4. JobsInTheirStage'
      BY <2>1, <2>2, LadderTypes DEF Inductive, NothingLeftBehind, NothingLeft, JobsInTheirStage
    <2>5. PausedOnTheWayDown'
      BY <2>1, <2>2 DEF Inductive, ResumedBeforeMovingOn, PausedOnTheWayDown, PausingStages
    <2>6. StagesHaveTargets'
      BY <2>1, <2>3 DEF Inductive, StagesHaveTargets
    <2>7. PassInItsStage' /\ NothingLeftBehind' /\ ResumedBeforeMovingOn'
      BY <2>3 DEF PassInItsStage, NothingLeftBehind, ResumedBeforeMovingOn, FinalPoints, Idle,
           Points, Stages, NextStage, LastStage
    <2> QED
      BY <2>1, <2>4, <2>5, <2>6, <2>7 DEF Inductive, JobHasNode, NothingToSkip
  <1>2. CASE ~Unchallenged
    BY <1>2, EndPreserves DEF Save, objects
  <1> QED
    BY <1>1, <1>2

(* The ordinary chain.                                                     *)
LEMMA ChainPreserves ==
    ASSUME Inductive, TypeOK',
           \/ Initialize \/ RequestUpgrade \/ RejectUpgrade \/ EnterUpgrade
           \/ ReconcileService \/ ReconcileStatefulSet
    PROVE  Inductive'
  <1>1. /\ TypeOK /\ pass \in PassType /\ pass.st \in StatusType
        /\ \A s \in DOMAIN StageJob : s \in Stages
    BY LadderTypes DEF Inductive, TypeOK, PassType
  <1>2. ASSUME pass.pc \in {"initialize", "request", "enter", "service", "sts"}
        PROVE  /\ status.state \notin Stages /\ pass.st.state = status.state
               /\ NothingLeft /\ ~cm.pause
    <2>1. status.state \notin Stages /\ pass.st.state = status.state
      BY <1>2 DEF Inductive, PassInItsStage, Points, FinalPoints
    <2>2. pstream = NoNode /\ ~cm.pause
      BY <2>1 DEF Inductive, JobsInTheirStage, PausedOnTheWayDown, Stages, NextStage
    <2>3. ASSUME NEW j \in Jobs PROVE job[j].phase = "none"
      <3>1. \E s \in DOMAIN StageJob : StageJob[s] = j
        BY DEF Jobs, StageJob
      <3> QED
        BY <1>1, <2>1, <3>1 DEF Inductive, JobsInTheirStage
    <2> QED
      BY <2>1, <2>2, <2>3 DEF NothingLeft
  <1>3. CASE Initialize
    <2>1. NothingLeft /\ ~cm.pause
      BY <1>2, <1>3 DEF Initialize
    <2>2. /\ status'.state = "scaling" /\ pass'.st = status' /\ pass'.pc = "service"
          /\ UNCHANGED <<job, pstream, cm>>
      BY <1>1, <1>3, NoRecordTypes DEF Initialize, objects, StatusType, PassType
    <2>3. /\ JobHasNode' /\ NothingLeftBehind' /\ NothingToSkip' /\ ResumedBeforeMovingOn'
          /\ PausedOnTheWayDown'
      BY <2>1, <2>2 DEF Inductive, JobHasNode, NothingLeftBehind, NothingToSkip,
           ResumedBeforeMovingOn, PausedOnTheWayDown, FinalPoints
    <2>4. JobsInTheirStage'
      BY <2>1, <2>2, LadderTypes DEF JobsInTheirStage, NothingLeft
    <2>5. PassInItsStage' /\ StagesHaveTargets'
      BY <2>2 DEF PassInItsStage, StagesHaveTargets, Stages, NextStage, LastStage
    <2> QED
      BY <2>3, <2>4, <2>5 DEF Inductive
  <1>4. CASE RequestUpgrade
    <2>1. NothingLeft /\ ~cm.pause /\ pass.st.state = status.state /\ status.state \notin Stages
      BY <1>2, <1>4 DEF RequestUpgrade
    <2>2. pass'.pc = "saveRequeue" /\ pass'.st.state = pass.st.state
      BY <1>1, <1>4 DEF RequestUpgrade, PassType, StatusType
    <2> QED
      BY <1>4, <2>1, <2>2, MovingOnPreserves
         DEF RequestUpgrade, objects, NothingLeft, FinalPoints
  <1>5. CASE RejectUpgrade
    BY <1>5, EndPreserves DEF RejectUpgrade, objects
  <1>6. CASE EnterUpgrade
    <2>1. NothingLeft /\ ~cm.pause /\ pass.st.target # None
      BY <1>2, <1>6 DEF EnterUpgrade, Inductive, PassInItsStage
    <2>2. pass'.pc = "saveRequeue" /\ pass'.st.target = pass.st.target
      BY <1>1, <1>6 DEF EnterUpgrade, PassType, StatusType
    <2> QED
      BY <1>6, <2>1, <2>2, MovingOnPreserves DEF EnterUpgrade, objects, NothingLeft, FinalPoints
  <1>7. CASE ReconcileService
    <2>1. status.state \notin Stages /\ pass.st.state = status.state /\ pass.pc = "service"
      BY <1>2, <1>7 DEF ReconcileService
    <2>2. pass'.pc = "sts" /\ pass'.st = pass.st /\ UNCHANGED <<status, job, cm, pstream>>
      BY <1>1, <1>7 DEF ReconcileService, SetService, Goto, PassType
    <2>3. PassInItsStage'
      BY <2>1, <2>2 DEF PassInItsStage, Stages, NextStage, LastStage
    <2> QED
      BY <2>1, <2>2, <2>3, GoOnPreserves DEF Points, FinalPoints, SetService
  <1>8. CASE ReconcileStatefulSet
    <2>1. NothingLeft /\ ~cm.pause
      BY <1>2, <1>8 DEF ReconcileStatefulSet
    <2>2. pass'.pc = "save" /\ pass'.st.state \in {"ready", "scaling"}
      BY <1>1, <1>8 DEF ReconcileStatefulSet, PassType, StatusType
    <2>3. pass'.st.state \notin Stages
      BY <2>2 DEF Stages, NextStage, LastStage
    <2> QED
      BY <1>8, <2>1, <2>2, <2>3, MovingOnPreserves
         DEF ReconcileStatefulSet, SetSts, NothingLeft, FinalPoints
  <1> QED
    BY <1>3, <1>4, <1>5, <1>6, <1>7, <1>8

(* Where a pass stands tells the stage it is in.                           *)
LEMMA WhereInTheLadder ==
    ASSUME Inductive
    PROVE  /\ \A s \in DOMAIN StageJob :
                AtJob(s) => pass.pc \in Points \ FinalPoints /\ status.state = s
           /\ pass.pc \in Stages => pass.pc \in Points \ FinalPoints /\ status.state = pass.pc
           /\ pass.pc \in {"syncService", "setDBId", "clients", "dropStream", "dropClients",
                          "dropFailed", "postServiceReady", "postServiceWait", "deleteDone",
                          "deleteFailed"}
                => pass.pc \in Points \ FinalPoints
  <1>1. ASSUME NEW s \in DOMAIN StageJob, AtJob(s)
        PROVE  pass.pc \in Points \ FinalPoints /\ status.state = s
    BY <1>1 DEF AtJob, JobPoint, StageJob, Inductive, PassInItsStage, Points, FinalPoints,
         Stages, NextStage, LastStage
  <1> QED
    BY <1>1 DEF Inductive, PassInItsStage, Points, FinalPoints, Stages, NextStage, LastStage

(* The waiting, creating and judging of a job that the stages share.       *)
LEMMA StagePreserves ==
    ASSUME Inductive, TypeOK', NEW s \in DOMAIN StageJob, Stage(s)
    PROVE  Inductive'
  <1>1. AtJob(s) /\ status.state = s /\ pass.pc \in Points \ FinalPoints /\ pass \in PassType
    BY WhereInTheLadder
       DEF Stage, EnsureUpgradeJob, WaitForJob, JobFailed, JobSucceeded, Inductive, TypeOK
  <1>2. CASE EnsureUpgradeJob(s)
    <2>1. JobCreated
      <3>1. [NoJob EXCEPT !.phase = "active"] \in JobType
        BY NoRecordTypes DEF JobType, JobPhases
      <3>2. job' = [job EXCEPT ![StageJob[s]] = [NoJob EXCEPT !.phase = "active"]]
        BY <1>2 DEF EnsureUpgradeJob, CreateJob, SetJob
      <3>3. StageJob[s] \notin {"up", "move"}
        BY <1>2 DEF EnsureUpgradeJob, StageJob
      <3>4. s = "upgrade-preupgrade-sync" => pass.pc = "syncJob"
        BY <1>1 DEF AtJob, JobPoint, StageJob
      <3>5. s = "upgrade-preupgrade-sync" => N # 1
        BY <3>4 DEF Inductive, PassInItsStage
      <3> QED
        BY <1>1, <3>1, <3>2, <3>3, <3>5 DEF JobCreated
    <2>2. pass'.pc = "save" /\ pass'.st = pass.st
      BY <1>1, <1>2 DEF EnsureUpgradeJob, CreateJob, Goto, PassType
    <2>3. UNCHANGED <<status, pstream, cm>>
      BY <1>2 DEF EnsureUpgradeJob, CreateJob, SetJob
    <2>4. PassInItsStage'
      BY <2>2 DEF PassInItsStage, FinalPoints, Stages, NextStage, LastStage
    <2> QED
      BY <1>1, <2>1, <2>2, <2>3, <2>4, GoOnPreserves
  <1>3. CASE WaitForJob(s)
    <2>1. pass'.pc = "save" /\ pass'.st = pass.st /\ UNCHANGED <<status, job, pstream, cm>>
      BY <1>1, <1>3 DEF WaitForJob, Goto, PassType, objects
    <2>2. PassInItsStage'
      BY <2>1 DEF PassInItsStage, FinalPoints, Stages, NextStage, LastStage
    <2> QED
      BY <1>1, <2>1, <2>2, GoOnPreserves
  <1>4. CASE JobFailed(s)
    <2>1. pass'.pc = "deleteFailed" /\ pass'.st = pass.st
          /\ UNCHANGED <<status, job, pstream, cm>>
      BY <1>1, <1>4 DEF JobFailed, Goto, PassType, objects
    <2>2. PassInItsStage'
      BY <1>1, <2>1 DEF Inductive, PassInItsStage, Stages, NextStage, LastStage
    <2> QED
      BY <1>1, <2>1, <2>2, GoOnPreserves
  <1>5. CASE JobSucceeded(s)
    <2>1. pass'.pc \in {"deleteDone", "deleteFailed"} /\ pass'.st = pass.st
          /\ UNCHANGED <<status, job, pstream, cm>>
      BY <1>1, <1>5 DEF JobSucceeded, AfterSuccess, Goto, PassType, objects
    <2>2. PassInItsStage'
      BY <1>1, <2>1 DEF Inductive, PassInItsStage, Stages, NextStage, LastStage
    <2>3. status.state # "upgrade-primary"
      BY <1>1, <1>5 DEF JobSucceeded
    <2> QED
      BY <1>1, <2>1, <2>2, <2>3, GoOnPreserves
  <1> QED
    BY <1>2, <1>3, <1>4, <1>5 DEF Stage

(* A stage's job is deleted: it was the only one.                          *)
LEMMA DeletionPreserves ==
    ASSUME Inductive, TypeOK', DeleteSucceededJob \/ DeleteFailedJob
    PROVE  Inductive'
  <1>1. pass.pc \in {"deleteDone", "deleteFailed"}
    BY DEF DeleteSucceededJob, DeleteFailedJob
  <1>2. status.state \in DOMAIN StageJob /\ pass.st.state = status.state
    BY <1>1, WhereInTheLadder DEF Inductive, PassInItsStage
  <1>3. /\ job' = [job EXCEPT ![StageJob[status.state]] = NoJob]
        /\ UNCHANGED <<status, pstream, cm>>
    BY <1>2 DEF DeleteSucceededJob, DeleteFailedJob, SetJob, Deleted
  <1>4. NothingLeft'
    <2>1. pstream = NoNode
      BY <1>2 DEF Inductive, JobsInTheirStage, StageJob
    <2>2. ASSUME NEW j \in Jobs PROVE job'[j].phase = "none"
      <3>1. PICK t \in DOMAIN StageJob : StageJob[t] = j
        BY DEF Jobs, StageJob
      <3>2. CASE t = status.state
        BY <1>3, <3>1, <3>2 DEF Inductive, TypeOK, NoJob
      <3>3. CASE t # status.state
        <4>1. job[j].phase = "none"
          BY <3>1, <3>3 DEF Inductive, JobsInTheirStage
        <4> QED
          BY <1>3, <4>1 DEF Inductive, TypeOK, NoJob
      <3> QED
        BY <3>2, <3>3
    <2> QED
      BY <1>3, <2>1, <2>2 DEF NothingLeft
  <1>5. pass \in PassType /\ pass.st \in StatusType /\ pass.st.target # None
    BY <1>2, LadderTypes DEF Inductive, TypeOK, PassType, StagesHaveTargets
  <1>6. CASE DeleteSucceededJob
    <2>1. pass'.pc \in FinalPoints /\ pass'.st = Advance(pass.st)
      BY <1>5, <1>6 DEF DeleteSucceededJob, PassType, FinalPoints
    <2>2. pass'.st.state \in Stages => pass'.st.target # None
      BY <1>5, <2>1 DEF Advance, StatusType, Stages, NextStage, LastStage
    <2>3. cm.pause => pass'.st.state \in PausingStages
      <3>1. cm.pause => status.state = "upgrade-preupgrade-sync"
        BY <1>2, <1>6 DEF DeleteSucceededJob, Inductive, ResumedBeforeMovingOn,
             PausedOnTheWayDown, StageJob
      <3>2. status.state = "upgrade-preupgrade-sync" => pass'.st.state = "upgrade-scaledown"
        BY <1>2, <1>5, <2>1 DEF Advance, StatusType, NextStage, LastStage
      <3> QED
        BY <3>1, <3>2 DEF PausingStages
    <2> QED
      BY <1>3, <1>4, <2>1, <2>2, <2>3, MovingOnPreserves
  <1>7. CASE DeleteFailedJob
    <2>1. pass'.pc = Idle /\ pass'.st.state \notin Stages
      BY <1>7 DEF DeleteFailedJob, EndWithError, NoPass, NoStatus, Stages, NextStage, LastStage
    <2>2. JobHasNode' /\ NothingToSkip'
      BY <1>4, JobsAre DEF JobHasNode, NothingToSkip, NothingLeft
    <2>3. JobsInTheirStage'
      BY <1>4, LadderTypes DEF JobsInTheirStage, NothingLeft
    <2>4. /\ PassInItsStage' /\ NothingLeftBehind' /\ ResumedBeforeMovingOn'
      BY <2>1 DEF PassInItsStage, NothingLeftBehind, ResumedBeforeMovingOn, FinalPoints, Idle,
           Points, Stages, NextStage, LastStage
    <2>5. StagesHaveTargets' /\ PausedOnTheWayDown'
      BY <1>3, <2>1 DEF Inductive, StagesHaveTargets, PausedOnTheWayDown
    <2> QED
      BY <2>2, <2>3, <2>4, <2>5 DEF Inductive
  <1> QED
    BY <1>6, <1>7

(* A stage that has no job, or skips it, is done.                          *)
LEMMA DonePreserves ==
    ASSUME Inductive, TypeOK', Done, UNCHANGED <<status, job, pstream, cm>>, pstream = NoNode,
           status.state \in Stages, pass.st.state = status.state,
           status.state \in DOMAIN StageJob => job[StageJob[status.state]].phase = "none",
           status.state # "upgrade-primary"
    PROVE  Inductive'
  <1>1. pass \in PassType /\ pass.st \in StatusType /\ pass.st.target # None
    BY DEF Inductive, TypeOK, PassType, StagesHaveTargets
  <1>2. NothingLeft'
    <2>1. ASSUME NEW j \in Jobs PROVE job[j].phase = "none"
      <3>1. PICK t \in DOMAIN StageJob : StageJob[t] = j
        BY DEF Jobs, StageJob
      <3> QED
        BY <3>1 DEF Inductive, JobsInTheirStage
    <2> QED
      BY <2>1 DEF NothingLeft
  <1>3. pass'.pc \in FinalPoints /\ pass'.st = Advance(pass.st)
    BY <1>1 DEF Done, PassType, FinalPoints
  <1>4. pass'.st.state \in Stages => pass'.st.target # None
    BY <1>1, <1>3 DEF Advance, StatusType, Stages, NextStage, LastStage
  <1>5. cm.pause => pass'.st.state \in PausingStages
    BY <1>1, <1>3 DEF Inductive, PausedOnTheWayDown, Advance, StatusType, NextStage, LastStage,
         PausingStages
  <1> QED
    BY <1>2, <1>3, <1>4, <1>5, MovingOnPreserves

LEMMA QuickStagesPreserve ==
    ASSUME Inductive, TypeOK', ScaleDown \/ SkipSingleNode
    PROVE  Inductive'
  <1>1. /\ pass.pc \in Stages /\ status.state = pass.pc /\ pass.pc \in Points \ FinalPoints
        /\ pass.st.state = status.state /\ pass \in PassType
    BY WhereInTheLadder
       DEF ScaleDown, SkipSingleNode, Inductive, PassInItsStage, TypeOK, Stages, NextStage
  <1>2. CASE ScaleDown
    <2>1. /\ UNCHANGED <<status, job, pstream, cm>> /\ pstream = NoNode
          /\ status.state \in {"upgrade-preupgrade-scaledown", "upgrade-scaledown"}
      BY <1>1, <1>2 DEF ScaleDown, Inductive, JobsInTheirStage
    <2>2. CASE Done
      <3>1. status.state \notin DOMAIN StageJob /\ status.state # "upgrade-primary"
        BY <2>1 DEF StageJob
      <3> QED
        BY <1>1, <2>1, <2>2, <3>1, DonePreserves
    <2>3. CASE Goto("save")
      <3>1. pass'.pc = "save" /\ pass'.st = pass.st
        BY <1>1, <2>3 DEF Goto, PassType
      <3>2. PassInItsStage'
        BY <3>1 DEF PassInItsStage, FinalPoints, Stages, NextStage, LastStage
      <3> QED
        BY <1>1, <2>1, <3>1, <3>2, GoOnPreserves
    <2> QED
      BY <1>2, <2>2, <2>3 DEF ScaleDown
  <1>3. CASE SkipSingleNode
    <2>1. /\ UNCHANGED <<status, job, pstream, cm>> /\ pstream = NoNode
          /\ job["preupgrade-sync"].phase = "none"
          /\ status.state \in {"upgrade-preupgrade-sync", "upgrade-secondaries"}
      BY <1>1, <1>3 DEF SkipSingleNode, Inductive, NothingToSkip, objects
    <2>2. status.state \in DOMAIN StageJob => StageJob[status.state] = "preupgrade-sync"
      BY <2>1 DEF StageJob
    <2> QED
      BY <1>1, <1>3, <2>1, <2>2, DonePreserves DEF SkipSingleNode
  <1> QED
    BY <1>2, <1>3

(* Clusters are started for the sync and the postupgrade job.              *)
LEMMA StartingPreserves ==
    ASSUME Inductive, TypeOK',
           SyncStartCluster \/ SyncService \/ PostStartCluster \/ PostService
    PROVE  Inductive'
  <1>1. pass.pc \in Points \ FinalPoints /\ pass \in PassType
    BY WhereInTheLadder DEF SyncStartCluster, SyncService, PostStartCluster, PostService,
         Inductive, TypeOK, Stages, NextStage, LastStage
  <1>2. /\ UNCHANGED <<status, job, pstream, cm>> /\ pass'.st = pass.st
        /\ pass'.pc \in {"syncService", "syncJob", "postServiceReady", "postServiceWait",
                         "postJob", "save"}
    BY <1>1 DEF SyncStartCluster, SyncService, PostStartCluster, PostService, SetSts,
         SetService, Goto, PassType
  <1>3. PassInItsStage'
    <2>1. /\ pass'.pc \in {"syncService", "syncJob"}
                => status.state = "upgrade-preupgrade-sync" /\ N # 1
          /\ pass'.pc \in {"postServiceReady", "postServiceWait", "postJob"}
                => status.state = LastStage
      BY <1>1 DEF SyncStartCluster, SyncService, PostStartCluster, PostService, Goto, PassType,
           Inductive, PassInItsStage, Stages, NextStage, LastStage
    <2>2. pass.st.state = status.state
      BY <1>1 DEF Inductive, PassInItsStage
    <2> QED
      BY <1>2, <2>1, <2>2 DEF PassInItsStage, FinalPoints, Stages, NextStage, LastStage
  <1> QED
    BY <1>1, <1>2, <1>3, GoOnPreserves

(* The results of the jobs.                                                *)
LEMMA ResultsPreserve ==
    ASSUME Inductive, TypeOK',
           \/ PreupgradeAccept \/ PreupgradeRefuse \/ PrimaryRecordCheckpoint
           \/ PrimarySetDBId \/ MoveSucceeded
    PROVE  Inductive'
  <1>1. /\ TypeOK /\ pass \in PassType /\ pass.st \in StatusType /\ cm \in CmType
        /\ PassInItsStage
    BY DEF Inductive, TypeOK, PassType
  <1>2. ASSUME NEW s \in DOMAIN StageJob, pass.pc \in Points \ FinalPoints, status.state = s,
               UNCHANGED <<status, job, pstream>>,
               pass'.st.state = pass.st.state, pass'.st.target = pass.st.target,
               \/ pass'.pc \in {"deleteDone", "deleteFailed"}
               \/ pass'.pc = "setDBId" /\ s = "upgrade-primary",
               cm'.pause => cm.pause,
               s = "upgrade-primary" /\ pass'.pc = "deleteDone" => ~cm'.pause
        PROVE  Inductive'
    <2>1. PassInItsStage'
      BY <1>1, <1>2 DEF PassInItsStage, Stages, NextStage, LastStage
    <2> QED
      BY <1>2, <2>1, GoOnPreserves
  <1>3. CASE PreupgradeAccept
    <2>1. /\ pass.pc \in Points \ FinalPoints /\ status.state = "upgrade-preupgrade"
          /\ "upgrade-preupgrade" \in DOMAIN StageJob
      BY <1>3, WhereInTheLadder DEF PreupgradeAccept, StageJob
    <2>2. /\ pass'.st = pass.st /\ pass'.pc \in {"deleteDone", "deleteFailed"}
          /\ cm'.pause = cm.pause
      BY <1>1, <1>3 DEF PreupgradeAccept, SetConfig, SettingsRecorded, Goto, AfterSuccess,
           PassType, CmType
    <2> QED
      BY <1>2, <1>3, <2>1, <2>2 DEF PreupgradeAccept, SetConfig
  <1>4. CASE PreupgradeRefuse
    <2>1. /\ pass.pc \in Points \ FinalPoints /\ status.state = "upgrade-preupgrade"
          /\ "upgrade-preupgrade" \in DOMAIN StageJob
      BY <1>4, WhereInTheLadder DEF PreupgradeRefuse, StageJob
    <2>2. pass'.st = pass.st /\ pass'.pc = "deleteFailed"
      BY <1>1, <1>4 DEF PreupgradeRefuse, Goto, PassType
    <2> QED
      BY <1>2, <1>4, <2>1, <2>2 DEF PreupgradeRefuse, objects
  <1>5. CASE PrimaryRecordCheckpoint
    <2>1. /\ pass.pc \in Points \ FinalPoints /\ status.state = "upgrade-primary"
          /\ "upgrade-primary" \in DOMAIN StageJob
      BY <1>5, WhereInTheLadder DEF PrimaryRecordCheckpoint, StageJob
    <2>2. pass'.st = pass.st /\ pass'.pc = "setDBId" /\ cm'.pause = cm.pause
      BY <1>1, <1>5 DEF PrimaryRecordCheckpoint, SetConfig, Goto, PassType, CmType
    <2> QED
      BY <1>2, <1>5, <2>1, <2>2 DEF PrimaryRecordCheckpoint, SetConfig
  <1>6. CASE PrimarySetDBId
    <2>1. /\ pass.pc \in Points \ FinalPoints /\ status.state = "upgrade-primary"
          /\ "upgrade-primary" \in DOMAIN StageJob
      BY <1>1, <1>6, WhereInTheLadder DEF PrimarySetDBId, PassInItsStage, StageJob
    <2>2. /\ pass'.st = pass.st /\ pass'.pc \in {"deleteDone", "deleteFailed"} /\ ~cm'.pause
      BY <1>1, <1>6 DEF PrimarySetDBId, SetConfig, Identified, Goto, AfterSuccess, PassType,
           CmType
    <2> QED
      BY <1>2, <1>6, <2>1, <2>2 DEF PrimarySetDBId, SetConfig
  <1>7. CASE MoveSucceeded
    <2>1. /\ pass.pc \in Points \ FinalPoints /\ status.state = "upgrade-primary-move"
          /\ "upgrade-primary-move" \in DOMAIN StageJob
      BY <1>7, WhereInTheLadder DEF MoveSucceeded, StageJob
    <2>2. /\ pass'.st.state = pass.st.state /\ pass'.st.target = pass.st.target
          /\ pass'.pc \in {"deleteDone", "deleteFailed"}
      BY <1>1, <1>7 DEF MoveSucceeded, Moved, AfterSuccess, PassType, StatusType
    <2> QED
      BY <1>2, <1>7, <2>1, <2>2 DEF MoveSucceeded, objects
  <1> QED
    BY <1>3, <1>4, <1>5, <1>6, <1>7

(* The jobs that work on the leader's volume are created.                  *)
LEMMA CreationPreserves ==
    ASSUME Inductive, TypeOK', CreatePrimaryJob \/ CreateMoveJob
    PROVE  Inductive'
  <1>1. pass \in PassType /\ SyncLeader \in Nodes
    BY LeaderType DEF Inductive, TypeOK, CreatePrimaryJob, CreateMoveJob
  <1>2. ASSUME NEW s \in {"upgrade-primary", "upgrade-primary-move"}, NEW record,
               AtJob(s), CreateJob(StageJob[s], record),
               [record EXCEPT !.phase = "active"].node = SyncLeader
        PROVE  Inductive'
    <2>1. s \in DOMAIN StageJob /\ pass.pc \in Points \ FinalPoints /\ status.state = s
      BY <1>2, WhereInTheLadder DEF StageJob
    <2>2. JobCreated
      <3>1. job' = [job EXCEPT ![StageJob[s]] = [record EXCEPT !.phase = "active"]]
        BY <1>2 DEF CreateJob, SetJob
      <3>2. [record EXCEPT !.phase = "active"] \in JobType
        BY <2>1, <3>1, LadderTypes DEF TypeOK, Inductive
      <3> QED
        BY <1>1, <1>2, <2>1, <3>1, <3>2 DEF JobCreated
    <2>3. pass'.pc = "save" /\ pass'.st = pass.st /\ UNCHANGED <<status, pstream, cm>>
      BY <1>1, <1>2 DEF CreateJob, SetJob, Goto, PassType
    <2>4. PassInItsStage'
      BY <2>3 DEF PassInItsStage, FinalPoints, Stages, NextStage, LastStage
    <2> QED
      BY <2>1, <2>2, <2>3, <2>4, GoOnPreserves
  <1>3. CASE CreatePrimaryJob
    <2> DEFINE r == [NoJob EXCEPT !.node = SyncLeader, !.from = pass.st.version,
                         !.to = pass.st.target, !.id = cm.dbid, !.args = cm.initdb]
    <2>1. [r EXCEPT !.phase = "active"].node = SyncLeader
      BY DEF NoJob
    <2> HIDE DEF r
    <2>2. AtJob("upgrade-primary") /\ CreateJob(StageJob["upgrade-primary"], r)
      BY <1>3 DEF CreatePrimaryJob, StageJob, r
    <2> QED
      BY <1>2, <2>1, <2>2
  <1>4. CASE CreateMoveJob
    <2> DEFINE r == [NoJob EXCEPT !.node = SyncLeader]
    <2>1. [r EXCEPT !.phase = "active"].node = SyncLeader
      BY DEF NoJob
    <2> HIDE DEF r
    <2>2. AtJob("upgrade-primary-move") /\ CreateJob(StageJob["upgrade-primary-move"], r)
      BY <1>4 DEF CreateMoveJob, StageJob, r
    <2> QED
      BY <1>2, <2>1, <2>2
  <1> QED
    BY <1>3, <1>4

(* The secondaries, with their streamer.                                   *)
LEMMA SecondariesPreserve ==
    ASSUME Inductive, TypeOK',
           \/ EnsureStreamer \/ NoStreamArgs \/ CreateSecondaryJob \/ CheckSecondaryJobs
           \/ DeleteStreamer \/ DeleteSecondaryJob \/ SecondaryJobsDeleted
    PROVE  Inductive'
  <1>1. /\ pass \in PassType /\ PassInItsStage /\ pass.pc \in Points \ FinalPoints
        /\ status.state = "upgrade-secondaries" /\ pass.st.state = status.state
    BY WhereInTheLadder
       DEF EnsureStreamer, NoStreamArgs, CreateSecondaryJob, CheckSecondaryJobs, DeleteStreamer,
         DeleteSecondaryJob, SecondaryJobsDeleted, Inductive, TypeOK, PassInItsStage, Stages,
         NextStage
  <1>2. CASE EnsureStreamer
    <2>1. pass'.pc = "clients" /\ pass'.st = pass.st /\ N # 1 /\ UNCHANGED <<status, job, cm>>
      BY <1>1, <1>2 DEF EnsureStreamer, PassType
    <2>2. PassInItsStage'
      BY <1>1, <2>1 DEF PassInItsStage, Stages, NextStage, LastStage
    <2> QED
      BY <1>1, <2>1, <2>2, GoOnPreserves
  <1>3. CASE NoStreamArgs
    BY <1>3, EndPreserves DEF NoStreamArgs, objects
  <1>4. CASE CreateSecondaryJob \/ CheckSecondaryJobs \/ DeleteStreamer \/ DeleteSecondaryJob
    <2>1. /\ UNCHANGED <<status, job, cm>> /\ pass'.st = pass.st
          /\ pstream' \in {pstream, NoNode}
          /\ pass'.pc \in {"clients", "dropStream", "dropClients", "dropFailed", "save"}
          /\ pass'.pc = "dropClients" => pstream' = NoNode
      BY <1>1, <1>4 DEF CreateSecondaryJob, CheckSecondaryJobs, DeleteStreamer,
           DeleteSecondaryJob, Goto, PassType, PassInItsStage, objects, operator
    <2>2. PassInItsStage'
      BY <1>1, <2>1 DEF PassInItsStage, FinalPoints, Stages, NextStage, LastStage
    <2> QED
      BY <1>1, <2>1, <2>2, GoOnPreserves
  <1>5. CASE SecondaryJobsDeleted
    <2>1. CASE pass.pc = "dropClients"
      <3>1. Done /\ UNCHANGED <<status, job, pstream, cm>> /\ pstream = NoNode
        BY <1>1, <1>5, <2>1 DEF SecondaryJobsDeleted, PassInItsStage, objects
      <3>2. status.state \in Stages \ DOMAIN StageJob
        BY <1>1 DEF Stages, NextStage, StageJob
      <3> QED
        BY <1>1, <3>1, <3>2, DonePreserves
    <2>2. CASE pass.pc # "dropClients"
      BY <1>5, <2>2, EndPreserves DEF SecondaryJobsDeleted, objects
    <2> QED
      BY <2>1, <2>2
  <1> QED
    BY <1>2, <1>3, <1>4, <1>5

(* The last cleanup of an upgrade.                                         *)
LEMMA ClearingPreserves ==
    ASSUME Inductive, TypeOK', ClearAnnotations
    PROVE  Inductive'
  <1>1. pass \in PassType /\ cm \in CmType /\ pass.pc = "clear"
    BY DEF Inductive, TypeOK, ClearAnnotations
  <1>2. /\ pass'.pc = "saveRequeue" /\ pass'.st = pass.st /\ cm'.pause = cm.pause
        /\ UNCHANGED <<status, job, pstream>>
    BY <1>1 DEF ClearAnnotations, SetConfig, Cleared, Goto, PassType, CmType
  <1>3. PassInItsStage' /\ NothingLeftBehind' /\ ResumedBeforeMovingOn'
    BY <1>1, <1>2 DEF Inductive, PassInItsStage, NothingLeftBehind, NothingLeft,
         ResumedBeforeMovingOn, FinalPoints, Stages, NextStage, LastStage
  <1>4. /\ JobHasNode' /\ StagesHaveTargets' /\ NothingToSkip' /\ JobsInTheirStage'
        /\ PausedOnTheWayDown'
    BY <1>2 DEF Inductive, JobHasNode, StagesHaveTargets, NothingToSkip, JobsInTheirStage,
         PausedOnTheWayDown
  <1> QED
    BY <1>3, <1>4 DEF Inductive

-----------------------------------------------------------------------------
(* The theorems.                                                           *)

LEMMA OperatorPreserves ==
    ASSUME Inductive, Operator \/ Abort
    PROVE  Inductive'
  <1>1. TypeOK /\ PassInItsStage
    BY DEF Inductive
  <1>2. TypeOK'
    BY <1>1, EnvelopeTypes, ChainTypes, StageTypes, DeletionTypes, ConfigTypes, HandlerTypes,
       SecondariesTypes DEF Operator
  <1>3. CASE Begin
    BY <1>2, <1>3, BeginPreserves
  <1>4. CASE Save
    BY <1>2, <1>4, SavePreserves
  <1>5. CASE Abort
    BY <1>2, <1>5, EndPreserves DEF Abort, objects
  <1>6. CASE \/ Initialize \/ RequestUpgrade \/ RejectUpgrade \/ EnterUpgrade
             \/ ReconcileService \/ ReconcileStatefulSet
    BY <1>2, <1>6, ChainPreserves
  <1>7. CASE \E s \in DOMAIN StageJob : Stage(s)
    BY <1>2, <1>7, StagePreserves
  <1>8. CASE DeleteSucceededJob \/ DeleteFailedJob
    BY <1>2, <1>8, DeletionPreserves
  <1>9. CASE ScaleDown \/ SkipSingleNode
    BY <1>2, <1>9, QuickStagesPreserve
  <1>10. CASE SyncStartCluster \/ SyncService \/ PostStartCluster \/ PostService
    BY <1>2, <1>10, StartingPreserves
  <1>11. CASE \/ PreupgradeAccept \/ PreupgradeRefuse \/ PrimaryRecordCheckpoint
              \/ PrimarySetDBId \/ MoveSucceeded
    BY <1>2, <1>11, ResultsPreserve
  <1>12. CASE CreatePrimaryJob \/ CreateMoveJob
    BY <1>2, <1>12, CreationPreserves
  <1>13. CASE \/ EnsureStreamer \/ NoStreamArgs \/ CreateSecondaryJob \/ CheckSecondaryJobs
              \/ DeleteStreamer \/ DeleteSecondaryJob \/ SecondaryJobsDeleted
    BY <1>2, <1>13, SecondariesPreserve
  <1>14. CASE ClearAnnotations
    BY <1>2, <1>14, ClearingPreserves
  <1> QED
    BY <1>3, <1>4, <1>5, <1>6, <1>7, <1>8, <1>9, <1>10, <1>11, <1>12, <1>13, <1>14
       DEF Operator

LEMMA InitInductive == ASSUME Init PROVE Inductive
  <1>1. TypeOK
    BY NoRecordTypes, VersionFacts DEF Init, TypeOK, StsType, Port, CmType, VolType
  <1>2. /\ status.state = "" /\ pass.pc = Idle /\ pass.st.state = "" /\ ~cm.pause
        /\ pstream = NoNode /\ \A j \in Jobs : job[j].phase = "none"
    BY DEF Init, NoStatus, NoPass, NoJob
  <1>3. NothingLeft
    BY <1>2 DEF NothingLeft
  <1>4. PassInItsStage /\ NothingLeftBehind /\ StagesHaveTargets /\ ResumedBeforeMovingOn
    BY <1>2 DEF PassInItsStage, NothingLeftBehind, StagesHaveTargets, ResumedBeforeMovingOn,
         Idle, Points, FinalPoints, Stages, NextStage, LastStage
  <1>5. JobHasNode /\ NothingToSkip /\ JobsInTheirStage /\ PausedOnTheWayDown
    BY <1>2, <1>3, JobsAre, LadderTypes
       DEF NothingLeft, JobHasNode, NothingToSkip, JobsInTheirStage, PausedOnTheWayDown
  <1> QED
    BY <1>1, <1>4, <1>5 DEF Inductive

LEMMA StepInductive == ASSUME Inductive, [Next]_vars PROVE Inductive'
  <1>1. TypeOK /\ JobHasNode
    BY DEF Inductive
  <1>2. CASE Operator \/ Abort
    BY <1>2, OperatorPreserves
  <1>3. CASE User
    BY <1>1, <1>3, UserStep, EnvironmentPreserves DEF User
  <1>4. CASE Pods \/ PodFaults
    BY <1>1, <1>4, PodsStep, EnvironmentPreserves
  <1>5. CASE Patroni
    BY <1>1, <1>5, PatroniStep, EnvironmentPreserves
  <1>6. CASE JobPods \/ JobFaults
    BY <1>1, <1>6, JobsStep, EnvironmentPreserves
  <1>7. CASE UNCHANGED vars
    <2>1. TypeOK'
      BY <1>1, <1>7 DEF vars, operator, objects, cluster, TypeOK
    <2>2. EnvironmentStep
      BY <1>7 DEF vars, operator, objects, EnvironmentStep
    <2> QED
      BY <2>1, <2>2, EnvironmentPreserves
  <1> QED
    BY <1>2, <1>3, <1>4, <1>5, <1>6, <1>7 DEF Next

LEMMA AlwaysInductive == Spec => []Inductive
  BY InitInductive, StepInductive, PTL DEF Spec

(* Every variable keeps its type, however passes, failures and the         *)
(* environment interleave; in particular a pass never advances from a      *)
(* state the ladder does not name (upgrade.go, Handle).                    *)
THEOREM TypeCorrect == Spec => []TypeOK
  <1>1. Inductive => TypeOK
    BY DEF Inductive
  <1> QED
    BY <1>1, AlwaysInductive, PTL

(* For any number of nodes, however often a pass dies between the deletion *)
(* of a job and the update of the status, no job and no streamer survives  *)
(* the stage that runs it (common.go, ensureUpgradeJob and cleanupJob;     *)
(* upgrade.go, Handle).                                                    *)
THEOREM JobsStayInTheirStage == Spec => []JobsInTheirStage
  <1>1. Inductive => JobsInTheirStage
    BY DEF Inductive
  <1> QED
    BY <1>1, AlwaysInductive, PTL

(* For any number of nodes, Patroni is paused at most from the sync stage  *)
(* to the primary stage, although the job that pauses it may fail after    *)
(* the fact, be repeated, or leave its success unsaved (configmap.go,      *)
(* SetDBId; cmd/upgrade/preupgrade-sync.go, pauseCluster).                 *)
THEOREM PausedOnlyOnTheWayDown == Spec => []PausedOnTheWayDown
  <1>1. Inductive => PausedOnTheWayDown
    BY DEF Inductive
  <1> QED
    BY <1>1, AlwaysInductive, PTL

(* A stage never loses the target it upgrades to, so a pass never takes an *)
(* upgrade under way for an ordinary state (patronipostgres_controller.go, *)
(* Reconcile: status.upgradeVersion decides whether Handle is called).     *)
THEOREM UpgradeUnderWayHasTarget == Spec => [](status.state \in Stages => status.target # None)
  <1>1. Inductive => (status.state \in Stages => status.target # None)
    BY DEF Inductive, StagesHaveTargets
  <1> QED
    BY <1>1, AlwaysInductive, PTL

-----------------------------------------------------------------------------
(* The versions of the status.                                             *)

(* The offers of a status were made for its version, or are what is left   *)
(* of them after the upgrade they led to; they are the former while a      *)
(* target taken from them is not reached yet.                              *)
OffersMeant(st) ==
    /\ st.offers \subseteq UpgradeVersions(st.version) \/ st.offers \subseteq {st.version}
    /\ st.target \notin {None, st.version} =>
          /\ st.target \in UpgradeVersions(st.version)
          /\ st.offers \subseteq UpgradeVersions(st.version)

StatusesMeant == OffersMeant(status) /\ OffersMeant(pass.st)

LEMMA UpgradesAre ==
    UpgradeVersions(13) = {15} /\ UpgradeVersions(15) = {17} /\ UpgradeVersions(17) = {}
    /\ UpgradeVersions(None) = {}
  <1>1. DOMAIN Images = {1, 2} /\ Images[1] = {13, 15} /\ Images[2] = {15, 17}
    BY DEF Images
  <1>2. {i \in DOMAIN Images : 13 \in Images[i]} = {1}
    BY <1>1
  <1>3. {i \in DOMAIN Images : 15 \in Images[i]} = {1, 2}
    BY <1>1
  <1>4. {i \in DOMAIN Images : 17 \in Images[i]} = {2}
    BY <1>1
  <1>5. {i \in DOMAIN Images : None \in Images[i]} = {}
    BY <1>1 DEF None
  <1>6. GetImage(13) = 1
    BY <1>2 DEF GetImage
  <1>7. GetImage(15) = 2
    <2>1. \E i \in {1, 2} : \A j \in {1, 2} : j <= i
      OBVIOUS
    <2>2. \A i \in {1, 2} : (\A j \in {1, 2} : j <= i) => i = 2
      OBVIOUS
    <2> QED
      BY <1>3, <2>1, <2>2 DEF GetImage
  <1>8. GetImage(17) = 2
    BY <1>4 DEF GetImage
  <1>9. GetImage(None) = None
    BY <1>5 DEF GetImage
  <1>10. UpgradeVersions(13) = {15}
    BY <1>1, <1>6 DEF UpgradeVersions, None
  <1>11. UpgradeVersions(15) = {17}
    BY <1>1, <1>7 DEF UpgradeVersions, None
  <1>12. UpgradeVersions(17) = {}
    BY <1>1, <1>8 DEF UpgradeVersions, None
  <1>13. UpgradeVersions(None) = {}
    BY <1>9 DEF UpgradeVersions
  <1> QED
    BY <1>10, <1>11, <1>12, <1>13

(* The move to the target keeps the offers meant.                          *)
LEMMA MovedMeant ==
    ASSUME NEW st \in StatusType, OffersMeant(st), st.target # None
    PROVE  OffersMeant(Moved(st))
  <1>1. /\ Moved(st).version = st.target /\ Moved(st).target = st.target
        /\ Moved(st).offers = st.offers
    BY DEF Moved, StatusType
  <1>2. CASE st.target = st.version
    BY <1>1, <1>2 DEF OffersMeant
  <1>3. CASE st.target # st.version
    <2>1. st.offers \subseteq {st.target}
      BY <1>3, UpgradesAre, VersionsAre DEF OffersMeant, StatusType, Version
    <2> QED
      BY <1>1, <2>1 DEF OffersMeant
  <1> QED
    BY <1>2, <1>3

(* Every other step of a pass copies what it read or changes the state.    *)
Copies ==
    /\ status' \in {status, pass.st}
    /\ \/ pass'.st \in {pass.st, status, NoStatus}
       \/ /\ pass.st \in StatusType
          /\ \/ pass'.st = Advance(pass.st)
             \/ \E s : pass'.st = [pass.st EXCEPT !.state = s]

LEMMA CopiesMeant == ASSUME StatusesMeant, Copies PROVE StatusesMeant'
  <1>1. OffersMeant(status')
    BY DEF StatusesMeant, Copies
  <1>2. OffersMeant(NoStatus)
    BY DEF OffersMeant, NoStatus
  <1>3. ASSUME pass.st \in StatusType, NEW s PROVE OffersMeant([pass.st EXCEPT !.state = s])
    BY <1>3 DEF StatusesMeant, OffersMeant, StatusType
  <1>4. ASSUME pass.st \in StatusType PROVE OffersMeant(Advance(pass.st))
    BY <1>4 DEF StatusesMeant, OffersMeant, StatusType, Advance
  <1>5. OffersMeant(pass'.st)
    BY <1>2, <1>3, <1>4 DEF StatusesMeant, Copies
  <1> QED
    BY <1>1, <1>5 DEF StatusesMeant

LEMMA MostStepsCopy ==
    ASSUME Inductive, Operator \/ Abort,
           ~Initialize, ~RequestUpgrade, ~ReconcileStatefulSet, ~MoveSucceeded
    PROVE  Copies
  <1>1. pass \in PassType /\ pass.st \in StatusType
    BY DEF Inductive, TypeOK, PassType
  <1>2. \A pc : [pass EXCEPT !.pc = pc].st = pass.st
    BY <1>1 DEF PassType
  <1>3. Done => pass'.st = Advance(pass.st)
    BY <1>1 DEF Done, PassType
  <1>4. EndWithError => pass'.st = NoStatus
    BY DEF EndWithError, NoPass
  <1>5. \A pc : Goto(pc) => pass'.st = pass.st
    BY <1>2 DEF Goto
  <1>6. CASE Begin \/ Save
    <2>1. Begin => pass'.st = status /\ status' = status
      BY DEF Begin, NoPass
    <2>2. NoPass.st = NoStatus
      BY DEF NoPass
    <2>3. Save => status' \in {status, pass.st} /\ pass'.st = NoStatus
      BY <1>4, <2>2 DEF Save
    <2> QED
      BY <1>6, <2>1, <2>3 DEF Copies
  <1>7. CASE RejectUpgrade \/ Abort \/ NoStreamArgs
    BY <1>4, <1>7 DEF RejectUpgrade, Abort, NoStreamArgs, Copies
  <1>8. CASE EnterUpgrade
    <2>1. pass'.st = [pass.st EXCEPT !.state = "upgrade-preupgrade"]
      BY <1>1, <1>8 DEF EnterUpgrade, PassType
    <2> QED
      BY <1>1, <1>8, <2>1 DEF EnterUpgrade, Copies
  <1>9. CASE ReconcileService \/ SyncStartCluster \/ SyncService \/ PostStartCluster \/ PostService
    BY <1>5, <1>9 DEF ReconcileService, SyncStartCluster, SyncService, PostStartCluster,
         PostService, SetService, SetSts, Copies
  <1>10. CASE \E s \in DOMAIN StageJob : Stage(s)
    BY <1>5, <1>10 DEF Stage, EnsureUpgradeJob, WaitForJob, JobFailed, JobSucceeded, CreateJob,
         SetJob, Copies
  <1>11. CASE DeleteSucceededJob
    <2>1. pass'.st = Advance(pass.st)
      BY <1>1, <1>11 DEF DeleteSucceededJob, PassType
    <2> QED
      BY <1>1, <1>11, <2>1 DEF DeleteSucceededJob, SetJob, Copies
  <1>12. CASE DeleteFailedJob
    BY <1>4, <1>12 DEF DeleteFailedJob, SetJob, Copies
  <1>13. CASE \/ PreupgradeAccept \/ PreupgradeRefuse \/ PrimaryRecordCheckpoint
              \/ PrimarySetDBId \/ ClearAnnotations
    BY <1>5, <1>13 DEF PreupgradeAccept, PreupgradeRefuse, PrimaryRecordCheckpoint,
         PrimarySetDBId, ClearAnnotations, SetConfig, Copies
  <1>14. CASE ScaleDown \/ SkipSingleNode
    BY <1>1, <1>3, <1>5, <1>14 DEF ScaleDown, SkipSingleNode, Copies
  <1>15. CASE CreatePrimaryJob \/ CreateMoveJob
    BY <1>5, <1>15 DEF CreatePrimaryJob, CreateMoveJob, CreateJob, SetJob, Copies
  <1>16. CASE EnsureStreamer \/ CreateSecondaryJob \/ CheckSecondaryJobs \/ DeleteStreamer
              \/ DeleteSecondaryJob
    <2>1. pass'.st = pass.st
      BY <1>1, <1>5, <1>16 DEF EnsureStreamer, CreateSecondaryJob, CheckSecondaryJobs,
           DeleteStreamer, DeleteSecondaryJob, PassType, operator
    <2>2. status' = status
      BY <1>16 DEF EnsureStreamer, CreateSecondaryJob, CheckSecondaryJobs, DeleteStreamer,
           DeleteSecondaryJob
    <2> QED
      BY <2>1, <2>2 DEF Copies
  <1>17. CASE SecondaryJobsDeleted
    BY <1>1, <1>3, <1>4, <1>17 DEF SecondaryJobsDeleted, Copies
  <1> QED
    BY <1>6, <1>7, <1>8, <1>9, <1>10, <1>11, <1>12, <1>13, <1>14, <1>15, <1>16, <1>17
       DEF Operator

LEMMA StepMeant == ASSUME Inductive, StatusesMeant, [Next]_vars PROVE StatusesMeant'
  <1>1. /\ TypeOK /\ JobHasNode /\ pass \in PassType /\ pass.st \in StatusType
        /\ status \in StatusType
    BY DEF Inductive, TypeOK, PassType
  <1>2. CASE Initialize
    <2>1. OffersMeant(status')
      BY <1>2, NoRecordTypes DEF Initialize, NoStatus, OffersMeant
    <2>2. pass'.st = status'
      BY <1>1, <1>2 DEF Initialize, PassType
    <2> QED
      BY <2>1, <2>2 DEF StatusesMeant
  <1>3. CASE RequestUpgrade
    <2>1. specVersion \in pass.st.offers
      BY <1>3 DEF RequestUpgrade, AllowedTargets
    <2>2. pass'.st = [pass.st EXCEPT !.target = specVersion]
      BY <1>1, <1>3 DEF RequestUpgrade, PassType
    <2>3. OffersMeant(pass'.st)
      BY <1>1, <2>1, <2>2 DEF StatusesMeant, OffersMeant, StatusType
    <2> QED
      BY <1>3, <2>3 DEF RequestUpgrade, StatusesMeant
  <1>4. CASE ReconcileStatefulSet
    <2>1. pass.st.state \notin Stages /\ status' = status
      BY <1>4 DEF ReconcileStatefulSet, SetSts, Inductive, PassInItsStage, Points, FinalPoints
    <2>2. \/ pass'.st.offers = pass.st.offers
          \/ pass'.st.offers = UpgradeVersions(pass.st.version)
      BY <1>1, <1>4 DEF ReconcileStatefulSet, PassType, StatusType
    <2>3. pass'.st.version = pass.st.version /\ pass'.st.target = pass.st.target
      BY <1>1, <1>4 DEF ReconcileStatefulSet, PassType, StatusType
    <2>4. OffersMeant(pass'.st)
      BY <2>2, <2>3 DEF StatusesMeant, OffersMeant
    <2> QED
      BY <2>1, <2>4 DEF StatusesMeant
  <1>5. CASE MoveSucceeded
    <2>1. AtJob("upgrade-primary-move") /\ "upgrade-primary-move" \in DOMAIN StageJob
      BY <1>5 DEF MoveSucceeded, StageJob
    <2>2. pass.st.state = "upgrade-primary-move"
      BY <2>1, WhereInTheLadder DEF Inductive, PassInItsStage
    <2>3. pass.st.target # None
      BY <2>2 DEF Inductive, StagesHaveTargets, Stages, NextStage
    <2>4. pass'.st = Moved(pass.st) /\ status' = status
      BY <1>1, <1>5 DEF MoveSucceeded, PassType
    <2> QED
      BY <1>1, <2>3, <2>4, MovedMeant DEF StatusesMeant
  <1>6. CASE /\ Operator \/ Abort
             /\ ~Initialize /\ ~RequestUpgrade /\ ~ReconcileStatefulSet /\ ~MoveSucceeded
    BY <1>6, MostStepsCopy, CopiesMeant
  <1>7. CASE User \/ Pods \/ PodFaults \/ Patroni \/ JobPods \/ JobFaults
    <2>1. EnvironmentStep
      BY <1>1, <1>7, UserStep, PodsStep, PatroniStep, JobsStep DEF User
    <2> QED
      BY <2>1, CopiesMeant DEF EnvironmentStep, Copies
  <1>8. CASE UNCHANGED vars
    BY <1>8, CopiesMeant DEF vars, operator, Copies
  <1> QED
    BY <1>2, <1>3, <1>4, <1>5, <1>6, <1>7, <1>8 DEF Next

LEMMA InitMeant == ASSUME Init PROVE StatusesMeant
  <1>1. OffersMeant(NoStatus) /\ NoPass.st = NoStatus
    BY DEF OffersMeant, NoStatus, NoPass
  <1> QED
    BY <1>1 DEF Init, StatusesMeant

(* Whatever the user wishes while an upgrade is under way, its target is   *)
(* one that the image of the cluster's version can upgrade to, until the   *)
(* cluster is at that target (patronipostgres_controller.go, Reconcile:    *)
(* the target is taken from status.upgradeVersions).                       *)
THEOREM TargetStaysSupported == Spec => []TargetSupported
  <1>1. Init => StatusesMeant
    BY InitMeant
  <1>2. StatusesMeant => TargetSupported
    BY DEF StatusesMeant, OffersMeant, TargetSupported
  <1> QED
    BY <1>1, <1>2, AlwaysInductive, StepMeant, PTL DEF Spec
=============================================================================
