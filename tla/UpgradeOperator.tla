--------------------------- MODULE UpgradeOperator ---------------------------
(***************************************************************************)
(* One PatroniPostgres object, the operator that reconciles it through     *)
(* creation and major version upgrades, and the part of the cluster it     *)
(* steers: the StatefulSet and its pods, the upgrade jobs, the service,    *)
(* Patroni's configuration and the data volumes.                           *)
(*                                                                         *)
(*   - A reconcile pass is a sequence of steps, one per API call that      *)
(*     changes something, so everything else may happen in between.  A     *)
(*     pass works on an in-memory copy of the status and only its last     *)
(*     step persists it: a pass that dies or whose write conflicts has     *)
(*     had its side effects and is run again from the old status.          *)
(*   - Pods, Patroni and the scripts of the jobs are the environment.      *)
(*   - A database is named by its major version: its system identifier,    *)
(*     its final checkpoint location and its initdb settings are new with  *)
(*     every upgrade, and the version tells them apart.                    *)
(*                                                                         *)
(* A definition marked (variant) is a faulty form of the one it precedes,  *)
(* used by no specification: README.md, "Sensitivity", says which property *)
(* notices it.                                                             *)
(***************************************************************************)
EXTENDS Integers, ImageRegistry

CONSTANTS
    N,                     \* number of nodes, len(Spec.Nodes); never edited here
    AvailableWhileRunning  \* is a pod counted available for as long as it exists?
                           \* FALSE is Kubernetes' rule (ready for MinReadySeconds)

ASSUME NAssumption == N \in Nat \ {0}
ASSUME AvailableAssumption == AvailableWhileRunning \in BOOLEAN

VARIABLES
    specVersion,  \* spec.version, edited by the user
    status,       \* the persisted status
    pass,         \* the reconcile pass in progress
    queued,       \* is the object in the controller's work queue?
    sts,          \* the cluster's StatefulSet, as far as it varies
    svcPort,      \* the port of the cluster's service
    pod,          \* the pods of the StatefulSet
    job,          \* the jobs of the stages
    sup,          \* the secondaries' jobs, one per node
    pstream,      \* the node whose volume the rsync streamer serves
    cm,           \* the annotations of Patroni's config and sync ConfigMaps
    vol           \* the data volumes

operator == <<pass, queued>>
objects  == <<sts, svcPort, job, sup, pstream, cm>>
cluster  == <<pod, vol>>
vars     == <<specVersion, status, operator, objects, cluster>>

-----------------------------------------------------------------------------
(* State space.                                                            *)

Nodes  == 0 .. N - 1
NoNode == -1

ClientPort      == 5432
MaintenancePort == 55432
Port == {None, ClientPort, MaintenancePort}

(* (variant) The ladder as the upgrade's README.md lists it.               *)
NextStageDocumented ==
    [s \in {"upgrade-preupgrade", "upgrade-preupgrade-sync", "upgrade-scaledown",
            "upgrade-primary", "upgrade-secondaries", "upgrade-primary-move",
            "upgrade-preupgrade-scaledown"} |->
        CASE s = "upgrade-preupgrade"           -> "upgrade-preupgrade-sync"
          [] s = "upgrade-preupgrade-scaledown" -> "upgrade-preupgrade-sync"
          [] s = "upgrade-preupgrade-sync"      -> "upgrade-scaledown"
          [] s = "upgrade-scaledown"            -> "upgrade-primary"
          [] s = "upgrade-primary"              -> "upgrade-secondaries"
          [] s = "upgrade-secondaries"          -> "upgrade-primary-move"
          [] s = "upgrade-primary-move"         -> "upgrade-postupgrade"]
(* The upgrade ladder, in order: each handler's successor.                 *)
NextStage ==
    [s \in {"upgrade-preupgrade", "upgrade-preupgrade-scaledown",
            "upgrade-preupgrade-sync", "upgrade-scaledown", "upgrade-primary",
            "upgrade-secondaries", "upgrade-primary-move"} |->
        CASE s = "upgrade-preupgrade"           -> "upgrade-preupgrade-scaledown"
          [] s = "upgrade-preupgrade-scaledown" -> "upgrade-preupgrade-sync"
          [] s = "upgrade-preupgrade-sync"      -> "upgrade-scaledown"
          [] s = "upgrade-scaledown"            -> "upgrade-primary"
          [] s = "upgrade-primary"              -> "upgrade-secondaries"
          [] s = "upgrade-secondaries"          -> "upgrade-primary-move"
          [] s = "upgrade-primary-move"         -> "upgrade-postupgrade"]

LastStage == "upgrade-postupgrade"
Stages    == DOMAIN NextStage \cup {LastStage}

(* The job a stage runs, when it runs one.                                 *)
StageJob ==
    [s \in {"upgrade-preupgrade", "upgrade-preupgrade-sync", "upgrade-primary",
            "upgrade-primary-move", "upgrade-postupgrade"} |->
        CASE s = "upgrade-preupgrade"      -> "preupgrade"
          [] s = "upgrade-preupgrade-sync" -> "preupgrade-sync"
          [] s = "upgrade-primary"         -> "up"
          [] s = "upgrade-primary-move"    -> "move"
          [] s = "upgrade-postupgrade"     -> "postupgrade"]

Jobs == {"preupgrade", "preupgrade-sync", "up", "move", "postupgrade"}

Version == Versions \cup {None}

StatusType ==
    [state : {"", "scaling", "ready"} \cup Stages,
     version : Version, target : Version, offers : SUBSET Versions]

NoStatus == [state |-> "", version |-> None, target |-> None, offers |-> {}]

(* Where a pass stands: Idle, or the call it makes next.                   *)
Points == {"initialize", "request", "enter", "service", "sts"} \cup Stages
          \cup {"syncService", "syncJob", "setDBId", "clients", "dropStream",
                "dropClients", "dropFailed", "postServiceReady", "postServiceWait",
                "postJob", "deleteDone", "deleteFailed", "clear", "save",
                "saveRequeue"}
Idle == "idle"

PassType ==
    [pc : Points \cup {Idle}, st : StatusType, stale : BOOLEAN,
     leader : Nodes \cup {NoNode}, drop : SUBSET Nodes]

NoPass ==
    [pc |-> Idle, st |-> NoStatus, stale |-> FALSE, leader |-> NoNode, drop |-> {}]

(* A job's phase says whether its status counts a success, a failure, or   *)
(* both ("mixed": one pod failed and its replacement succeeded).           *)
JobPhases == {"none", "active", "succeeded", "failed", "mixed"}

(* The arguments a job is created with and the result it logs.             *)
JobType ==
    [phase : JobPhases, node : Nodes \cup {NoNode}, from : Version, to : Version,
     id : Version, args : Version, ckpt : Version, newid : Version]
NoJob ==
    [phase |-> "none", node |-> NoNode, from |-> None, to |-> None,
     id |-> None, args |-> None, ckpt |-> None, newid |-> None]

(* A pod is absent, up (Patroni runs, its server does not yet), ready,     *)
(* available (ready for MinReadySeconds), or unready (its server runs, the *)
(* readiness probe fails).                                                 *)
PodPhases == {"none", "up", "ready", "available", "unready"}
NoPod == [phase |-> "none", version |-> None, port |-> None]
PodType == [phase : PodPhases, version : Version, port : Port]

(* A volume: the database in data/, the one in data.new/, and whether the  *)
(* last checkpoint of data/ is the shutdown checkpoint of that database    *)
(* (ckpt = data) or some other one (None).                                 *)
VolType == [data : Version, new : Version, ckpt : Version]

StsType == [replicas : {0, N}, port : Port, version : Version]

(* The annotations: system identifier, checkpoint location and initdb      *)
(* settings of the operator, pause and sync leader of Patroni.             *)
CmType ==
    [dbid : Version, ckpt : Version, initdb : Version, pause : BOOLEAN,
     leader : Nodes \cup {NoNode}]

TypeOK ==
    /\ specVersion \in Versions
    /\ status \in StatusType
    /\ pass \in PassType
    /\ queued \in BOOLEAN
    /\ sts \in StsType
    /\ svcPort \in Port
    /\ pod \in [Nodes -> PodType]
    /\ job \in [Jobs -> JobType]
    /\ sup \in [Nodes -> JobType]
    /\ pstream \in Nodes \cup {NoNode}
    /\ cm \in CmType
    /\ vol \in [Nodes -> VolType]

(* A PatroniPostgres object has just been created.                         *)
Init ==
    /\ specVersion \in Versions
    /\ status = NoStatus
    /\ pass = NoPass
    /\ queued = TRUE
    /\ sts = [replicas |-> 0, port |-> None, version |-> None]
    /\ svcPort = None
    /\ pod = [n \in Nodes |-> NoPod]
    /\ job = [j \in Jobs |-> NoJob]
    /\ sup = [n \in Nodes |-> NoJob]
    /\ pstream = NoNode
    /\ cm = [dbid |-> None, ckpt |-> None, initdb |-> None, pause |-> FALSE,
             leader |-> NoNode]
    /\ vol = [n \in Nodes |-> [data |-> None, new |-> None, ckpt |-> None]]

-----------------------------------------------------------------------------
(* What a pass reads.                                                      *)

(* (variant) Any job that is over counts.                                  *)
SucceededOrFailed(j) == job[j].phase \in {"succeeded", "mixed", "failed"}
(* job.Status.Succeeded > 0.                                               *)
Succeeded(j) == job[j].phase \in {"succeeded", "mixed"}
(* A pod of the job may be running: after a failure, its replacement.      *)
Running(j) == j.phase \in {"active", "failed"}

(* GetSyncLeader: with one node, node 0; else the one Patroni annotated.   *)
SyncLeader == IF N = 1 THEN 0 ELSE cm.leader

Serving(n) == pod[n].phase \in {"ready", "available"}

(* sts.Status.ReadyReplicas = len(Spec.Nodes).                             *)
AllReady == \A n \in Nodes : Serving(n)

(* What the StatefulSet controller counts in AvailableReplicas.            *)
CountedAvailable(n) ==
    IF AvailableWhileRunning THEN pod[n].phase # "none"
                             ELSE pod[n].phase = "available"

(* (variant) The handler does not wait.                                    *)
ScaledDownAtOnce == TRUE
(* done = sts.Status.AvailableReplicas == 0.                               *)
ScaledDown == \A n \in Nodes : ~CountedAvailable(n)

(* The volumes that get a secondary job.                                   *)
Secondaries(leader) == Nodes \ {leader}

(* (variant) The list of offered versions is not consulted.                *)
AnyTarget == Versions
(* (variant) The list is the one of the wanted version.                    *)
TargetsOfTheWanted == UpgradeVersions(specVersion)
(* The versions an upgrade may be requested to.                            *)
AllowedTargets == pass.st.offers

(* Where a pass starts: initialization, the upgrade requested earlier, a   *)
(* new request, or the ordinary chain of reconcilers.                      *)
EntryPoint ==
    IF status.state = "" THEN "initialize"
    ELSE IF status.target # None
         THEN IF status.state \in Stages THEN status.state ELSE "enter"
    ELSE IF status.state = "ready" /\ status.version # specVersion THEN "request"
    ELSE "service"

(* (variant) The last stage gets a successor of its own.                   *)
AdvanceUnnamed(st) ==
    [st EXCEPT !.state = IF st.state = LastStage THEN "upgrade-finished"
                                                 ELSE NextStage[st.state]]
(* A handler reported done: on to its successor, or the upgrade is over.   *)
Advance(st) ==
    IF st.state = LastStage THEN [st EXCEPT !.state = "ready", !.target = None]
                            ELSE [st EXCEPT !.state = NextStage[st.state]]

(* (variant) The version in the status stays.                              *)
MovedForgotten(st) == st
(* The move job succeeded: the cluster runs the new version from here on.  *)
Moved(st) == [st EXCEPT !.version = st.target]

-----------------------------------------------------------------------------
(* The operator: how a pass begins and ends.                               *)

Goto(pc)     == pass' = [pass EXCEPT !.pc = pc]
EndWithError == pass' = NoPass /\ queued' = TRUE

(* A handler returned done before the deferred status update.              *)
Done == pass' = [pass EXCEPT !.st = Advance(pass.st), !.pc = "saveRequeue"]

Begin ==
    /\ pass.pc = Idle
    /\ queued
    /\ queued' = FALSE
    /\ pass' = [NoPass EXCEPT !.pc = EntryPoint, !.st = status]
    /\ UNCHANGED <<specVersion, status, objects, cluster>>

(* Optimistic concurrency: the status update conflicts once the object has *)
(* changed since the pass read it.                                         *)
Unchallenged == ~pass.stale

(* (variant) A handler that is done waits for the next event.              *)
NeverRequeued == FALSE
(* A handler that is done asks for another pass.                           *)
Requeued == pass.pc = "saveRequeue"

(* The deferred status update.                                             *)
Save ==
    /\ pass.pc \in {"save", "saveRequeue"}
    /\ IF Unchallenged
       THEN /\ status' = pass.st
            /\ pass' = NoPass
            /\ queued' = (queued \/ Requeued)
       ELSE EndWithError /\ UNCHANGED status
    /\ UNCHANGED <<specVersion, objects, cluster>>

(* Any call of a pass may fail, conflict, or be the last of an operator    *)
(* that crashes or loses its leadership; a read may find nothing where the *)
(* handler needs something (no sync leader, no pod to take a log from).    *)
Abort ==
    /\ pass.pc # Idle
    /\ EndWithError
    /\ UNCHANGED <<specVersion, status, objects, cluster>>

-----------------------------------------------------------------------------
(* The operator: creation and the ordinary chain.                          *)

(* The first status, written at once; the pass then goes on with it.       *)
Initialize ==
    /\ pass.pc = "initialize"
    /\ Unchallenged
    /\ GetImage(specVersion) # None
    /\ status' = [NoStatus EXCEPT !.state = "scaling", !.version = specVersion]
    /\ pass' = [pass EXCEPT !.st = status', !.pc = "service"]
    /\ UNCHANGED <<specVersion, queued, objects, cluster>>

RequestUpgrade ==
    /\ pass.pc = "request"
    /\ specVersion \in AllowedTargets
    /\ SyncLeader # NoNode
    /\ pass' = [pass EXCEPT !.st.target = specVersion, !.pc = "saveRequeue"]
    /\ UNCHANGED <<specVersion, status, queued, objects, cluster>>

RejectUpgrade ==
    /\ pass.pc = "request"
    /\ specVersion \notin AllowedTargets \/ SyncLeader = NoNode
    /\ EndWithError
    /\ UNCHANGED <<specVersion, status, objects, cluster>>

(* Handle, in a state that is no stage yet.                                *)
EnterUpgrade ==
    /\ pass.pc = "enter"
    /\ pass' = [pass EXCEPT !.st.state = "upgrade-preupgrade", !.pc = "saveRequeue"]
    /\ UNCHANGED <<specVersion, status, queued, objects, cluster>>

SetService(port) ==
    /\ svcPort' = port
    /\ UNCHANGED <<specVersion, status, queued, sts, job, sup, pstream, cm, cluster>>

(* ReconcileSts; port and the preStop hook go together in its patches.     *)
SetSts(port) ==
    /\ sts' = [replicas |-> N, port |-> port, version |-> pass.st.version]
    /\ UNCHANGED <<specVersion, status, queued, svcPort, job, sup, pstream, cm, cluster>>

ReconcileService == pass.pc = "service" /\ SetService(ClientPort) /\ Goto("sts")

(* Upgrades are offered only by a pass that finds every pod ready.         *)
ReconcileStatefulSet ==
    /\ pass.pc = "sts"
    /\ SetSts(ClientPort)
    /\ pass' = [pass EXCEPT !.pc = "save",
           !.st.state = IF AllReady THEN "ready" ELSE "scaling",
           !.st.offers = IF AllReady THEN UpgradeVersions(pass.st.version) ELSE @]

-----------------------------------------------------------------------------
(* The operator: what the stages with a job have in common.                *)

(* The job a stage's handler gets, and the point where it gets it.         *)
JobPoint ==
    [s \in DOMAIN StageJob |->
        CASE s = "upgrade-preupgrade-sync" -> "syncJob"
          [] s = "upgrade-postupgrade"     -> "postJob"
          [] OTHER                         -> s]

AtJob(s) == pass.pc = JobPoint[s]

SetJob(j, record) ==
    /\ job' = [job EXCEPT ![j] = record]
    /\ UNCHANGED <<specVersion, status, sts, svcPort, sup, pstream, cm, cluster>>

(* Get found nothing: the job is created and looked at in a later pass.    *)
CreateJob(j, record) ==
    /\ job[j].phase = "none"
    /\ SetJob(j, [record EXCEPT !.phase = "active"])
    /\ Goto("save")
    /\ UNCHANGED queued

(* ensureUpgradeJob, of the stages that talk to the running database.      *)
EnsureUpgradeJob(s) ==
    /\ s \in {"upgrade-preupgrade", "upgrade-preupgrade-sync", "upgrade-postupgrade"}
    /\ AtJob(s)
    /\ CreateJob(StageJob[s], NoJob)

WaitForJob(s) ==
    /\ AtJob(s)
    /\ job[StageJob[s]].phase = "active"
    /\ Goto("save")
    /\ UNCHANGED <<specVersion, status, queued, objects, cluster>>

JobFailed(s) ==
    /\ AtJob(s)
    /\ job[StageJob[s]].phase = "failed"
    /\ Goto("deleteFailed")
    /\ UNCHANGED <<specVersion, status, queued, objects, cluster>>

(* A failure counted beside the success makes the handler end in error,    *)
(* after everything it does for the success.                               *)
AfterSuccess(j) == IF job[j].phase = "mixed" THEN "deleteFailed" ELSE "deleteDone"

(* The sync and postupgrade jobs have no result to read.                   *)
JobSucceeded(s) ==
    /\ s \in {"upgrade-preupgrade-sync", "upgrade-postupgrade"}
    /\ AtJob(s)
    /\ Succeeded(StageJob[s])
    /\ Goto(AfterSuccess(StageJob[s]))
    /\ UNCHANGED <<specVersion, status, queued, objects, cluster>>

(* (variant) Nothing is deleted.                                           *)
DeletedLater(j) == job[j]
(* What is left of a job that was deleted.                                 *)
Deleted(j) == NoJob

DeleteSucceededJob ==
    /\ pass.pc = "deleteDone"
    /\ SetJob(StageJob[pass.st.state], Deleted(StageJob[pass.st.state]))
    /\ pass' = [pass EXCEPT !.st = Advance(pass.st),
           !.pc = IF pass.st.state = LastStage THEN "clear" ELSE "saveRequeue"]
    /\ UNCHANGED queued

DeleteFailedJob ==
    /\ pass.pc = "deleteFailed"
    /\ SetJob(StageJob[pass.st.state], NoJob)
    /\ EndWithError

-----------------------------------------------------------------------------
(* The operator: the stages.                                               *)

SetConfig(annotations) ==
    /\ cm' = annotations
    /\ UNCHANGED <<specVersion, status, queued, sts, svcPort, job, sup, pstream, cluster>>

(* (variant) The ConfigMap is not updated.                                 *)
SettingsForgotten == cm
(* SetPrimaryInitdbArgs.                                                   *)
SettingsRecorded == [cm EXCEPT !.initdb = job["preupgrade"].args]

(* preupgrade: the settings of the running database are kept for initdb;   *)
(* the job reports no settings (None) when prepared transactions forbid it.*)
PreupgradeAccept ==
    /\ AtJob("upgrade-preupgrade")
    /\ Succeeded("preupgrade")
    /\ job["preupgrade"].args # None
    /\ SetConfig(SettingsRecorded)
    /\ Goto(AfterSuccess("preupgrade"))

PreupgradeRefuse ==
    /\ AtJob("upgrade-preupgrade")
    /\ Succeeded("preupgrade")
    /\ job["preupgrade"].args = None
    /\ Goto("deleteFailed")
    /\ UNCHANGED <<specVersion, status, queued, objects, cluster>>

(* scaledown, which is preupgrade-scaledown as well.                       *)
ScaleDown ==
    /\ pass.pc \in {"upgrade-preupgrade-scaledown", "upgrade-scaledown"}
    /\ sts' = [sts EXCEPT !.replicas = 0]
    /\ IF ScaledDown THEN Done ELSE Goto("save")
    /\ UNCHANGED <<specVersion, status, queued, svcPort, job, sup, pstream, cm, cluster>>

(* Shortcut of preupgrade-sync and of secondaries for one member.          *)
SkipSingleNode ==
    /\ pass.pc \in {"upgrade-preupgrade-sync", "upgrade-secondaries"}
    /\ N = 1
    /\ Done
    /\ UNCHANGED <<specVersion, status, queued, objects, cluster>>

(* preupgrade-sync: the cluster comes back on the maintenance port.        *)
SyncStartCluster ==
    /\ pass.pc = "upgrade-preupgrade-sync"
    /\ N # 1
    /\ SetSts(MaintenancePort)
    /\ Goto("syncService")

SyncService == pass.pc = "syncService" /\ SetService(MaintenancePort) /\ Goto("syncJob")

(* primary: the job that runs pg_upgrade on the leader's volume.           *)
CreatePrimaryJob ==
    /\ AtJob("upgrade-primary")
    /\ SyncLeader # NoNode
    /\ cm.dbid # None
    /\ CreateJob("up", [NoJob EXCEPT !.node = SyncLeader, !.from = pass.st.version,
           !.to = pass.st.target, !.id = cm.dbid, !.args = cm.initdb])

(* Its result: the final checkpoint of the old database, unless the run    *)
(* that logged it found the upgrade done already, then the new identity.   *)
PrimaryRecordCheckpoint ==
    /\ AtJob("upgrade-primary")
    /\ Succeeded("up")
    /\ SetConfig([cm EXCEPT !.ckpt = IF job["up"].ckpt = None THEN @ ELSE job["up"].ckpt])
    /\ Goto("setDBId")

(* (variant) Patroni is not resumed.                                       *)
IdentifiedStillPaused == [cm EXCEPT !.dbid = job["up"].newid]
(* (variant) Patroni is resumed, the identity stays.                       *)
ResumedUnidentified == [cm EXCEPT !.pause = FALSE]
(* SetDBId sets the new identity and resumes Patroni in one update.        *)
Identified == [cm EXCEPT !.dbid = job["up"].newid, !.pause = FALSE]

PrimarySetDBId ==
    /\ pass.pc = "setDBId"
    /\ SetConfig(Identified)
    /\ Goto(AfterSuccess("up"))

(* secondaries: the streamer on the leader's volume comes first.           *)
EnsureStreamer ==
    /\ pass.pc = "upgrade-secondaries"
    /\ N # 1
    /\ SyncLeader # NoNode
    /\ pstream' = IF pstream = NoNode THEN SyncLeader ELSE pstream
    /\ pass' = [pass EXCEPT !.leader = SyncLeader, !.pc = "clients"]
    /\ UNCHANGED <<specVersion, status, queued, sts, svcPort, job, sup, cm, cluster>>

StreamArgsKnown == cm.ckpt # None /\ cm.dbid # None

(* Without the checkpoint and the identity nothing can be streamed.        *)
NoStreamArgs ==
    /\ pass.pc = "clients"
    /\ ~StreamArgsKnown
    /\ EndWithError
    /\ UNCHANGED <<specVersion, status, objects, cluster>>

Missing == {n \in Secondaries(pass.leader) : sup[n].phase = "none"}

(* One job per secondary, created in the order of the volumes.             *)
CreateSecondaryJob ==
    /\ pass.pc = "clients"
    /\ StreamArgsKnown
    /\ \E n \in Missing :
        /\ \A m \in Missing : n <= m
        /\ sup' = [sup EXCEPT ![n] = [NoJob EXCEPT !.phase = "active", !.node = n,
               !.from = pass.st.version, !.to = pass.st.target,
               !.id = cm.dbid, !.ckpt = cm.ckpt]]
    /\ UNCHANGED <<specVersion, status, operator, sts, svcPort, job, pstream, cm, cluster>>

SecondarySucceeded(n) == sup[n].phase \in {"succeeded", "mixed"}

(* (variant) A job that counts a failure as well is left.                  *)
CleanedUpUnlessFailed(all) == {n \in all : sup[n].phase = "succeeded"}
(* The jobs deleted when all of them succeeded.                            *)
CleanedUp(all) == all

(* Every job exists: the failed ones are deleted, or all of them succeeded *)
(* and are cleaned up with the streamer, or some still run.                *)
CheckSecondaryJobs ==
    /\ pass.pc = "clients"
    /\ StreamArgsKnown
    /\ Missing = {}
    /\ LET all    == Secondaries(pass.leader)
           failed == {n \in all : sup[n].phase = "failed"}
       IN  pass' = IF failed # {}
                   THEN [pass EXCEPT !.pc = "dropFailed", !.drop = failed]
                   ELSE IF \A n \in all : SecondarySucceeded(n)
                   THEN [pass EXCEPT !.pc = "dropStream", !.drop = CleanedUp(all)]
                   ELSE [pass EXCEPT !.pc = "save"]
    /\ UNCHANGED <<specVersion, status, queued, objects, cluster>>

DeleteStreamer ==
    /\ pass.pc = "dropStream"
    /\ pstream' = NoNode
    /\ Goto("dropClients")
    /\ UNCHANGED <<specVersion, status, queued, sts, svcPort, job, sup, cm, cluster>>

(* The jobs to delete go one by one; after the last one the handler is     *)
(* done, or reports the failure.                                           *)
DeleteSecondaryJob ==
    /\ pass.pc \in {"dropClients", "dropFailed"}
    /\ \E n \in pass.drop :
        /\ \A m \in pass.drop : n <= m
        /\ sup' = [sup EXCEPT ![n] = NoJob]
        /\ pass' = [pass EXCEPT !.drop = @ \ {n}]
    /\ UNCHANGED <<specVersion, status, queued, sts, svcPort, job, pstream, cm, cluster>>

SecondaryJobsDeleted ==
    /\ pass.pc \in {"dropClients", "dropFailed"}
    /\ pass.drop = {}
    /\ IF pass.pc = "dropClients" THEN Done /\ UNCHANGED queued ELSE EndWithError
    /\ UNCHANGED <<specVersion, status, objects, cluster>>

(* primary-move: data.new on the leader's volume becomes data.             *)
CreateMoveJob ==
    /\ AtJob("upgrade-primary-move")
    /\ SyncLeader # NoNode
    /\ CreateJob("move", [NoJob EXCEPT !.node = SyncLeader])

MoveSucceeded ==
    /\ AtJob("upgrade-primary-move")
    /\ Succeeded("move")
    /\ pass' = [pass EXCEPT !.st = Moved(pass.st), !.pc = AfterSuccess("move")]
    /\ UNCHANGED <<specVersion, status, queued, objects, cluster>>

(* postupgrade: the cluster starts on the new version, for its clients;    *)
(* the job waits until the StatefulSet just updated counts all pods ready. *)
PostStartCluster ==
    /\ pass.pc = "upgrade-postupgrade"
    /\ SetSts(ClientPort)
    /\ Goto(IF AllReady THEN "postServiceReady" ELSE "postServiceWait")

PostService ==
    /\ pass.pc \in {"postServiceReady", "postServiceWait"}
    /\ SetService(ClientPort)
    /\ Goto(IF pass.pc = "postServiceReady" THEN "postJob" ELSE "save")

(* (variant) The checkpoint location is left.                              *)
ClearedArgsOnly == [cm EXCEPT !.initdb = None]
(* ClearUpgradeAnnotations removes both annotations of the upgrade.        *)
Cleared == [cm EXCEPT !.initdb = None, !.ckpt = None]

ClearAnnotations == pass.pc = "clear" /\ SetConfig(Cleared) /\ Goto("saveRequeue")

-----------------------------------------------------------------------------
(* The environment: the user, held by the admission policy.                *)

SetVersion(v) ==
    /\ status.state # ""
    /\ v # specVersion
    /\ v = status.version \/ v \in status.offers
    /\ specVersion' = v
    /\ queued' = TRUE
    /\ pass' = [pass EXCEPT !.stale = (pass.pc # Idle)]
    /\ UNCHANGED <<status, objects, cluster>>

-----------------------------------------------------------------------------
(* The environment: the StatefulSet's pods.  Each change of the            *)
(* StatefulSet's or a job's status is an event the operator watches.       *)

PodChange(n, record) ==
    /\ pod' = [pod EXCEPT ![n] = record]
    /\ queued' = TRUE
    /\ UNCHANGED <<specVersion, status, pass, objects>>

(* A pod whose containers run may be writing to its volume's data.         *)
Outdated(n) == sts.replicas = 0 \/ pod[n].version # sts.version \/ pod[n].port # sts.port

PodStart(n) ==
    /\ pod[n].phase = "none"
    /\ sts.replicas = N
    /\ PodChange(n, [phase |-> "up", version |-> sts.version, port |-> sts.port])
    /\ UNCHANGED vol

(* A server that runs leaves no shutdown checkpoint behind.                *)
Dirty(n) == vol' = [vol EXCEPT ![n].ckpt = None]

(* The server is up: on a database of its own version and identity, as the *)
(* leader or following a leader that serves.  A paused Patroni does not    *)
(* start the server of the leader.                                         *)
PodReady(n) ==
    /\ pod[n].phase = "up"
    /\ vol[n].data # None
    /\ vol[n].data = pod[n].version
    /\ vol[n].data = cm.dbid
    /\ IF n = cm.leader THEN ~cm.pause ELSE cm.leader # NoNode /\ Serving(cm.leader)
    /\ PodChange(n, [pod[n] EXCEPT !.phase = "ready"])
    /\ Dirty(n)

PodAvailable(n) ==
    /\ ~AvailableWhileRunning
    /\ pod[n].phase = "ready"
    /\ PodChange(n, [pod[n] EXCEPT !.phase = "available"])
    /\ UNCHANGED vol

(* The readiness probe fails while the server goes on running, ...         *)
PodUnready(n) ==
    /\ Serving(n)
    /\ PodChange(n, [pod[n] EXCEPT !.phase = "unready"])
    /\ UNCHANGED vol

(* ... and succeeds again.                                                 *)
PodRecovers(n) ==
    /\ pod[n].phase = "unready"
    /\ PodChange(n, [pod[n] EXCEPT !.phase = "ready"])
    /\ UNCHANGED vol

(* The shutdown checkpoints a pod may leave: the leader's server writes    *)
(* one; a replica that runs the preStop hook has the leader's if the       *)
(* leader stopped first and left it time to stream it.                     *)
LeavesCheckpoint(n) ==
    IF pod[n].phase = "up" THEN {vol[n].ckpt}
    ELSE IF n = cm.leader THEN {vol[n].data}
    ELSE IF /\ pod[n].port = MaintenancePort
            /\ cm.leader # NoNode
            /\ pod[cm.leader].phase = "none"
            /\ vol[cm.leader].ckpt = vol[n].data
         THEN {vol[n].data, None} ELSE {None}

PodStop(n) ==
    /\ pod[n].phase # "none"
    /\ Outdated(n)
    /\ PodChange(n, NoPod)
    /\ \E c \in LeavesCheckpoint(n) : vol' = [vol EXCEPT ![n].ckpt = c]

(* The pod is killed, evicted or lost with its node.                       *)
PodLost(n) ==
    /\ pod[n].phase # "none"
    /\ PodChange(n, NoPod)
    /\ Dirty(n)

-----------------------------------------------------------------------------
(* The environment: Patroni.                                               *)

PatroniChange(annotations, n, volume) ==
    /\ cm' = annotations
    /\ vol' = [vol EXCEPT ![n] = volume]
    /\ UNCHANGED <<specVersion, status, operator, sts, svcPort, job, sup, pstream, pod>>

(* The first pod up initialises the cluster.                               *)
Bootstrap(n) ==
    /\ pod[n].phase = "up"
    /\ cm.dbid = None
    /\ PatroniChange([cm EXCEPT !.dbid = pod[n].version, !.leader = n], n,
                     [data |-> pod[n].version, new |-> None, ckpt |-> None])

(* Failover; none while Patroni is paused.                                 *)
AcquireLeader(n) ==
    /\ ~cm.pause
    /\ cm.leader \notin {NoNode, n}
    /\ ~Serving(cm.leader)
    /\ pod[n].phase # "none"
    /\ vol[n].data # None
    /\ vol[n].data = pod[n].version
    /\ vol[n].data = cm.dbid
    /\ PatroniChange([cm EXCEPT !.leader = n], n, [vol[n] EXCEPT !.ckpt = None])

(* A node without a database copies the leader's.                          *)
Clone(n) ==
    /\ pod[n].phase = "up"
    /\ vol[n].data = None
    /\ cm.leader # NoNode
    /\ Serving(cm.leader)
    /\ pod[n].version = vol[cm.leader].data
    /\ PatroniChange(cm, n, [vol[n] EXCEPT !.data = vol[cm.leader].data, !.ckpt = None])

-----------------------------------------------------------------------------
(* The environment: the pods of the jobs.                                  *)

(* A pod of a job succeeded, maybe the replacement of one that failed.     *)
Finished(record) ==
    [record EXCEPT !.phase = IF record.phase = "failed" THEN "mixed" ELSE "succeeded"]

JobChange(j, record) ==
    /\ job' = [job EXCEPT ![j] = record]
    /\ queued' = TRUE
    /\ UNCHANGED <<specVersion, status, pass, sts, svcPort, sup, pstream, pod>>

(* Can a job reach the leader's server through the service?                *)
Reachable(port) ==
    /\ svcPort = port
    /\ SyncLeader # NoNode
    /\ Serving(SyncLeader)
    /\ pod[SyncLeader].port = port

(* Reads the settings; prepared transactions may be in use.                *)
PreupgradeRun ==
    /\ Running(job["preupgrade"])
    /\ Reachable(ClientPort)
    /\ \E args \in {None, vol[SyncLeader].data} :
        JobChange("preupgrade", [Finished(job["preupgrade"]) EXCEPT !.args = args])
    /\ UNCHANGED <<cm, vol>>

(* Every replica has caught up; the last thing the job does is to pause    *)
(* Patroni, and it may fail after the request took effect.                 *)
SyncRun ==
    /\ Running(job["preupgrade-sync"])
    /\ Reachable(MaintenancePort)
    /\ AllReady
    /\ \E after \in {Finished(job["preupgrade-sync"]),
                     [job["preupgrade-sync"] EXCEPT !.phase = "failed"]} :
        JobChange("preupgrade-sync", after)
    /\ cm' = [cm EXCEPT !.pause = TRUE]
    /\ UNCHANGED vol

PostupgradeRun ==
    /\ Running(job["postupgrade"])
    /\ Reachable(ClientPort)
    /\ JobChange("postupgrade", Finished(job["postupgrade"]))
    /\ UNCHANGED <<cm, vol>>

(* What primary-upgrade asks of the volume before it touches it: the old   *)
(* version and identity, and (pg_upgrade) a clean shutdown.                *)
Upgradable(j) ==
    /\ vol[j.node].new = None
    /\ vol[j.node].data = j.from
    /\ j.from = j.id
    /\ vol[j.node].ckpt = j.from

(* pg_upgrade builds data.new beside data; when it is found built already  *)
(* the script only reports its identity.                                   *)
UpRun ==
    LET j == job["up"] IN
    /\ Running(j)
    /\ \/ /\ Upgradable(j)
          /\ vol' = [vol EXCEPT ![j.node].new = j.to]
          /\ JobChange("up", [Finished(j) EXCEPT !.ckpt = j.from, !.newid = j.to])
       \/ /\ vol[j.node].new # None
          /\ JobChange("up", [Finished(j) EXCEPT !.newid = vol[j.node].new])
          /\ UNCHANGED vol
    /\ UNCHANGED cm

(* The script is killed after pg_upgrade and before its output; its        *)
(* container is restarted, or the job has failed.                          *)
UpKilled ==
    LET j == job["up"] IN
    /\ Running(j)
    /\ Upgradable(j)
    /\ vol' = [vol EXCEPT ![j.node].new = j.to]
    /\ \E phase \in {j.phase, "failed"} : JobChange("up", [j EXCEPT !.phase = phase])
    /\ UNCHANGED cm

SupChange(n, record) ==
    /\ sup' = [sup EXCEPT ![n] = record]
    /\ queued' = TRUE
    /\ UNCHANGED <<specVersion, status, pass, sts, svcPort, job, pstream, cm, pod>>

(* secondary-upgrade: nothing to do on an upgraded volume; in place from   *)
(* the streamer when the volume is at the leader's final checkpoint; else  *)
(* the volume is emptied, for Patroni to clone.  On a volume that has been *)
(* emptied the script does not get past reading PG_VERSION (set -e).       *)
SupRun(n) ==
    LET j == sup[n]
        inPlace == vol[n].data = j.from /\ vol[n].ckpt = j.ckpt
    IN
    /\ Running(j)
    /\ \/ /\ vol[n].data = j.to
          /\ UNCHANGED vol
       \/ /\ vol[n].data # j.to
          /\ inPlace
          /\ pstream \notin {NoNode, n}
          /\ vol[pstream].new # None
          /\ vol' = [vol EXCEPT ![n] =
                        [data |-> vol[pstream].new, new |-> None, ckpt |-> None]]
       \/ /\ vol[n].data \notin {j.to, None}
          /\ ~inPlace
          /\ vol' = [vol EXCEPT ![n] = [data |-> None, new |-> None, ckpt |-> None]]
    /\ SupChange(n, Finished(j))

(* (variant) data is removed without a look at data.new.                   *)
MovedBlindly(v) == [data |-> v.new, new |-> None, ckpt |-> None]
(* primary-upgrade-move: does nothing when there is no data.new.           *)
MovedVolume(v) ==
    IF v.new = None THEN v ELSE [data |-> v.new, new |-> None, ckpt |-> None]

MoveRun ==
    LET j == job["move"] IN
    /\ Running(j)
    /\ vol' = [vol EXCEPT ![j.node] = MovedVolume(@)]
    /\ JobChange("move", Finished(j))
    /\ UNCHANGED cm

(* The deadline or the retries of a job are used up, or a pod was evicted. *)
JobFails(j) ==
    /\ job[j].phase = "active"
    /\ JobChange(j, [job[j] EXCEPT !.phase = "failed"])
    /\ UNCHANGED <<cm, vol>>

SupFails(n) ==
    /\ sup[n].phase = "active"
    /\ SupChange(n, [sup[n] EXCEPT !.phase = "failed"])
    /\ UNCHANGED vol

-----------------------------------------------------------------------------
(* The system.                                                             *)

Stage(s) == EnsureUpgradeJob(s) \/ WaitForJob(s) \/ JobFailed(s) \/ JobSucceeded(s)

Operator ==
    \/ Begin \/ Save
    \/ Initialize \/ RequestUpgrade \/ RejectUpgrade \/ EnterUpgrade
    \/ ReconcileService \/ ReconcileStatefulSet
    \/ \E s \in DOMAIN StageJob : Stage(s)
    \/ DeleteSucceededJob \/ DeleteFailedJob
    \/ PreupgradeAccept \/ PreupgradeRefuse
    \/ ScaleDown \/ SkipSingleNode \/ SyncStartCluster \/ SyncService
    \/ CreatePrimaryJob \/ PrimaryRecordCheckpoint \/ PrimarySetDBId
    \/ EnsureStreamer \/ NoStreamArgs \/ CreateSecondaryJob \/ CheckSecondaryJobs
    \/ DeleteStreamer \/ DeleteSecondaryJob \/ SecondaryJobsDeleted
    \/ CreateMoveJob \/ MoveSucceeded
    \/ PostStartCluster \/ PostService \/ ClearAnnotations

Pods ==
    \E n \in Nodes :
        PodStart(n) \/ PodReady(n) \/ PodRecovers(n) \/ PodAvailable(n) \/ PodStop(n)

Patroni ==
    \E n \in Nodes : Bootstrap(n) \/ AcquireLeader(n) \/ Clone(n)

JobPods ==
    \/ PreupgradeRun \/ SyncRun \/ PostupgradeRun \/ UpRun \/ MoveRun
    \/ \E n \in Nodes : SupRun(n)

PodFaults == \E n \in Nodes : PodUnready(n) \/ PodLost(n)
JobFaults == UpKilled \/ (\E j \in Jobs : JobFails(j)) \/ (\E n \in Nodes : SupFails(n))

User == \E v \in Versions : SetVersion(v)

Next == Operator \/ Abort \/ User \/ Pods \/ Patroni \/ JobPods \/ PodFaults \/ JobFaults

Spec == Init /\ [][Next]_vars

-----------------------------------------------------------------------------
(* Safety.                                                                 *)

(* A database server and an upgrade script never work on one volume, nor   *)
(* do two scripts: the stages of the ladder keep pods and jobs apart       *)
(* whatever fails, is retried or is lost (scaledown.go, primary.go,        *)
(* secondary.go, primary-move.go).                                         *)
VolumeExclusive ==
    \A n \in Nodes :
        LET scripts == {j \in {"up", "move"} : Running(job[j]) /\ job[j].node = n}
                       \cup {s \in {"sup"} : Running(sup[n])}
        IN  /\ pod[n].phase # "none" => scripts = {} /\ pstream # n
            /\ \A i, j \in scripts : i = j

(* A pod never runs with the binaries of another version than the database *)
(* on its volume: the version is changed only together with the data.      *)
MatchingBinaries ==
    \A n \in Nodes :
        pod[n].phase # "none" => vol[n].data \in {None, pod[n].version}

(* Once the cluster is initialised, the volume of the leader the operator  *)
(* would use holds the database, whatever a stage does to the volumes.     *)
LeaderHasDatabase ==
    cm.dbid # None => SyncLeader # NoNode /\ vol[SyncLeader].data # None

(* From the moment the replicas are brought in sync until the upgraded     *)
(* cluster starts, no server listens where its clients would find it.      *)
ClientsShutOut ==
    status.state \in {"upgrade-preupgrade-sync", "upgrade-scaledown",
                      "upgrade-primary", "upgrade-secondaries", "upgrade-primary-move"}
        => \A n \in Nodes : pod[n].phase # "none" => pod[n].port = MaintenancePort

(* A job exists only in the stage that runs it, and so does the streamer:  *)
(* a stage leaves nothing behind that a later stage, or the next upgrade,  *)
(* would take for its own (Handle persists the next state only after the   *)
(* handler's cleanup).                                                     *)
JobsInTheirStage ==
    /\ \A s \in DOMAIN StageJob : job[StageJob[s]].phase # "none" => status.state = s
    /\ pstream # NoNode => status.state = "upgrade-secondaries"

(* The same of the secondaries' jobs, which are found by the index of a    *)
(* node and the leader's identity at the time (secondary.go).              *)
SecondaryJobsInTheirStage ==
    \A n \in Nodes : sup[n].phase # "none" => status.state = "upgrade-secondaries"

(* The secondaries compare their checkpoint with the one their leader had  *)
(* when it was upgraded, never with one of an earlier upgrade.             *)
CheckpointFresh ==
    \A n \in Nodes : sup[n].phase # "none" =>
        /\ sup[n].ckpt = sup[n].from
        /\ sup[n].from = vol[SyncLeader].data
        /\ sup[n].to = vol[SyncLeader].new

(* pg_upgrade's new cluster is initialised with the settings that were     *)
(* read from the very database it upgrades.                                *)
InitdbArgsKnown ==
    job["up"].phase # "none" => job["up"].args = job["up"].from

(* Patroni is paused only on the way down: the upgraded cluster never      *)
(* starts paused, nor does a paused cluster serve its clients.             *)
PausedOnTheWayDown ==
    cm.pause => status.state \in {"upgrade-preupgrade-sync", "upgrade-scaledown",
                                  "upgrade-primary"}

(* The identity Patroni checks its members against is that of the leader's *)
(* database whenever a pod runs.                                           *)
IdentityKnown ==
    (cm.dbid # None /\ \E n \in Nodes : pod[n].phase # "none")
        => cm.dbid = vol[SyncLeader].data

(* An upgrade under way has a target the image in use ships binaries for,  *)
(* until the cluster is at that target.                                    *)
TargetSupported ==
    status.target # None =>
        status.version = status.target \/ status.target \in UpgradeVersions(status.version)

(* Nothing runs on the volumes once the scaledown stage is left            *)
(* (upgrade/README.md, "Scaledown": "Database is stopped in this phase.").  *)
DatabaseStopped ==
    status.state \in {"upgrade-primary", "upgrade-secondaries", "upgrade-primary-move"}
        => \A n \in Nodes : pod[n].phase = "none"

(* The operator's version of the cluster changes only once the leader's    *)
(* database has it and nothing runs (primary-move.go).                     *)
VersionFollowsData ==
    [][ (status.version # None /\ status'.version # status.version) =>
        /\ vol[SyncLeader].data = status'.version
        /\ \A n \in Nodes : pod[n].phase = "none" ]_vars
=============================================================================
