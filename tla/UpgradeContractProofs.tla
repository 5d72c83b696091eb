------------------------ MODULE UpgradeContractProofs ------------------------
(***************************************************************************)
(* UpgradeOperator implements UpgradeContract, for every number of nodes,  *)
(* when a pod counts as available while it exists.  The invariant of       *)
(* UpgradeSafetyProofs says where the database is at every step.           *)
(***************************************************************************)
EXTENDS MCUpgradeOperator, UpgradeSafetyProofs

-----------------------------------------------------------------------------
(* The version of the database, as the contract sees it.                   *)

LEMMA DatabaseVersionIs ==
    ASSUME Invariant
    PROVE  /\ cm.dbid = None => DatabaseVersion = None
           /\ cm.dbid # None =>
                 DatabaseVersion = IF vol[cm.leader].new # None THEN vol[cm.leader].new
                                   ELSE vol[cm.leader].data
           /\ cm.dbid # None /\ status.state \notin Down => DatabaseVersion = status.version
           /\ cm.dbid # None /\ status.state \in {"upgrade-secondaries", "upgrade-primary-move"} =>
                 DatabaseVersion = status.target
  <1>1. CASE cm.dbid = None
    <2>1. NoDatabase(status)
      BY <1>1, InvariantFits DEF Fits, Stored
    <2>2. SyncLeader = NoNode \/ SyncLeader \in Nodes
      BY <2>1, NAssumption DEF NoDatabase, SyncLeader, Nodes
    <2> QED
      BY <1>1, <2>1, <2>2 DEF NoDatabase, DatabaseVersion
  <1>2. CASE cm.dbid # None
    <2>1. DatabaseVersion = IF vol[cm.leader].new # None THEN vol[cm.leader].new
                            ELSE vol[cm.leader].data
      BY <1>2, InvariantFits DEF DatabaseVersion
    <2>2. status.state \in Stages => status.target # None
      BY DEF Invariant, Inductive, StagesHaveTargets
    <2> QED
      BY <1>2, <2>1, <2>2, InvariantFits DEF LeaderDatabase, Down, Stages, NextStage
  <1> QED
    BY <1>1, <1>2

(* A server that listens for clients has the declared version's database.  *)
OpenAtItsVersion ==
    SomeServerForClients =>
        /\ status.state \notin ShutStages
        /\ DatabaseVersion = status.version
        /\ DatabaseVersion # None

LEMMA OpenOnlyAtItsVersion == ASSUME Invariant PROVE OpenAtItsVersion
  <1> SUFFICES ASSUME SomeServerForClients
               PROVE  /\ status.state \notin ShutStages
                      /\ DatabaseVersion = status.version /\ DatabaseVersion # None
    BY DEF OpenAtItsVersion
  <1>1. PICK n \in Nodes :
          pod[n].phase \in {"ready", "available", "unready"} /\ pod[n].port = ClientPort
    BY DEF SomeServerForClients
  <1>2. Fits(status)
    BY InvariantFits
  <1>3. status.state \notin Down \cup {"", "upgrade-preupgrade-sync", "upgrade-scaledown"}
    <2>1. pod[n].phase # "none" /\ pod[n].port # MaintenancePort
      BY <1>1 DEF ClientPort, MaintenancePort
    <2>2. Apart(status)
      BY <1>2 DEF Fits
    <2>3. status.state \notin Down \cup {""}
      BY <2>1, <2>2 DEF Apart
    <2> QED
      BY <2>1, <2>2, <2>3 DEF Apart
  <1>4. cm.dbid # None
    BY <1>1, <1>2 DEF Fits, Stored, NoDatabase
  <1>5. status.version # None
    BY <1>2, <1>3 DEF Fits, Known
  <1> QED
    BY <1>3, <1>4, <1>5, DatabaseVersionIs DEF ShutStages, Down

-----------------------------------------------------------------------------
(* Most steps leave status and database alone: clients come and go.        *)

LEMMA QuietStep ==
    ASSUME OpenAtItsVersion', UNCHANGED <<status, DatabaseVersion>>
    PROVE  [Contract!ContractNext]_(Contract!contractVars)
  <1>1. CASE SomeServerForClients' = SomeServerForClients
    BY <1>1 DEF Contract!contractVars
  <1>2. CASE SomeServerForClients' /\ ~SomeServerForClients
    <2>1. /\ status.state \notin ShutStages
          /\ DatabaseVersion = status.version /\ DatabaseVersion # None
      BY <1>2 DEF OpenAtItsVersion
    <2>2. Contract!BecomeReachable
      BY <1>2, <2>1 DEF Contract!BecomeReachable, Contract!None, None
    <2> QED
      BY <2>2 DEF Contract!ContractNext
  <1>3. CASE ~SomeServerForClients' /\ SomeServerForClients
    <2>1. Contract!BecomeUnreachable
      BY <1>3 DEF Contract!BecomeUnreachable
    <2> QED
      BY <2>1 DEF Contract!ContractNext
  <1>4. SomeServerForClients \in BOOLEAN /\ SomeServerForClients' \in BOOLEAN
    BY DEF SomeServerForClients
  <1> QED
    BY <1>1, <1>2, <1>3, <1>4

-----------------------------------------------------------------------------
(* The status is saved: what was requested, or how far the upgrade got.    *)

LEMMA NothingElse ==
    ASSUME UNCHANGED <<objects, cluster>>
    PROVE  DatabaseVersion' = DatabaseVersion /\ SomeServerForClients' = SomeServerForClients
  <1>1. SyncLeader' = SyncLeader
    BY DEF objects, SyncLeader
  <1> QED
    BY <1>1 DEF objects, cluster, DatabaseVersion, SomeServerForClients

LEMMA SaveImplements ==
    ASSUME Invariant, Save
    PROVE  [Contract!ContractNext]_(Contract!contractVars)
  <1>1. DatabaseVersion' = DatabaseVersion /\ SomeServerForClients' = SomeServerForClients
    BY NothingElse DEF Save
  <1>2. status \in StatusType /\ Fits(status)
    BY InvariantFits DEF Invariant, Inductive, TypeOK
  <1>3. CASE status' = status
    BY <1>1, <1>3 DEF Contract!contractVars
  <1>4. CASE status' # status
    <2>1. status' = pass.st /\ pass.pc \in {"save", "saveRequeue"} /\ ~pass.stale
      BY <1>4 DEF Save, Unchallenged
    <2>2. Follows /\ pass.st \in Held
      BY <2>1 DEF Invariant, Safe, StatusRead, Held
    <2>3. Fits(pass.st)
      BY <2>2 DEF Invariant, Safe
    <2>4. CASE \/ \E s \in {"ready", "scaling"}, offers \in SUBSET Versions :
                    /\ status.state \notin Stages
                    /\ pass.st = [status EXCEPT !.state = s, !.offers = offers]
               \/ /\ status.state \notin Stages
                  /\ pass.st = [status EXCEPT !.state = "upgrade-preupgrade"]
      <3>1. status'.version = status.version /\ status'.target = status.target
        BY <1>2, <2>1, <2>4 DEF StatusType
      <3>2. status.state \notin ShutStages /\ status'.state \notin ShutStages
        BY <1>2, <2>1, <2>4 DEF StatusType, Stages, NextStage, ShutStages
      <3> QED
        BY <1>1, <3>1, <3>2 DEF Contract!contractVars
    <2>5. CASE /\ status.state \notin Stages \cup {""} /\ status.target = None
               /\ \E t \in UpgradeVersions(status.version) :
                    pass.st = [status EXCEPT !.target = t]
      <3>1. PICK t \in UpgradeVersions(status.version) : pass.st = [status EXCEPT !.target = t]
        BY <2>5
      <3>2. /\ status'.version = status.version /\ status'.target = t
            /\ status'.state = status.state /\ t \in Versions /\ t # None
        BY <1>2, <2>1, <3>1, UpgradeVersionsType, VersionFacts DEF StatusType
      <3>3. cm.dbid # None
        BY <2>1, <2>3, <3>2 DEF Fits, Stored, NoDatabase
      <3>4. DatabaseVersion = status.version
        BY <2>5, <3>3, DatabaseVersionIs DEF Down, Stages, NextStage
      <3>5. Contract!Request(t)
        BY <1>1, <2>5, <3>2, <3>4
           DEF Contract!Request, Contract!None, None, Contract!UpgradeVersions, UpgradeVersions,
               Contract!GetImage, GetImage, Contract!Images, Images
      <3> QED
        BY <3>2, <3>5 DEF Contract!ContractNext, Contract!Versions, Versions, Contract!Images, Images
    <2>6. CASE status.state = "upgrade-primary-move" /\ pass.st = Advance(Moved(status))
      <3>1. /\ status'.state = LastStage /\ status'.version = status.target
            /\ status'.target = status.target
        BY <1>2, <2>1, <2>6 DEF StatusType, Advance, Moved, NextStage, LastStage
      <3>2. cm.dbid # None
        BY <2>6, StageFits, InvariantFits DEF Invariant, Stages, NextStage
      <3>3. DatabaseVersion = status.target
        BY <2>6, <3>2, DatabaseVersionIs
      <3>4. Contract!Commit
        BY <1>1, <2>6, <3>1, <3>3 DEF Contract!Commit, ShutStages, LastStage
      <3> QED
        BY <3>4 DEF Contract!ContractNext
    <2>7. CASE status.state \in Stages \ {"upgrade-primary-move"} /\ pass.st = Advance(status)
      <3>1. status.target # None
        BY <2>7 DEF Invariant, Inductive, StagesHaveTargets
      <3>2. CASE status.state = LastStage
        <4>1. /\ status'.state = "ready" /\ status'.target = None
              /\ status'.version = status.version
          BY <1>2, <2>1, <2>7, <3>2 DEF StatusType, Advance
        <4>2. status.target = status.version
          BY <1>2, <3>2 DEF Fits, Known
        <4>3. Contract!Finish
          BY <1>1, <3>1, <3>2, <4>1, <4>2
             DEF Contract!Finish, Contract!None, None, ShutStages, LastStage
        <4> QED
          BY <4>3 DEF Contract!ContractNext
      <3>3. CASE status.state = "upgrade-preupgrade-scaledown"
        <4>1. /\ status'.state = "upgrade-preupgrade-sync" /\ status'.target = status.target
              /\ status'.version = status.version
          BY <1>2, <2>1, <2>7, <3>3 DEF StatusType, Advance, NextStage, LastStage
        <4>2. status.target # status.version
          BY <1>2, <3>3 DEF Fits, Known, LastStage
        <4>3. ~SomeServerForClients
          BY <2>1, <2>3, <4>1
             DEF Fits, Apart, SomeServerForClients, ClientPort, MaintenancePort
        <4>4. cm.dbid # None
          BY <1>2, <3>1 DEF Fits, Stored, NoDatabase
        <4>5. DatabaseVersion = status.version
          BY <3>3, <4>4, DatabaseVersionIs DEF Down
        <4>6. Contract!Shut
          BY <1>1, <3>1, <4>1, <4>2, <4>3, <4>5 DEF Contract!Shut, Contract!None, None, ShutStages
        <4> QED
          BY <4>6 DEF Contract!ContractNext
      <3>4. CASE status.state \notin {LastStage, "upgrade-preupgrade-scaledown"}
        <4>1. /\ status'.target = status.target /\ status'.version = status.version
              /\ status'.state = NextStage[status.state]
          BY <1>2, <2>1, <2>7, <3>4 DEF StatusType, Advance
        <4>2. (status'.state \in ShutStages) = (status.state \in ShutStages)
          BY <2>7, <3>4, <4>1 DEF Stages, NextStage, LastStage, ShutStages
        <4> QED
          BY <1>1, <4>1, <4>2 DEF Contract!contractVars
      <3> QED
        BY <3>2, <3>3, <3>4
    <2> QED
      BY <1>4, <2>1, <2>2, <2>4, <2>5, <2>6, <2>7 DEF Follows
  <1> QED
    BY <1>3, <1>4

(* The first status declares the cluster.                                  *)
LEMMA InitializeImplements ==
    ASSUME Invariant, Initialize
    PROVE  [Contract!ContractNext]_(Contract!contractVars)
  <1>1. DatabaseVersion' = DatabaseVersion /\ SomeServerForClients' = SomeServerForClients
    BY NothingElse DEF Initialize
  <1>2. status = NoStatus
    <2>1. status.state = ""
      BY DEF Initialize, Invariant, Safe, StatusRead
    <2> QED
      BY <2>1, InvariantFits DEF Fits, Known
  <1>3. status' = [NoStatus EXCEPT !.state = "scaling", !.version = specVersion]
    BY DEF Initialize
  <1>4. specVersion \in Contract!Versions
    BY DEF Invariant, Inductive, TypeOK, Contract!Versions, Versions, Contract!Images, Images
  <1>5. /\ status.version = None /\ status'.version = specVersion
        /\ status'.target = status.target
    BY <1>2, <1>3 DEF NoStatus
  <1>6. status.state \notin ShutStages /\ status'.state \notin ShutStages
    BY <1>2, <1>3 DEF NoStatus, ShutStages
  <1>7. Contract!Declare(specVersion)
    BY <1>1, <1>5, <1>6 DEF Contract!Declare, Contract!None, None
  <1> QED
    BY <1>4, <1>7 DEF Contract!ContractNext

-----------------------------------------------------------------------------
(* The database is created and converted.                                  *)

LEMMA BootstrapImplements ==
    ASSUME Invariant, NEW n \in Nodes, Bootstrap(n)
    PROVE  [Contract!ContractNext]_(Contract!contractVars)
  <1>1. /\ cm.dbid = None /\ pod[n].phase = "up" /\ cm \in CmType
        /\ vol \in [Nodes -> VolType] /\ UNCHANGED <<status, pod>>
        /\ cm' = [cm EXCEPT !.dbid = pod[n].version, !.leader = n]
        /\ vol' = [vol EXCEPT ![n] = [data |-> pod[n].version, new |-> None, ckpt |-> None]]
    BY DEF Bootstrap, PatroniChange, Invariant, Inductive, TypeOK
  <1>2. Inductive /\ Safe /\ status \in Held /\ Fits(status)
    BY StatusFits DEF Invariant
  <1>3. pod[n].version = status.version /\ status.version # None
    BY <1>1, <1>2, WherePodsRun
  <1>4. status.target = None
    BY <1>1, <1>2 DEF Fits, Stored, NoDatabase
  <1>5. DatabaseVersion = None
    BY <1>1, DatabaseVersionIs
  <1>6. cm'.leader = n /\ vol'[n].data = status.version /\ vol'[n].new = None
    BY <1>1, <1>3 DEF CmType
  <1>7. SyncLeader' = n /\ n # NoNode
    BY <1>6, NAssumption DEF SyncLeader, Nodes, NoNode
  <1>8. DatabaseVersion' = status.version
    BY <1>6, <1>7 DEF DatabaseVersion
  <1>9. SomeServerForClients' = SomeServerForClients
    BY <1>1 DEF SomeServerForClients
  <1>10. Contract!CreateDatabase
    BY <1>1, <1>3, <1>4, <1>5, <1>8, <1>9 DEF Contract!CreateDatabase, Contract!None, None
  <1> QED
    BY <1>10 DEF Contract!ContractNext

(* pg_upgrade, whether or not its script lives to tell.                    *)
LEMMA UpgradeImplements ==
    ASSUME Invariant, OpenAtItsVersion', UpRun \/ UpKilled
    PROVE  [Contract!ContractNext]_(Contract!contractVars)
  <1> DEFINE j == job["up"]
  <1>1. /\ vol \in [Nodes -> VolType] /\ UNCHANGED <<status, pod, cm>> /\ Running(j)
    BY DEF UpRun, UpKilled, JobChange, Invariant, Inductive, TypeOK
  <1>2. Fits(status) /\ j.phase # "none"
    BY <1>1, InvariantFits DEF Running
  <1>3. /\ status.state = "upgrade-primary" /\ j.node = cm.leader
        /\ j.from = status.version /\ j.to = status.target
    BY <1>2 DEF Fits, UpJob
  <1>4. cm.dbid # None /\ cm.leader \in Nodes /\ SyncLeader = cm.leader /\ SyncLeader # NoNode
    BY <1>2, JobsAre, InvariantFits
  <1>5. SyncLeader' = cm.leader
    BY <1>1, <1>4 DEF SyncLeader
  <1>6. SomeServerForClients' = SomeServerForClients
    BY <1>1 DEF SomeServerForClients
  <1>7. CASE vol' = vol
    <2>1. DatabaseVersion' = DatabaseVersion
      BY <1>4, <1>5, <1>7 DEF DatabaseVersion
    <2> QED
      BY <1>1, <2>1, QuietStep
  <1>8. CASE Upgradable(j) /\ vol' = [vol EXCEPT ![j.node].new = j.to]
    <2>1. DatabaseVersion = status.version
      BY <1>3, <1>4, <1>8 DEF DatabaseVersion, Upgradable
    <2>2. status.target # None
      BY <1>3 DEF Invariant, Inductive, StagesHaveTargets, Stages, NextStage
    <2>3. vol'[cm.leader].new = status.target
      BY <1>1, <1>3, <1>4, <1>8 DEF VolType
    <2>4. DatabaseVersion' = status.target
      BY <1>4, <1>5, <2>2, <2>3 DEF DatabaseVersion
    <2>5. Contract!Convert
      BY <1>1, <1>3, <1>6, <2>1, <2>4 DEF Contract!Convert, ShutStages
    <2> QED
      BY <2>5 DEF Contract!ContractNext
  <1> QED
    BY <1>7, <1>8 DEF UpRun, UpKilled

(* The scripts of the other jobs leave the cluster's database what it is.  *)
LEMMA MoveImplements ==
    ASSUME Invariant, OpenAtItsVersion', MoveRun
    PROVE  [Contract!ContractNext]_(Contract!contractVars)
  <1> DEFINE j == job["move"]
  <1>1. /\ vol \in [Nodes -> VolType] /\ UNCHANGED <<status, pod, cm>> /\ Running(j)
        /\ vol' = [vol EXCEPT ![j.node] = MovedVolume(@)]
    BY DEF MoveRun, JobChange, Invariant, Inductive, TypeOK
  <1>2. Fits(status) /\ j.phase # "none"
    BY <1>1, InvariantFits DEF Running
  <1>3. j.node = cm.leader
    BY <1>2 DEF Fits, MoveJob
  <1>4. cm.dbid # None /\ cm.leader \in Nodes /\ SyncLeader = cm.leader
    BY <1>2, JobsAre, InvariantFits
  <1>5. SyncLeader' = cm.leader
    BY <1>1, <1>4 DEF SyncLeader
  <1>6. vol'[cm.leader] = MovedVolume(vol[cm.leader])
    BY <1>1, <1>3, <1>4
  <1>7. DatabaseVersion' = DatabaseVersion
    BY <1>4, <1>5, <1>6 DEF DatabaseVersion, MovedVolume
  <1> QED
    BY <1>1, <1>7, QuietStep

LEMMA SecondaryImplements ==
    ASSUME Invariant, OpenAtItsVersion', NEW n \in Nodes, SupRun(n)
    PROVE  [Contract!ContractNext]_(Contract!contractVars)
  <1>1. /\ vol \in [Nodes -> VolType] /\ UNCHANGED <<status, pod, cm>>
        /\ sup[n].phase # "none"
        /\ vol' = vol \/ \E v : vol' = [vol EXCEPT ![n] = v]
    BY DEF SupRun, SupChange, Running, Invariant, Inductive, TypeOK
  <1>2. n # cm.leader
    BY <1>1, InvariantFits DEF Fits, SecondaryJobs
  <1>3. cm.dbid # None /\ cm.leader \in Nodes /\ SyncLeader = cm.leader
    BY <1>1, InvariantFits
  <1>4. SyncLeader' = cm.leader
    BY <1>1, <1>3 DEF SyncLeader
  <1>5. vol'[cm.leader] = vol[cm.leader]
    BY <1>1, <1>2, <1>3
  <1>6. DatabaseVersion' = DatabaseVersion
    BY <1>3, <1>4, <1>5 DEF DatabaseVersion
  <1> QED
    BY <1>1, <1>6, QuietStep

(* A new leader has the database the old one had, and a copy is a copy.    *)
LEMMA PatroniImplements ==
    ASSUME Invariant, OpenAtItsVersion', Patroni
    PROVE  [Contract!ContractNext]_(Contract!contractVars)
  <1>1. PICK n \in Nodes : Bootstrap(n) \/ AcquireLeader(n) \/ Clone(n)
    BY DEF Patroni
  <1>2. /\ cm \in CmType /\ vol \in [Nodes -> VolType] /\ n # NoNode /\ UNCHANGED status
    BY <1>1, NAssumption
       DEF Invariant, Inductive, TypeOK, Nodes, NoNode, Bootstrap, AcquireLeader, Clone,
           PatroniChange
  <1>3. Inductive /\ Safe /\ status \in Held /\ Fits(status)
    BY StatusFits DEF Invariant
  <1>4. CASE AcquireLeader(n)
    <2>1. pod[n].phase # "none" /\ vol[n].data = cm.dbid /\ cm.leader # NoNode
      BY <1>4 DEF AcquireLeader
    <2>2. cm.dbid # None /\ status.state \notin Down
      BY <1>3, <2>1, WherePodsRun DEF Fits, Stored, NoDatabase
    <2>3. DatabaseVersion = status.version
      BY <2>2, DatabaseVersionIs
    <2>4. /\ cm'.leader = n /\ vol'[n].data = vol[n].data /\ vol'[n].new = vol[n].new
      BY <1>2, <1>4 DEF AcquireLeader, PatroniChange, CmType, VolType
    <2>5. vol[n].new = None /\ cm.dbid = status.version
      BY <1>3, <2>2, InvariantFits DEF LeaderDatabase, OtherDatabases
    <2>6. SyncLeader' = n
      BY <2>4, NAssumption DEF SyncLeader, Nodes
    <2>7. DatabaseVersion' = status.version
      BY <1>2, <2>1, <2>4, <2>5, <2>6 DEF DatabaseVersion
    <2> QED
      BY <1>2, <2>3, <2>7, QuietStep
  <1>5. CASE Clone(n)
    <2>1. vol[n].data = None /\ pod[n].phase # "none" /\ cm.leader # NoNode /\ cm' = cm
      BY <1>5 DEF Clone, PatroniChange
    <2>2. cm.dbid # None /\ status.state \notin Down /\ status.version # None
      BY <1>3, <2>1, WherePodsRun DEF Fits, Stored, NoDatabase
    <2>3. n # cm.leader /\ SyncLeader = cm.leader /\ cm.leader \in Nodes
      BY <2>1, <2>2, InvariantFits DEF LeaderDatabase
    <2>4. vol'[cm.leader] = vol[cm.leader] /\ SyncLeader' = SyncLeader
      BY <1>2, <1>5, <2>1, <2>3 DEF Clone, PatroniChange, SyncLeader
    <2>5. DatabaseVersion' = DatabaseVersion
      BY <2>3, <2>4 DEF DatabaseVersion
    <2> QED
      BY <1>2, <2>5, QuietStep
  <1> QED
    BY <1>1, <1>4, <1>5, BootstrapImplements

-----------------------------------------------------------------------------
(* Everything else leaves the leader and the databases alone.              *)

LEMMA SameDatabaseVersion ==
    ASSUME Invariant, OpenAtItsVersion', SameDatabases, UNCHANGED status,
           cm'.leader = cm.leader
    PROVE  [Contract!ContractNext]_(Contract!contractVars)
  <1>1. SyncLeader' = SyncLeader /\ SyncLeader \in Nodes \cup {NoNode}
    BY NAssumption DEF SyncLeader, Nodes, Invariant, Inductive, TypeOK, CmType
  <1>2. DatabaseVersion' = DatabaseVersion
    BY <1>1 DEF DatabaseVersion, SameDatabases
  <1> QED
    BY <1>2, QuietStep

LEMMA OperatorImplements ==
    ASSUME Invariant, OpenAtItsVersion', Operator \/ Abort \/ User
    PROVE  [Contract!ContractNext]_(Contract!contractVars)
  <1>1. CASE Save \/ Initialize
    BY <1>1, SaveImplements, InitializeImplements
  <1>2. CASE ~(Save \/ Initialize)
    <2>1. UNCHANGED status
      BY <1>2, StatusChanges DEF Invariant, Next
    <2>2. vol' = vol /\ cm'.leader = cm.leader
      <3>1. cm \in CmType
        BY DEF Invariant, Inductive, TypeOK
      <3>2. CASE PreupgradeAccept \/ PrimaryRecordCheckpoint \/ PrimarySetDBId \/ ClearAnnotations
        BY <3>1, <3>2
           DEF PreupgradeAccept, PrimaryRecordCheckpoint, PrimarySetDBId, ClearAnnotations,
               SetConfig, SettingsRecorded, Identified, Cleared, CmType, cluster
      <3>3. CASE ~(PreupgradeAccept \/ PrimaryRecordCheckpoint \/ PrimarySetDBId \/ ClearAnnotations)
        BY <1>2, <3>3
           DEF Operator, Abort, User, SetVersion, Begin, RequestUpgrade, RejectUpgrade,
               EnterUpgrade, ReconcileService, ReconcileStatefulSet, SetService, SetSts, Stage,
               EnsureUpgradeJob, WaitForJob, JobFailed, JobSucceeded, CreateJob, SetJob,
               DeleteSucceededJob, DeleteFailedJob, PreupgradeRefuse, ScaleDown,
               SkipSingleNode, SyncStartCluster, SyncService, CreatePrimaryJob,
               EnsureStreamer, NoStreamArgs, CreateSecondaryJob, CheckSecondaryJobs,
               DeleteStreamer, DeleteSecondaryJob, SecondaryJobsDeleted, CreateMoveJob,
               MoveSucceeded, PostStartCluster, PostService, objects, cluster
      <3> QED
        BY <3>2, <3>3
    <2> QED
      BY <2>1, <2>2, SameDatabaseVersion DEF SameDatabases
  <1> QED
    BY <1>1, <1>2

LEMMA JobsImplement ==
    ASSUME Invariant, OpenAtItsVersion', JobPods \/ JobFaults
    PROVE  [Contract!ContractNext]_(Contract!contractVars)
  <1>1. CASE UpRun \/ UpKilled \/ MoveRun \/ \E n \in Nodes : SupRun(n)
    BY <1>1, UpgradeImplements, MoveImplements, SecondaryImplements
  <1>2. CASE \/ PreupgradeRun \/ SyncRun \/ PostupgradeRun
             \/ (\E j \in Jobs : JobFails(j)) \/ (\E n \in Nodes : SupFails(n))
    <2>1. cm \in CmType
      BY DEF Invariant, Inductive, TypeOK
    <2>2. UNCHANGED <<status, vol>> /\ cm' \in {cm, [cm EXCEPT !.pause = TRUE]}
      BY <1>2
         DEF PreupgradeRun, SyncRun, PostupgradeRun, JobFails, SupFails, JobChange, SupChange
    <2>3. cm'.leader = cm.leader
      BY <2>1, <2>2 DEF CmType
    <2> QED
      BY <2>2, <2>3, SameDatabaseVersion DEF SameDatabases
  <1> QED
    BY <1>1, <1>2 DEF JobPods, JobFaults

LEMMA PodsImplement ==
    ASSUME Invariant, OpenAtItsVersion', Pods \/ PodFaults
    PROVE  [Contract!ContractNext]_(Contract!contractVars)
  <1>1. PodsChange
    BY PodsAre DEF Invariant, Inductive
  <1> QED
    BY <1>1, SameDatabaseVersion DEF PodsChange

-----------------------------------------------------------------------------
(* The theorem.                                                            *)

LEMMA InitImplements == ASSUME Init PROVE Contract!ContractInit
  <1>1. /\ status.version = None /\ status.target = None /\ status.state = ""
        /\ \A n \in Nodes : pod[n].phase = "none"
    BY DEF Init, NoStatus, NoPod
  <1>2. SyncLeader \in Nodes \cup {NoNode}
    BY NAssumption DEF Init, SyncLeader, Nodes
  <1>3. DatabaseVersion = None
    BY <1>2 DEF Init, DatabaseVersion
  <1>4. SomeServerForClients = FALSE
    BY <1>1 DEF SomeServerForClients
  <1>5. status.state \notin ShutStages
    BY <1>1 DEF ShutStages
  <1>6. /\ status.version = Contract!None /\ status.target = Contract!None
        /\ DatabaseVersion = Contract!None
    BY <1>1, <1>3 DEF Contract!None, None
  <1> QED
    BY <1>4, <1>5, <1>6 DEF Contract!ContractInit

LEMMA StepImplements ==
    ASSUME Invariant, OpenAtItsVersion', [Next]_vars
    PROVE  [Contract!ContractNext]_(Contract!contractVars)
  <1>1. CASE UNCHANGED vars
    <2>1. UNCHANGED <<status, objects, cluster>>
      BY <1>1 DEF vars
    <2> QED
      BY <2>1, NothingElse, QuietStep
  <1> QED
    BY <1>1, OperatorImplements, PatroniImplements, JobsImplement, PodsImplement DEF Next

(* For any number of nodes the operator and its cluster do nothing the     *)
(* contract does not allow, whatever fails in between: the database is     *)
(* converted one offered step at a time while nobody can reach it, and is  *)
(* opened at the version the status declares (upgrade.go, Handle; the      *)
(* deferred update in Reconcile).                                          *)
THEOREM OperatorKeepsContract == ASSUME AvailableWhileRunning PROVE Spec => ImplementsContract
  <1>1. Invariant => OpenAtItsVersion
    BY OpenOnlyAtItsVersion
  <1>2. Init => Contract!ContractInit
    BY InitImplements
  <1>3. Invariant /\ OpenAtItsVersion' /\ [Next]_vars
          => [Contract!ContractNext]_(Contract!contractVars)
    BY StepImplements
  <1> QED
    BY <1>1, <1>2, <1>3, AlwaysSafe, PTL DEF Spec, ImplementsContract, Contract!ContractSpec
=============================================================================
