# A specification of the PatroniPostgres operator

The operator keeps Patroni-managed PostgreSQL clusters on Kubernetes and
upgrades them between major versions with `pg_upgrade --link`. An upgrade is a
ladder of eight stages that spans an operator, a StatefulSet, jobs that run
shell scripts on the data volumes, and Patroni; any of them may fail or be cut
short at any point and is then retried. That ladder is the core of the program,
the part that can lose data or a cluster, and the part tests hardly reach (the
repository has none). It is what these modules are about.

Source locations are relative to `src/`.

## The system

### Components

| component | state | operations | modelled in |
|---|---|---|---|
| Reconciler (`controllers/`) | the object's status; a work queue; a pass's in-memory copy of the status | initialize, request or reject an upgrade, run the upgrade handler of the stage, run the ordinary chain of reconcilers, persist the status at the end | `UpgradeOperator` |
| Upgrade ladder (`private/upgrade/*.go`) | the stage (status), jobs, streamer | a handler per stage: create a job, wait for it, take its result, delete it, report done | `UpgradeOperator` |
| Upgrade scripts (`private/upgrade/upgrade-scripts/`) | the directories `data`, `data.new`, `data.new.done`, `data.preserve` of each volume | primary-upgrade, secondary-upgrade, primary-upgrade-move, primary-stream | `UpgradeScripts`, one step each in `UpgradeOperator` |
| Upgrade command (`cmd/upgrade/`) | database connections | preupgrade (settings), preupgrade-sync (replicas caught up, Patroni paused), postupgrade (extensions, analyze) | preupgrade-sync in `PreupgradeSync`; one step each in `UpgradeOperator` |
| Patroni's ConfigMaps (`private/controllers/configmap`) | annotations: system identifier, dynamic configuration (pause), sync leader, initdb settings, checkpoint location | create or adopt, read, set, clear | `UpgradeOperator` (`cm`), `ResourceReconcile` |
| StatefulSet (`private/controllers/statefulset`) | replicas, image version, port, preStop hook | reconcile, with the upgrade's patches | `UpgradeOperator` (`sts`, `pod`), `NodeScaling` |
| Service (`private/controllers/service`) | port | reconcile, with the upgrade's patches | `UpgradeOperator` (`svcPort`), `ResourceReconcile` |
| Image registry (`private/image`) | constant | image of a version, versions it can upgrade to | `ImageRegistry` |
| Admission policy (`config/validations/upgrade-admissionpolicy.yaml`) | none | admits an edit of `spec.version` | guard of `SetVersion` |
| Volume claims (`private/controllers/pvc`) | one claim per node | create, resize, delete what is no longer named | `NodeScaling`; as one object in `ResourceReconcile` |
| Secret, RBAC, network policies, disruption budget | one object each | get, then create, adopt or rewrite | `ResourceReconcile` |
| Reconcile context (`private/context`), manager (`main.go`) | owner references; the lease | SetMeta; leader election | `ResourceReconcile` |
| API types, generated code | | templates, copies | the fields that decide something are state |

### How they interact

The operator owns the status and everything it creates; it learns of the rest
by watching the status of StatefulSets and jobs, and by reading. Patroni owns
the leader and the pause; operator and Patroni share one ConfigMap. Scripts and
servers share the volumes, and nothing but the order of the stages keeps them
apart. The user edits `spec.version` and `spec.nodes`, which also changes the
object the operator is about to write. Reconcilers, Patroni, the user and the
garbage collector meet at the objects of the API server, which accepts an update
of the latest version only.

The ladder, in the order of `upgrade.go:71`:

1. `preupgrade`: a job reads the settings for initdb from the running database.
2. `preupgrade-scaledown`: all pods go.
3. `preupgrade-sync` (not with one node): the cluster comes back on a
   maintenance port, a job waits until the replicas have everything, and pauses
   Patroni.
4. `scaledown`: all pods go; the preStop hook lets replicas receive the
   leader's shutdown checkpoint.
5. `primary`: `pg_upgrade` on the leader's volume builds `data.new`; its log
   tells the old checkpoint location and the new identity; Patroni is told the
   identity and resumed.
6. `secondaries` (not with one node): a streamer serves the leader's volume; a
   job per secondary converts the volume in place if it is at the leader's
   final checkpoint, and empties it otherwise.
7. `primary-move`: `data.new` becomes `data`; the status gets the new version.
8. `postupgrade`: the cluster starts; a job updates extensions and statistics.

### What is hard

* **Persistence after the fact.** A handler's side effects come first, the
  status update last. Every handler must bear being run again on its own
  results, with its job deleted.
* **Retries of scripts that change their own preconditions.** `pg_upgrade`
  disables its source; `secondary-upgrade` removes `data`.
* **Volumes shared in time.** Servers, scripts and the streamer use one volume
  after the other; the hand-over is a number in a StatefulSet's status.
* **Knowledge that crosses a failure**: checkpoint, identity, settings and pause
  travel through annotations and must be neither lost nor left over.
* **Wake-ups.** Nothing polls; a step that is not requeued waits for an event.
* **Read, then write.** The reconcilers and the setters of annotations write back
  a whole object some time after they read it; the chain works on a copy of the
  spec that may be old, and on claims known by their index alone.
* **Rows, then servers.** preupgrade-sync counts replicas in a view of the primary
  and asks them over connections of its own; servers come and go in between.

What makes each component correct: the ladder never lets two parties at a
volume, never changes the version apart from the data, leaves nothing behind,
shuts clients out from sync to restart, and ends; the scripts never lose the
leader's database and never leave a damaged one behind; the ConfigMap's
annotations are those of this upgrade; preupgrade-sync pauses a cluster in which
every server has the last checkpoint; claims, pods and objects follow the spec
without losing committed data or the password; the reconciler only starts upgrades its
image can do; the registry offers only those.

`PROJECT.json` lists the single hazards, each at its line.

## Modules

| module | contents |
|---|---|
| `ImageRegistry` | the images, `GetImage`, `UpgradeVersions` |
| `UpgradeOperator` | the operator with its cluster: all stages, all faults; safety properties |
| `UpgradeContract` | what users are promised about the version and reachability of their database, in nine actions |
| `MCUpgradeOperator` | the refinement mapping from `UpgradeOperator` to `UpgradeContract`, for TLC |
| `MCUpgradeLiveness` | `UpgradeOperator` with fairness, faults and edits that end some time; liveness properties |
| `UpgradeOperatorProofs` | theorems about `UpgradeOperator`: types, stages, jobs, targets |
| `UpgradeSafetyProofs` | theorems about `UpgradeOperator`: volumes, databases, clients, annotations |
| `UpgradeContractProofs` | `UpgradeOperator` implements `UpgradeContract` |
| `UpgradeScripts` | the scripts on the volumes, command by command, with kills |
| `UpgradeScriptsProofs` | theorems about `UpgradeScripts` |
| `PreupgradeSync` | the preupgrade-sync job, query by query, with the servers it talks to |
| `PreupgradeSyncProofs` | theorems about `PreupgradeSync` |
| `NodeScaling` | `spec.nodes`, claims, pods and replication; the stages of an upgrade that count nodes |
| `NodeScalingProofs` | theorems about `NodeScaling` |
| `ResourceReconcile` | the ordinary chain, call by call, over versioned objects with owners |
| `ResourceReconcileProofs` | theorems about `ResourceReconcile` |

### UpgradeOperator and the code

*A pass.* `pass.pc` is the next call of `Reconcile` that changes something (or
decides); `pass.st` is the copy of the status that handlers edit, `pass.stale`
says that the user has edited the object since it was read. `Begin` takes the
object from the queue and chooses the entry point by the persisted status, as
`patronipostgres_controller.go:97-146` does. `Save` is the deferred update
(`:116`); a stale copy conflicts. `Abort` stands for every failing call, for a
crash and for a lost leadership, at any point of a pass: the in-memory copy is
gone, the side effects stay. Reads of the operator are uncached (`main.go:94`),
and one operator is active at a time.

*Stages.* `Stage(s)` has the four outcomes handlers with a job share: create it,
wait, failed, succeeded. A job's phase says what its status counts: a failure
and a success at once is `"mixed"`, which the handlers treat as a success first
and as a failure afterwards. `DeleteSucceededJob` advances the copy of the
status in the step that deletes the job, since nothing observable lies between.
The secondaries' jobs (`sup`) are created and deleted one API call at a time.

*Databases* are named by their major version; system identifier, final
checkpoint and settings are new with each upgrade, so the version identifies
them. `vol[n].ckpt` says whether the last checkpoint on a volume is the shutdown
checkpoint of its database.

*The environment.* Pods follow the StatefulSet, may lose readiness, be lost,
leave a shutdown checkpoint or not (`LeavesCheckpoint` models the preStop hook:
a replica may have received the leader's last checkpoint only if the leader has
stopped before). Patroni bootstraps, fails over (not while paused), clones.
Jobs' pods run, fail, and are replaced after a failure that was counted.
`AvailableWhileRunning` separates the two readings of `AvailableReplicas`:
Kubernetes counts a pod that has been ready for `MinReadySeconds` (FALSE); TRUE,
a pod counts as long as it exists, is what `scaledown.go:59` needs it to mean.

*Abstracted*: names and templates of objects, the CRD's other fields, the
contents of logs and annotations, time. The counts in the StatefulSet's status
are read as they are at that moment, and the sync leader's annotation changes
with the failover: a status that lags behind is not modelled (an object read
a moment earlier is, by everything that may happen between two steps).

### UpgradeScripts and the code

Every command that changes a volume is a step; `script[n]` is the command n's
container is at. `Killed` ends the container in the middle of a command and
leaves one of the states in `Torn`; the script starts over (`RestartPolicy:
OnFailure`, or a new job). `Repeated` starts a script again after it succeeded,
which the operator does when its record of the success is lost. Directories are
absent, partial, fresh, whole, or disabled (`pg_control` renamed by pg_upgrade),
with the version in `PG_VERSION` and the origin of the configuration files. A
member may or may not be at the leader's checkpoint (`synced`); streaming onto a
volume that is not gives a damaged directory, since `rsync --size-only` skips
files of equal size. `LinkWindow` and `SwapWindow` open the two windows in which
the scripts are known not to bear a kill. Abstracted: the five configuration
files are saved and restored together and each copy is whole; the result of
primary-upgrade is read as soon as it is there (its loss is `UpgradeOperator`'s
matter); one instance of a script at a time.

### PreupgradeSync and the code

`pc` is the query the job waits for, `conn` the primary it is connected to,
`lsn` and `synced` its variables (`cmd/upgrade/preupgrade-sync.go`). `Query` is
what the queries share: it is answered by the server at the other end, or the
connection is lost and the job fails. `ReadReplicas` reads
`pg_stat_replication`; `WaitReplica(m)` is one of the goroutines that ask the
servers at the rows' addresses, and `WaitReplicas` begins again unless all of
them were in sync. `Repeat` is the next job after a failed one;
`PauseAnswerLost` the two seconds of `:205`. A server is a position in the WAL:
`wal` replayed, `received` on its disk, `restart` the checkpoint in its control
file. `row` is what the primary shows of a replica; `former` what it still shows
of a connection that is gone. Patroni starts servers and promotes one that no
other is ahead of, unless it is paused. Abstracted: the contents of the WAL, of
which only the checkpoint records are known, and timelines: a promoted server's
history replaces the others', which are cut back to it.

### NodeScaling and the code

A node is its index; pod and claim of an index have the same names in every life.
`ChainBegin`, `EnsureClaim`, `DeleteClaim`, `ClaimsDone` are the calls of
`pvc.Reconcile`, with the claims listed at the beginning; `ReconcileSts` and
`UpdateStatus` end the pass, which works on the `nodes` it has read. A deleted
claim is `terminating` until its pod is gone, as the protection of claims in use
has it. The StatefulSet controller creates the lower indices and stops the others;
a pod without a claim of its own waits, since the policy
`pvc-management-admissionpolicy.yaml` and the operator's annotation keep the
controller from creating it. `vol[i]` counts the transactions on a volume;
`committed` those reported to clients, which wait for the synchronous `standby`.
Of an upgrade there are the stages whose outcome depends on the number of nodes.

### ResourceReconcile and the code

The reconcilers are given as data: `PVCs`, `Secrets`, ... `PDBs` name the objects
of each, whether one that exists is adopted, rewritten or patched, and whether
what is written follows the spec; `FullChain` is the chain of
`patronipostgres_controller.go:148`. `Places` are the places in it of the
instance's resources, `Beyond(i)` those that a pass at `i` has yet to visit.
`GetObject` takes a copy and `PutObject`
writes it; `Accepted` is the API server's optimistic concurrency, `fresh` the
resource version. `Failed` is a pass that returns an error. An object has the
instances that own it; `Collect` is Kubernetes' garbage collector. `Resources`
selects the resources of an instance of the model, since one kind behaves like
any other of its kind. An upgrade is one annotation that a pass sets and a later
one clears, with the two calls each setter of `configmap.go` makes: it justifies
that `UpgradeOperator` takes them for one step. `Takeover` elects another
process; the former one may still complete a call (`Lingering`: a whole pass).

## Runs

| run | module, cfg | shows |
|---|---|---|
| `replicated_safety` | `MCUpgradeOperator`, `ReplicatedSafety.cfg` | N = 3, pods available while they exist: 12 invariants, the action property `VersionFollowsData` and the refinement `ImplementsContract` |
| `single_node` | `MCUpgradeLiveness`, `SingleNode.cfg` | N = 1: the shortcuts of one-node clusters keep volume and contract; a wish is fulfilled or taken back |
| `upgrade_liveness` | `MCUpgradeLiveness`, `UpgradeLiveness.cfg` | N = 2, Kubernetes' reading of `AvailableReplicas`: a requested upgrade completes unless a server that lingers meets a script on its volume, and what holds even though pods may outlive the scaledown |
| `upgrade_scripts` | `UpgradeScripts`, `UpgradeScripts.cfg` | three members, two upgrades, three faults: the leader's database survives, volumes are whole or empty, members keep their configuration, upgrades end |
| `preupgrade_sync` | `PreupgradeSync`, `PreupgradeSync.cfg` | three servers, one write, one fault: a job that succeeds leaves every server with the latest checkpoint, and one does |
| `node_scaling` | `NodeScaling`, `NodeScaling.cfg` | up to three nodes, two edits, one write, one fault: claims, pods and status follow the spec, committed data is kept, an upgrade ends |
| `resource_reconcile` | `ResourceReconcile`, `ResourceReconcile.cfg` | two processes, five resources, two events: no annotation is lost or comes back, the password fits, all objects are as the spec says |
| `stopped_by_scaledown` | `MCUpgradeOperator`, `StoppedByScaledown.cfg` | violation: the scaledown stage is left with a database running |
| `primary_result_lost` | `MCUpgradeLiveness`, `PrimaryResultLost.cfg` | violation: primary-upgrade's one report lost, the upgrade never ends |
| `emptied_secondary` | `MCUpgradeLiveness`, `EmptiedSecondary.cfg` | violation: the secondaries stage repeated after a volume was emptied never ends |
| `link_window` | `UpgradeScripts`, `LinkWindow.cfg` | violation: a kill in pg_upgrade's link phase is reported as success |
| `extended_during_upgrade` | `NodeScaling`, `ExtendedDuringUpgrade.cfg` | violation: an upgrade waits for ever for a node added while it is under way |

### Bounds, and why they are enough

* `N`: one node takes the shortcuts; two have a leader and one secondary; three
  are the least with two secondaries, which matter to the order of job creation
  and deletion, to mixed outcomes in one pass and to failovers past a third.
  Nodes beyond the third repeat the part of a secondary.
* `Versions` are the registry's: 13, 15, 17, so that two upgrades follow each
  other and leftovers of the first meet the second.
* In the runs of `UpgradeOperator` nothing is bounded: any number of aborts,
  failures, lost pods, edits. The liveness properties ask for `Calm`, that faults
  and edits end some time: an operator whose every write fails, or a job that
  never succeeds, finishes nothing.
* In `UpgradeScripts`, `Upgrades = 2` covers leftovers, and three faults a kill
  during recovery from a kill during recovery.
* In `PreupgradeSync`, three servers are the least with a replica that is asked
  while another one changes; one write moves the WAL once the job has read its
  position. The safety properties were also checked with two and three faults.
* In `NodeScaling`, three nodes let a leader or its standby be neither the first
  nor the last one; two edits remove and add an index. Three edits hold as well.
* In `ResourceReconcile`, two events of any kind (aborted pass, election, edit,
  upgrade, deletion of an object or of the cluster) reach each one during the
  handling of another; `MaxRecreated = 1` is a second life. The resources are the
  four a database needs and `headless`, which is rewritten and does not vary. The
  invariants were also checked with three events, the whole run also with
  `account` and `service`.
* Deadlock is checked for `replicated_safety` and `single_node`. `upgrade_liveness`
  may stop where its proviso fails (see below), the other runs when their
  bounds are used up.

### Fairness

`WF(Operator)`: the controller's worker takes queued objects and runs each pass
on; a failing pass is requeued by controller-runtime. Weak fairness of the pod
steps, one by one, stands for the StatefulSet controller, the kubelets and
Patroni's loop, that of the job steps for scripts that finish when they can.
Faults are never fair. `Resync` (the informers' periodic repetition of events)
is needed by `WantedVersionReached` only, and acts only between upgrades, so that
`UpgradeCompletes` does not lean on it: a version wished for while the status
says `scaling` may be read by the very pass that finds the cluster ready, which
then saves `ready` without another look (`patronipostgres_controller.go:131`,
predicates `:173`), and no event follows by itself. Liveness excludes what the
operator cannot recover from: a server lost while Patroni is paused or before a
clean shutdown was written (`PodLossHeals`), a lost report of primary-upgrade
(`PrimaryResultLost`), a retry on an emptied volume (`EmptiedRetried`). And
`UpgradeCompletes` promises nothing after a server that outlives the scaledown has
met a script on its volume (`[]VolumeExclusive`, which fails only with
`AvailableWhileRunning = FALSE`): such a server may be counted ready for a pod of
the upgraded cluster, and the next upgrade then finds its volume empty.

`PreupgradeSync` assumes that the job's queries are answered or fail, that failed
jobs are repeated, that replication goes on and Patroni starts and promotes; that
no server stops between the pause and the job's success is a proviso of
`SyncEnds` itself. `NodeScaling` assumes the operator's worker, the StatefulSet
controller, the kubelets, the job, replication and Patroni's choices of leader
and standby, each by itself. `ResourceReconcile` assumes the worker of the elected
process, resyncs (by default every ten hours; nothing else notices a deleted
service), Patroni's bootstrap and the garbage collector.

## What the model shows about the code

* *Scaledown* (`scaledown.go:59`): `AvailableReplicas` is 0 for servers that are
  not ready or are stopping. Under that reading the safety of the volumes
  (`VolumeExclusive`), the clients' exclusion (`ClientsShutOut`) and
  `IdentityKnown` do not hold; they are shown under the stronger reading.
* *Lost report* (`primary.go:179`): only the run that upgrades knows the old
  checkpoint; every later run reports none, and the stage `secondaries` cannot
  begin.
* *Emptied volume* (`secondary-upgrade:22`): with `set -e` the script fails
  wherever `data` is absent, so it is not repeatable once it has emptied a
  volume, nor resumable between `rm` and `mv` although `data.new.done` is there.
* *Link window* (`primary-upgrade:23`): `pg_control.old` exists before the files
  are linked.
* *Leftover configuration* (`secondary-upgrade:49-56`): a run killed inside rsync
  leaves `data.preserve`, the next run empties the volume, and the next upgrade
  in place installs the files saved then. `ConfigurationKept` therefore admits a
  member's own files of an earlier upgrade; without that it fails with
  `Upgrades = 2`.
* *Server lost while paused* (`preupgrade-sync.go:242`): nothing resumes Patroni
  before the primary has been upgraded, and nothing upgrades it before it was shut
  down cleanly. `SyncEnds` fails without its proviso.
* *Replica counted twice* (`preupgrade-sync.go:85`): while the primary still shows
  the former connection of a replica, its two rows make up the number the job
  waits for, and another replica that is not connected goes unasked. With
  `FormerRows = TRUE`, `RestorePointsSynced` fails.
* *Nodes added during an upgrade* (`postupgrade.go:61`): no pass of the chain
  creates their claims, and the upgrade waits for their pods. The same holds for
  nodes and version changed in one edit, when the upgrade begins first.
* *Nodes removed together* (`pvc.go:118`): leader and standby may be among them;
  their claims go in the pass that scales the StatefulSet. With `Careful = FALSE`,
  `CommittedDataKept` fails.
* *Index used again* (`pvc.go:75`): a claim of that name that is still terminating
  counts as existing and is patched. When a node is removed and added again before
  the StatefulSet was scaled, its pod runs on and keeps the claim terminating, and
  what replicates to that volume goes with the pod. Later, the claim's
  disappearance is an event and the next pass creates a new one. With
  `Hasty = TRUE`, `ClaimsFollowNodes` and `CommittedDataKept` fail.
* *Cluster created again at once* (`secret.go:53`, `configmap.go:75`): objects of
  the deleted cluster have an owner, so the new one leaves secret and ConfigMaps
  alone, while its claims get the new owner. The collector then deletes the
  secret, the next pass generates another password, and the database keeps the
  old one; Patroni's annotations are lost alike. With `CollectedFirst = FALSE`,
  `PasswordFits` and `AnnotationsKept` fail.
* *Former leader* (`main.go:80`): optimistic concurrency stops a late update, but
  not a late read and update. With `Lingering = TRUE`, a process that goes on for
  a whole upgrade after it lost the lease sets an annotation that the new leader
  has cleared, and `UpgradeCleared` fails.
* *Target withdrawn*: editing `spec.version` back in the middle of an upgrade
  ends in a `ready` cluster whose every pass rejects the older version.

## Sensitivity

Each property has a faulty variant of the code it must notice.

| variant | of | noticed by |
|---|---|---|
| `AdvanceUnnamed` | `Advance` | `TypeOK` |
| `ScaledDownAtOnce` | `ScaledDown` | `VolumeExclusive` |
| `MovedForgotten` | `Moved` | `MatchingBinaries`, `ImplementsContract` |
| `MovedBlindly` | `MovedVolume` | `LeaderHasDatabase` |
| `NextStageDocumented` | `NextStage` | `ClientsShutOut` |
| `DeletedLater` | `Deleted` | `JobsInTheirStage` |
| `CleanedUpUnlessFailed` | `CleanedUp` | `SecondaryJobsInTheirStage` |
| `ClearedArgsOnly` | `Cleared` | `CheckpointFresh` |
| `SettingsForgotten` | `SettingsRecorded` | `InitdbArgsKnown` |
| `IdentifiedStillPaused`, `ResumedUnidentified` | `Identified` | `PausedOnTheWayDown`, `IdentityKnown` |
| `AnyTarget`, `TargetsOfTheWanted` | `AllowedTargets` | `TargetSupported`, `WantedVersionReached` |
| `SucceededOrFailed` | `Succeeded` | `VersionFollowsData` |
| `NeverRequeued` | `Requeued` | `UpgradeCompletes` |
| `AlwaysMovable` | `Movable` | `LeaderKeepsDatabase` |
| `InPlaceUnchecked` | `InPlace` | `WholeOrEmpty` |
| `UpgradedBefore`, `NeverUpgraded` | `UpgradedAlready` | `UpgradedDatabaseInDataNew`, `UpgradeEnds` |
| `FreshClusterOfAnother` | `FreshCluster` | `TypeOK` of `UpgradeScripts` |
| `SavedAgain` | `Saved` | `ConfigurationKept` |
| `ReadReplicasAgain` | `ReadReplicas` | `TypeOK` of `PreupgradeSync` |
| `CaughtUpToAny` | `CaughtUp` | `RestorePointsSynced` |
| `CompareNothing` | `Compare` | `LatestCheckpointShared` |
| `WaitReplicasOnce` | `WaitReplicas` | `SyncEnds` |
| `UpdateStatusAppending` | `UpdateStatus` | `TypeOK` of `NodeScaling` |
| `LeftoverByCount` | `Leftover` | `CommittedDataKept` |
| `PodGoneUnnoticed` | `PodGone` | `ClaimsFollowNodes` |
| `CountReadyUnnoticed` | `CountReady` | `NodesServed` |
| `StagePassOnce` | `StagePass` | `UpgradeEnds` of `NodeScaling` |
| `AdvanceBeyond` | `Advance` | `TypeOK` of `ResourceReconcile` |
| `AcceptedAlways` | `Accepted` | `AnnotationsKept`, `UpgradeCleared` |
| `AcceptedOver` | `Accepted` | `PasswordFits` |
| `LeavesAllAlone` | `LeavesAlone` | `ResourcesReconciled` |

## Proofs

Every theorem holds for all values of the constants that its module's assumptions
on them admit: any number of nodes, members, processes, writes, faults. What a
theorem assumes beyond those is in its statement and in the tables below: always
that a constant has the value that the passing run gives it, with the reason why
it cannot be dropped. Each invariant was checked by TLC, with the numbers of states
below, before it was proved.

### UpgradeOperatorProofs

`UpgradeOperatorProofs` proves, for every number of nodes N > 0 and both
readings of `AvailableReplicas`:

| theorem | property |
|---|---|
| `TypeCorrect` | `TypeOK` |
| `JobsStayInTheirStage` | `JobsInTheirStage` |
| `PausedOnlyOnTheWayDown` | `PausedOnTheWayDown` |
| `UpgradeUnderWayHasTarget` | a status at a stage has a target |
| `TargetStaysSupported` | `TargetSupported` |

Assumptions: `NAssumption`, `AvailableAssumption`; the registry's images are
definitions, not assumptions.

*The argument.* `JobsInTheirStage` is not inductive: it speaks of the persisted
status, while jobs are created and deleted by passes, which act on what they
read when they began. `Inductive` ties the two together. `PassInItsStage`: a
pass at a stage's call has the persisted status's stage in its copy, up to the
step that has advanced the copy and has yet to save it. `NothingLeftBehind`:
once the copy is advanced, the job (and the streamer) of the persisted stage are
gone, so that saving cannot strand them; if the save fails the stage is the old
one, and an absent job is no harm. `JobHasNode`, `StagesHaveTargets`: what jobs
and stages rely on exists. `NothingToSkip` and `ResumedBeforeMovingOn` do the
same for the shortcuts of one-node clusters and for the pause: a pass that has
finished the stage `primary` has resumed Patroni, and nothing after it pauses
again. `StatusesMeant` is a second invariant: the status and a pass's copy of it
offer only upgrades of the version they declare, or of an earlier one once the
upgrade has moved the data. Each is preserved by each action: one lemma per
group of actions for the types, one step per action for the rest.

TLC checked both invariants for N = 1 and N = 2.

### UpgradeSafetyProofs

For every number of nodes, assuming `AvailableWhileRunning`, that a pod counts as
available while it exists:

| theorem | property |
|---|---|
| `VolumesKeptApart` | `VolumeExclusive` |
| `BinariesMatchDatabases` | `MatchingBinaries` |
| `LeaderKeepsDatabase` | `LeaderHasDatabase` |
| `ClientsStayOut` | `ClientsShutOut` |
| `SecondaryJobsStay` | `SecondaryJobsInTheirStage` |
| `CheckpointIsFresh` | `CheckpointFresh` |
| `InitdbArgsAreKnown` | `InitdbArgsKnown` |
| `IdentityIsKnown` | `IdentityKnown` |
| `DatabaseStaysStopped` | `DatabaseStopped` |
| `VersionFollowsTheData` | the action property `VersionFollowsData` |

The assumption is what `scaledown.go:59` relies on. Without it the first, the
fourth and the two about identity and stopped databases fail: `DatabaseStopped` is
the property that the run `stopped_by_scaledown` violates under the other reading,
so the theorem and the run together say exactly what the stage depends on.

*The argument.* The properties relate places that different passes write at
different times: pods, volumes, jobs, four annotations, the status. `Fits(st)`
says for a status `st` what each of these is at its stage: the pods are gone and
listen where they should (`Apart`), which databases are on which volumes
(`LeaderDatabase`, `OtherDatabases`, `NoDatabase`), what the jobs were told and
what they report (`UpJob`, `MoveJob`, `PreupgradeJob`, `SecondaryJobs`), and what
the annotations carry on (`Recorded`). It is required of the persisted status
*and* of the one that a pass with a current resource version is about to save
(`Held`). So a save disturbs nothing, and the obligation falls on the step that
decides to advance: it must show that the next stage's facts hold already.
`StatusRead` says how the one follows from the other, `Progress` what a pass has
seen before it moves on (a job's success, the recorded identity, each secondary's
outcome). A pass whose copy is stale holds nothing, since its save is refused;
that is where optimistic concurrency enters the proof. There is one lemma per
group of actions; the lemmas `KnownKept` ... `JobFits` say which variables each
part depends on.

TLC checked `Safe` for N = 1 (7 773 states), N = 2 (72 621) and N = 3 (489 765).

### UpgradeContractProofs

| theorem | property |
|---|---|
| `OperatorKeepsContract` | `ImplementsContract`, assuming `AvailableWhileRunning` |

The refinement, for every number of nodes: `Init` maps to `ContractInit`, and each
step of `UpgradeOperator` to an action of the contract or a stutter, under the
mapping of `MCUpgradeOperator`. `DatabaseVersionIs` computes the abstract version
from the leader's volume, `OpenAtItsVersion` says that a server clients can reach
has the declared version's database, and `QuietStep` reduces the steps that the
contract does not see to the variables they leave alone. The other steps have a
lemma per group.

### UpgradeScriptsProofs

For every set of members and any number of upgrades, kills and repetitions:

| theorem | property | assuming |
|---|---|---|
| `ScriptTypeCorrect` | `TypeOK` | |
| `UpgradedDatabaseIsInDataNew` | `UpgradedDatabaseInDataNew` | `LinkWindow = FALSE` |
| `LeaderNeverLosesDatabase` | `LeaderKeepsDatabase` | `LinkWindow = FALSE` |
| `VolumesWholeOrEmpty` | `WholeOrEmpty` | `LinkWindow = FALSE` |
| `ConfigurationStays` | `ConfigurationKept` | `LinkWindow = FALSE` |

`LinkWindow = FALSE` cannot be dropped, as the run `link_window` shows;
`SwapWindow` may be open. Further assumptions: `BoundsAssumption` (the bounds are
numbers).

*The argument.* None of the properties says what a script relies on when it starts
over, so `Inductive` gives each volume an assertion per command of its script:
`PrimaryVolume` (the old database is whole until `pg_control` is renamed; from
then on it is `data.new` that is complete when the script begins again),
`SecondaryVolume` (`data.new.done` is never anything but a complete upgraded
copy, and is there only while `data` is not one; only a volume at the leader's
checkpoint gets as far as rsync) and `MoveVolume` (one of `data.new` and `data` is
the upgraded database). `ScriptsOfTheStage` ties commands to stages and is all
that the types need (`Sound`). `WritesKeep` reduces a step to the assertion about
the one volume it writes; `TornVolume` shows that what a kill leaves satisfies the
assertion of the command `begin`.

TLC checked this invariant for three members, two upgrades and two faults.

`ConfigurationStays` needs to know whose configuration files are where
(`FilesKnown`). What secondary-upgrade streams over `data` are the leader's files;
by then the member's own are in `data.preserve`, and stay there until the copy that
has them is `data`. On the leader they are copied into `data.new` by the last
command of primary-upgrade. Once `data` is disabled the script takes `data.new` for
complete when it begins again, so a kill between the two (in the link window, which
the assumption closes) would leave initdb's files there. TLC checked `FilesKnown` on
the run's instance (110 397 states) and with `SwapWindow = TRUE` (128 028).

### PreupgradeSyncProofs

For every set of at least two servers and any number of writes and faults:

| theorem | property | assuming |
|---|---|---|
| `SyncTypes` | `TypeOK` | |
| `RestorePointsStaySynced` | `RestorePointsSynced` | `FormerRows = FALSE` |
| `LoopEndsAtOneCheckpoint` | the action property `LatestCheckpointShared` | `FormerRows = FALSE` |

`FormerRows = FALSE` cannot be dropped: with a former row `RestorePointsSynced`
fails (see "Replica counted twice").

*The argument.* `Sound` is what WAL and control files are: a control file names a
checkpoint that its server has replayed, and only the primary writes
(`PrimaryMeant`). `CycleMeant` follows the job's loop: once the position was read
the primary can be recovered from its checkpoint, each replica that has answered
well (`Answered`) has that checkpoint too, and `synced` counts no more than those.
When the count reaches the number of the others, none is left out
(`Cardinality` of a subset). `TypeOK` is not obvious here either, since it bounds
the length of the WAL: `Limited` accounts for each record by a write, by a fault
or by one the job has yet to make (`Limit`, with `PromotionDue` and
`CheckpointDue`). The latest checkpoint below a position exists by the
well-foundedness of the natural numbers (`Greatest`).

TLC checked the invariants on the run's instance (248 082 states), with two faults
(6 675 055), and `Sound`, `Limited` and `Answers` with `FormerRows = TRUE`
(8 379 595).

### NodeScalingProofs

For every bound on nodes, edits, writes and faults:

| theorem | property | assuming |
|---|---|---|
| `ScalingTypes` | `TypeOK` | |
| `CommittedDataStays` | `CommittedDataKept` | `Careful`, not `Hasty`, not `DuringUpgrade` |

The three assumptions are about the user: nodes are removed one at a time, from a
settled cluster whose leader and standby run (and no pod is evicted meanwhile); no
edit before the last one was acted on; no change of `nodes` during an upgrade. None
can be dropped: the first two as said under "What the model shows about the code",
and with `DuringUpgrade = TRUE` TLC finds `CommittedDataKept` violated once
`MaxWrites` and `MaxFaults` are 2: a node removed while an upgrade is under way keeps
its pod and claim until the upgrade has ended, is elected and commits in between, and
then the chain deletes its claim.

*The argument.* `DatabaseMeant`: leader and synchronous standby have everything
that was committed; at most one of them is `Leaving`, and not before the other one
runs. `ClaimMeant` ties a volume's life to its claim and pod: a claim beyond
`nodes` that is still bound is one that the pass has yet to delete, so that the
user cannot have edited again. `PassMeant`: a pass works on the number of nodes
that is declared, and neither the chain's passes nor edits overlap with an upgrade.
Only the standby takes over from a lost leader, and it has everything, so a
failover keeps `DatabaseMeant`.

TLC checked the invariant on the run's instance (507 069 states) and with three
edits, two writes and two faults (10 824 297).

### ResourceReconcileProofs

For every set of resources that has the four the database needs, any number of
processes, and all bounds:

| theorem | property | assuming |
|---|---|---|
| `TypesHold` | `TypeOK` | |
| `PatroniIsNotOverwritten` | `AnnotationsKept` | `CollectedFirst` |
| `PasswordStays` | `PasswordFits` | `CollectedFirst` |
| `AnnotationStaysCleared` | `UpgradeCleared` | `CollectedFirst`, not `Lingering` |

`CollectedFirst`: the user creates a cluster of the same name again only when the
garbage of the former one is gone; what happens otherwise is described above
("Cluster created again at once"). `Lingering = FALSE`: of
a process that has lost the lease at most the call under way still completes
("Former leader"); the first three theorems do not need it.

*The argument.* `Reconciled`: every object and every copy that a pass holds belongs
to the latest instance, or is the user's own secret not yet adopted (`UidsMeant`,
`ObjectsMeant`), a copy that is still `fresh` is the object (`CopySound`), and
what the database depends on exists (`Kept`). An update is accepted only for a
fresh copy, and leaves alone what the copy has, so that it cannot undo what
Patroni wrote since. For the upgrade's annotation three more facts are needed.
`UnadoptedEarly`: a ConfigMap still to be adopted means that no upgrade has begun.
`Behind`: no pass is ahead of the instance's stage. `AnnotationMeant`: once the
annotation is cleared, a pass that would still set it belongs to a process that is
not elected and whose copy is not fresh (`SetsOver`). The next place of a pass is
the least of `Beyond(i)`, which exists by well-foundedness.

TLC checked the invariants on the run's instance (358 261 states), with four events
and without `headless` (3 268 857), and without `AnnotationMeant` for
`Lingering = TRUE` (5 977 830).

### What is not proved

Every safety property that a passing run checks is also a theorem. *Only
model-checked* is liveness, which is out of the prover's reach: `UpgradeCompletes`,
`WantedVersionReached`, `UpgradeEnds` (of `UpgradeScripts` and `NodeScaling`),
`SyncEnds`, `ClaimsFollowNodes`, `NodesServed`, `ResourcesReconciled`. So are `MatchingBinaries` and
`SecondaryJobsInTheirStage` when `AvailableWhileRunning` is `FALSE`, as the run
`upgrade_liveness` has it: the invariant above does not hold there, and a weaker one
that does is still to be found.

## Not modelled, and what comes next

In order:

1. Proofs: `MatchingBinaries` and `SecondaryJobsInTheirStage` under both readings of
   `AvailableReplicas`; that a stage of `UpgradeScripts`, and a cycle of
   `PreupgradeSync`, does what one step of a job does in `UpgradeOperator`.
2. A job with its pods, which of several pods' logs is read, and deletion in the
   background, composed with two instances of a script on one volume;
   `UpgradeOperator` takes a job and its pods for one thing.
3. The job or streamer that a former leader of the election creates late.

Left out for good: `spec.ignore` (a pass that does nothing), postupgrade's
goroutines over the databases (its failures are those of its job), labels,
selectors, affinity and the rest of the templates, flags and health checks,
generated code.
