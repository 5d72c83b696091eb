-------------------------- MODULE MCUpgradeLiveness --------------------------
(***************************************************************************)
(* UpgradeOperator with fair components and faults and edits that end some *)
(* time: an operator that loses every status update, or a job that fails   *)
(* every time, keeps an upgrade from ever finishing.                       *)
(***************************************************************************)
EXTENDS MCUpgradeOperator

CONSTANTS
    PrimaryResultLost, \* may the first report of primary-upgrade be lost?
    EmptiedRetried     \* may secondary-upgrade be run again on an emptied volume?

ASSUME LostAssumption == PrimaryResultLost \in BOOLEAN
ASSUME EmptiedAssumption == EmptiedRetried \in BOOLEAN

(* A pod may be lost only where the stage reached can bring its server     *)
(* back: Patroni is not paused, and a stage that starts pods is under way  *)
(* or no upgrade is.                                                       *)
PodLossHeals ==
    /\ ~cm.pause
    /\ sts.replicas = N
    /\ status.state \in {"scaling", "ready", "upgrade-preupgrade-sync",
                         "upgrade-postupgrade"}

Refused     == job'["preupgrade"].args = None
SyncFailing == job'["preupgrade-sync"].phase = "failed"

(* The run of primary-upgrade that upgrades reports to a job that counts a *)
(* failure already: the operator deletes that job without reading the log. *)
UpUnread == UpRun /\ job["up"].phase = "failed"

(* The run of secondary-upgrade that empties a volume reports to a job     *)
(* that counts a failure already.                                          *)
SupUnread(n) == SupRun(n) /\ sup[n].phase = "failed" /\ vol'[n].data = None

(* A failed write, or one that conflicts with a user's edit, makes the     *)
(* secondaries stage create its jobs once more.                            *)
RetriesEmptied ==
    status.state = "upgrade-secondaries" /\ \E n \in Nodes : vol[n].data = None

Disturbance ==
    \/ Abort /\ ~Operator
    \/ \E n \in Nodes :
        PodUnready(n) \/ PodLost(n) \/ AcquireLeader(n) \/ SupFails(n) \/ SupUnread(n)
    \/ \E j \in Jobs : JobFails(j)
    \/ PreupgradeRun /\ Refused
    \/ SyncRun /\ SyncFailing
    \/ UpKilled \/ UpUnread

(* What the ladder does not recover from.                                  *)
Fatal ==
    \/ ~PodLossHeals /\ \E n \in Nodes : PodLost(n)
    \/ ~PrimaryResultLost /\ (UpKilled \/ UpUnread)
    \/ ~EmptiedRetried /\ RetriesEmptied /\ Abort
    \/ ~EmptiedRetried /\ \E n \in Nodes : SupUnread(n)

Fault == Disturbance /\ ~Fatal

Faultless ==
    \/ Operator
    \/ Pods
    \/ \E n \in Nodes : Bootstrap(n) \/ Clone(n) \/ (SupRun(n) /\ ~SupUnread(n))
    \/ PreupgradeRun /\ ~Refused
    \/ SyncRun /\ ~SyncFailing
    \/ UpRun /\ ~UpUnread
    \/ PostupgradeRun
    \/ MoveRun

(* The informers of the watches resync (every ten hours by default): the   *)
(* StatefulSet's event passes the predicate of SetupWithManager.  Between  *)
(* upgrades only: an upgrade is to end without such help.                  *)
Resync ==
    /\ status.target = None
    /\ ~queued
    /\ sts.port # None
    /\ queued' = TRUE
    /\ UNCHANGED <<specVersion, status, pass, objects, cluster>>

(* A wish expressed or taken back.  One that falls into the secondaries    *)
(* stage makes a write conflict, like a fault.                             *)
Edit == User /\ (status.state = "upgrade-secondaries" => EmptiedRetried)

LiveNext == Faultless \/ Resync \/ Fault \/ Edit

(* The controller's worker runs, the StatefulSet controller and the        *)
(* kubelets act, Patroni acts, and a job that can run does.                *)
Fairness ==
    /\ WF_vars(Operator)
    /\ WF_vars(Resync)
    /\ \A n \in Nodes :
        /\ WF_vars(PodStart(n))
        /\ WF_vars(PodReady(n))
        /\ WF_vars(PodRecovers(n))
        /\ WF_vars(PodAvailable(n))
        /\ WF_vars(PodStop(n))
        /\ WF_vars(Bootstrap(n))
        /\ WF_vars(Clone(n))
        /\ WF_vars(SupRun(n) /\ ~SupUnread(n))
    /\ WF_vars(PreupgradeRun /\ ~Refused)
    /\ WF_vars(SyncRun /\ ~SyncFailing)
    /\ WF_vars(UpRun /\ ~UpUnread)
    /\ WF_vars(PostupgradeRun)
    /\ WF_vars(MoveRun)

LiveSpec == Init /\ [][LiveNext]_vars /\ Fairness

(* However many there are, faults and edits end some time.                 *)
Calm == <>[][~Fault /\ ~Edit]_vars

(* A requested upgrade ends: every stage of the ladder is left again and   *)
(* the cluster arrives at the target, whatever was lost, failed or retried *)
(* on the way (upgrade.go, Handle).  Not promised once a server that is    *)
(* slow to go has met a script on its volume: see DatabaseStopped.         *)
UpgradeCompletes ==
    Calm /\ []VolumeExclusive =>
        \A v \in Versions :
            status.target = v ~> (status.target = None /\ status.version = v)

(* A newer version that the admission policy let into the spec is reached, *)
(* unless the user takes the wish back.  A wish expressed while the status *)
(* still says "scaling" may be read by the very pass that finds the        *)
(* cluster ready; it then waits for the next event, if need be a resync.   *)
WantedVersionReached ==
    Calm =>
        \A v \in Versions :
            (status.version # None /\ status.version < v /\ specVersion = v)
                ~> (status.version = v \/ specVersion # v)
=============================================================================
