---------------------------- MODULE UpgradeScripts ----------------------------
(***************************************************************************)
(* The shell scripts that convert the data volumes, command by command:    *)
(* primary-upgrade on the leader's volume, then secondary-upgrade on every *)
(* other one, then primary-upgrade-move on the leader's.  A container may  *)
(* be killed during any command; the script then starts over on what it    *)
(* finds, and is started once more after it succeeded when the operator's  *)
(* record of the success is lost.                                          *)
(*                                                                         *)
(* UpgradeOperator has each of these scripts as one step.  The operator is *)
(* here only what runs the scripts one stage after the other.              *)
(*                                                                         *)
(* A definition marked (variant) is a faulty form of the one it precedes,  *)
(* used by no specification: README.md, "Sensitivity".                     *)
(***************************************************************************)
EXTENDS Integers

CONSTANTS
    Members,    \* the nodes of the cluster, each with a volume
    Upgrades,   \* how many upgrades a behaviour contains
    MaxFaults,  \* how many kills and repetitions
    LinkWindow, \* may primary-upgrade be killed once pg_control is renamed?
    SwapWindow  \* may secondary-upgrade be run once data is gone?

ASSUME MembersAssumption == Members # {}
ASSUME BoundsAssumption == Upgrades \in Nat /\ MaxFaults \in Nat
ASSUME WindowsAssumption == LinkWindow \in BOOLEAN /\ SwapWindow \in BOOLEAN

VARIABLES
    stage,    \* what the ladder is at
    version,  \* the cluster's version: upgrades are to version + 1
    leader,   \* the sync leader
    synced,   \* the members whose last checkpoint is the leader's
    vol,      \* the directories on the volumes
    script,   \* the command each member's script is at
    faults

vars == <<stage, version, leader, synced, vol, script, faults>>

-----------------------------------------------------------------------------
(* Directories.                                                            *)

Release == 1 .. Upgrades + 1

(* The configuration files in a directory: whose they are and which        *)
(* release they were last written at; NoConf for none or initdb's.         *)
NoConf == <<>>
Conf   == (Members \X Release) \cup {NoConf}

(* A data directory is absent; partial: in the middle of being copied,     *)
(* linked or removed, or damaged; fresh from initdb; whole; or disabled:   *)
(* complete, with its pg_control renamed by pg_upgrade.  ver is what its   *)
(* PG_VERSION says, 0 when there is none.                                  *)
Dir    == [is : {"absent", "partial", "fresh", "whole", "disabled"},
           ver : Release \cup {0}, conf : Conf]
Absent == [is |-> "absent", ver |-> 0, conf |-> NoConf]

Whole(d, v) == d.is = "whole" /\ d.ver = v

(* data, data.new and data.new.done, and the files in data.preserve.       *)
Volume == [data : Dir, new : Dir, done : Dir, preserve : Conf]

Stages == {"serving", "primary", "secondaries", "move"}
Idle   == "idle"
Over   == "over"
Commands == {"begin", "clean", "initdb", "disable", "link", "config",
             "compare", "preserve", "rsync", "restore", "mark", "remove", "install"}

TypeOK ==
    /\ stage \in Stages
    /\ version \in Release
    /\ leader \in Members
    /\ synced \subseteq Members
    /\ vol \in [Members -> Volume]
    /\ script \in [Members -> Commands \cup {Idle, Over}]
    /\ faults \in 0 .. MaxFaults

Init ==
    /\ stage = "serving"
    /\ version = 1
    /\ leader \in Members
    /\ synced = {}
    /\ vol = [n \in Members |->
                 [data |-> [is |-> "whole", ver |-> 1, conf |-> <<n, 1>>],
                  new |-> Absent, done |-> Absent, preserve |-> NoConf]]
    /\ script = [n \in Members |-> Idle]
    /\ faults = 0

-----------------------------------------------------------------------------
(* Commands.                                                               *)

(* n's script, at a command, goes on to another and leaves its volume as v.*)
Run(n, command, next, v) ==
    /\ script[n] = command
    /\ script' = [script EXCEPT ![n] = next]
    /\ vol' = [vol EXCEPT ![n] = v]
    /\ UNCHANGED <<stage, version, leader, synced, faults>>

Partial(d) == [d EXCEPT !.is = "partial"]

-----------------------------------------------------------------------------
(* primary-upgrade.                                                        *)

(* (variant) The script has no memory of its earlier runs.                 *)
NeverUpgraded(v) == FALSE
(* (variant) Whatever is in data.new counts as the upgraded database.      *)
UpgradedBefore(v) == v.new.is # "absent"
(* With pg_control renamed (pg_control.old) the upgrade counts as done.    *)
UpgradedAlready(v) == v.data.is = "disabled"

(* The old version must be the one expected, or the script fails.          *)
PrimaryBegin(n) ==
    LET v == vol[n] IN
    /\ stage = "primary"
    /\ IF UpgradedAlready(v)
       THEN Run(n, "begin", Over, v)
       ELSE Whole(v.data, version) /\ Run(n, "begin", "clean", v)

PrimaryClean(n) ==
    /\ stage = "primary"
    /\ Run(n, "clean", "initdb", [vol[n] EXCEPT !.new = Absent])

(* (variant) Binaries of the wrong release.                                *)
FreshClusterOfAnother == [is |-> "fresh", ver |-> version + 1 + Upgrades, conf |-> NoConf]
FreshCluster == [is |-> "fresh", ver |-> version + 1, conf |-> NoConf]

PrimaryInitdb(n) == Run(n, "initdb", "disable", [vol[n] EXCEPT !.new = FreshCluster])

(* pg_upgrade --link: once the schema is restored the old cluster is       *)
(* disabled, then its files are linked into the new one.                   *)
PrimaryDisable(n) == Run(n, "disable", "link", [vol[n] EXCEPT !.data.is = "disabled"])
PrimaryLink(n)    == Run(n, "link", "config", [vol[n] EXCEPT !.new.is = "whole"])

(* The new cluster must have the version expected, or the script fails; it *)
(* gets the old one's configuration files.                                 *)
PrimaryConfig(n) ==
    /\ vol[n].new.ver = version + 1
    /\ Run(n, "config", Over, [vol[n] EXCEPT !.new.conf = vol[n].data.conf])

PrimaryUpgrade(n) ==
    \/ PrimaryBegin(n) \/ PrimaryClean(n) \/ PrimaryInitdb(n)
    \/ PrimaryDisable(n) \/ PrimaryLink(n) \/ PrimaryConfig(n)

-----------------------------------------------------------------------------
(* secondary-upgrade.                                                      *)

(* Is there a copy that an earlier run completed?  (data.new.done)         *)
Copied(v) == v.done.is # "absent"

(* Nothing to do when data is the new database already; reading PG_VERSION *)
(* where there is none ends the script (set -e).                           *)
SecondaryBegin(n) ==
    LET v == vol[n] IN
    /\ stage = "secondaries"
    /\ v.data.ver # 0
    /\ Run(n, "begin", IF Whole(v.data, version + 1) THEN Over
                       ELSE IF Copied(v) THEN "remove" ELSE "clean", v)

SecondaryClean(n) ==
    /\ stage = "secondaries"
    /\ Run(n, "clean", "compare", [vol[n] EXCEPT !.new = Absent])

(* (variant) The checkpoints are not compared.                             *)
InPlaceUnchecked(n) == Whole(vol[n].data, version)
(* pg_controldata reads the checkpoint of an intact data directory; a      *)
(* volume is converted in place when it is the leader's final one.         *)
InPlace(n) == Whole(vol[n].data, version) /\ n \in synced

SecondaryCompare(n) ==
    Run(n, "compare", IF InPlace(n) THEN "preserve" ELSE "remove", vol[n])

(* (variant) The files are saved again by every run.                       *)
SavedAgain(v) == v.data.conf
(* A file saved by an earlier run is not saved again: rsync may have       *)
(* replaced the one in data since.                                         *)
Saved(v) == IF v.preserve = NoConf THEN v.data.conf ELSE v.preserve

SecondaryPreserve(n) ==
    Run(n, "preserve", "rsync", [vol[n] EXCEPT !.preserve = Saved(vol[n])])

(* From the leader's volume: data, whose files are there already, and      *)
(* data.new, hard links to them.  Files are compared by their size alone:  *)
(* the result is the leader's only if the volumes were at one checkpoint.  *)
SecondaryRsync(n) ==
    LET streamed == IF n \in synced THEN vol[leader].new ELSE Partial(vol[leader].new)
    IN  Run(n, "rsync", "restore", [vol[n] EXCEPT !.data = vol[leader].data, !.new = streamed])

SecondaryRestore(n) == Run(n, "restore", "mark", [vol[n] EXCEPT !.new.conf = vol[n].preserve])

SecondaryMark(n) ==
    Run(n, "mark", "remove", [vol[n] EXCEPT !.done = vol[n].new, !.new = Absent])

SecondaryRemove(n) ==
    /\ stage = "secondaries"
    /\ Run(n, "remove", "install", [vol[n] EXCEPT !.data = Absent])

(* The completed copy becomes data; without one, data stays away.          *)
Installed(v) ==
    IF v.done.is = "absent" THEN v
    ELSE [v EXCEPT !.data = v.done, !.done = Absent, !.preserve = NoConf]

SecondaryInstall(n) ==
    /\ stage = "secondaries"
    /\ Run(n, "install", Over, Installed(vol[n]))

SecondaryUpgrade(n) ==
    \/ SecondaryBegin(n) \/ SecondaryClean(n) \/ SecondaryCompare(n)
    \/ SecondaryPreserve(n) \/ SecondaryRsync(n) \/ SecondaryRestore(n)
    \/ SecondaryMark(n) \/ SecondaryRemove(n) \/ SecondaryInstall(n)

-----------------------------------------------------------------------------
(* primary-upgrade-move.                                                   *)

(* (variant) data is removed even when data.new has been moved already.    *)
AlwaysMovable(v) == TRUE
(* Is there a data.new to move?                                            *)
Movable(v) == v.new.is # "absent"

MoveBegin(n) ==
    /\ stage = "move"
    /\ Run(n, "begin", IF Movable(vol[n]) THEN "remove" ELSE Over, vol[n])

MoveRemove(n) ==
    /\ stage = "move"
    /\ Run(n, "remove", "install", [vol[n] EXCEPT !.data = Absent])

MoveInstall(n) ==
    /\ stage = "move"
    /\ Run(n, "install", Over, [vol[n] EXCEPT !.data = vol[n].new, !.new = Absent])

Move(n) == MoveBegin(n) \/ MoveRemove(n) \/ MoveInstall(n)

-----------------------------------------------------------------------------
(* Kills and repetitions.                                                  *)

(* What rsync has done to a volume when it is killed: some files of data   *)
(* (its configuration among them) are the leader's, all of them are, or    *)
(* part of data.new is there as well.                                      *)
RsyncTorn(v) ==
    LET source == vol[leader]
        synced_data == [v EXCEPT !.data = source.data]
    IN  {v, [v EXCEPT !.data.conf = source.data.conf], synced_data,
         [synced_data EXCEPT !.new = Partial(source.new)]}

(* What a command leaves behind when it is killed, beside doing nothing:   *)
(* rm may or may not have come to PG_VERSION.                              *)
Torn(n) ==
    LET v == vol[n] IN
    CASE script[n] \in {"clean", "initdb", "disable", "link"} ->
            {[v EXCEPT !.new = [Partial(FreshCluster) EXCEPT !.conf = v.new.conf]]}
      [] script[n] = "config"  -> {v, [v EXCEPT !.new.conf = v.data.conf]}
      [] script[n] = "rsync"   -> RsyncTorn(v)
      [] script[n] = "restore" -> {v, [v EXCEPT !.new.conf = v.preserve]}
      [] script[n] = "remove"  ->
            {v, [v EXCEPT !.data.is = "partial"],
             [v EXCEPT !.data.is = "partial", !.data.ver = 0]}
      [] script[n] = "install" /\ stage = "secondaries" /\ Copied(v) ->
            {v, [v EXCEPT !.preserve = NoConf]}
      [] OTHER -> {v}

Fault == faults < MaxFaults /\ faults' = faults + 1

(* The windows the constants may close.                                    *)
Allowed(n, v) ==
    /\ ~LinkWindow => script[n] \notin {"link", "config"}
    /\ ~SwapWindow => (stage = "secondaries" => v.data.ver # 0)

Killed(n) ==
    /\ Fault
    /\ script[n] \in Commands \ {"begin"}
    /\ \E v \in Torn(n) :
        /\ Allowed(n, v)
        /\ vol' = [vol EXCEPT ![n] = v]
    /\ script' = [script EXCEPT ![n] = "begin"]
    /\ UNCHANGED <<stage, version, leader, synced>>

(* The job was deleted, the operator's status update lost: a new job.      *)
Repeated(n) ==
    /\ Fault
    /\ script[n] = Over
    /\ Allowed(n, vol[n])
    /\ script' = [script EXCEPT ![n] = "begin"]
    /\ UNCHANGED <<stage, version, leader, synced, vol>>

-----------------------------------------------------------------------------
(* The ladder and the cluster between upgrades.                            *)

EnterStage(s, scripts) ==
    /\ stage' = s
    /\ script' = [n \in Members |-> IF n \in scripts THEN "begin" ELSE Idle]

(* Every member is in the cluster, so Patroni has configured it; whether   *)
(* the last checkpoint of a replica is the leader's depends on how the     *)
(* servers were stopped.                                                   *)
StartUpgrade ==
    /\ stage = "serving"
    /\ version <= Upgrades
    /\ \A n \in Members :
          Whole(vol[n].data, version) /\ vol[n].data.conf = <<n, version>>
    /\ EnterStage("primary", {leader})
    /\ \E s \in SUBSET Members : leader \in s /\ synced' = s
    /\ UNCHANGED <<version, leader, vol, faults>>

FinishPrimary ==
    /\ stage = "primary"
    /\ script[leader] = Over
    /\ EnterStage("secondaries", Members \ {leader})
    /\ UNCHANGED <<version, leader, synced, vol, faults>>

FinishSecondaries ==
    /\ stage = "secondaries"
    /\ \A n \in Members \ {leader} : script[n] = Over
    /\ EnterStage("move", {leader})
    /\ UNCHANGED <<version, leader, synced, vol, faults>>

FinishMove ==
    /\ stage = "move"
    /\ script[leader] = Over
    /\ EnterStage("serving", {})
    /\ version' = version + 1
    /\ synced' = {}
    /\ UNCHANGED <<leader, vol, faults>>

Serving(n, d) ==
    /\ stage = "serving"
    /\ vol' = [vol EXCEPT ![n].data = d]
    /\ UNCHANGED <<stage, version, leader, synced, script, faults>>

(* Patroni writes a member's configuration when it starts it.              *)
Configure(n) ==
    /\ Whole(vol[n].data, version)
    /\ vol[n].data.conf # <<n, version>>
    /\ Serving(n, [vol[n].data EXCEPT !.conf = <<n, version>>])

Clone(n) ==
    /\ vol[n].data = Absent
    /\ Whole(vol[leader].data, version)
    /\ Serving(n, [is |-> "whole", ver |-> version, conf |-> <<n, version>>])

Failover(n) ==
    /\ stage = "serving"
    /\ n # leader
    /\ Whole(vol[n].data, version)
    /\ leader' = n
    /\ UNCHANGED <<stage, version, synced, vol, script, faults>>

Scripts(n) == PrimaryUpgrade(n) \/ SecondaryUpgrade(n) \/ Move(n)
Ladder     == StartUpgrade \/ FinishPrimary \/ FinishSecondaries \/ FinishMove

Next ==
    \/ Ladder
    \/ \E n \in Members :
        \/ Scripts(n) \/ Configure(n) \/ Clone(n) \/ Failover(n)
        \/ Killed(n) \/ Repeated(n)

Spec == Init /\ [][Next]_vars

(* Containers run, the operator goes on, Patroni clones and configures.    *)
FairSpec ==
    /\ Spec
    /\ WF_vars(Ladder)
    /\ \A n \in Members : WF_vars(Scripts(n)) /\ WF_vars(Clone(n))

-----------------------------------------------------------------------------
(* Properties.                                                             *)

(* From the end of the primary's upgrade until it is moved, the upgraded   *)
(* database is in data.new, complete ("Upgraded database is in `data.new`, *)
(* which will be moved to its final location later.", upgrade/README.md).  *)
UpgradedDatabaseInDataNew ==
    stage = "secondaries" => Whole(vol[leader].new, version + 1)

(* Some directory on the leader's volume always holds all of the database, *)
(* whatever script is killed and run again (primary-upgrade,               *)
(* primary-upgrade-move).                                                  *)
LeaderKeepsDatabase ==
    \E d \in {vol[leader].data, vol[leader].new} : d.is \in {"whole", "disabled"}

(* Nothing but complete databases of the cluster's version is ever left    *)
(* for Patroni to start; a volume without one is empty, to be cloned       *)
(* (secondary-upgrade, primary-upgrade-move).                              *)
WholeOrEmpty ==
    \A n \in Members :
        /\ stage = "serving" => vol[n].data = Absent \/ Whole(vol[n].data, version)
        /\ (stage = "move" /\ n # leader)
              => vol[n].data = Absent \/ Whole(vol[n].data, version + 1)

(* A member upgraded in place keeps its own configuration: not the         *)
(* leader's, not initdb's (secondary-upgrade).  It is the one from before  *)
(* the upgrade, or, once an upgrade before has left data.preserve behind,  *)
(* the one of that time.                                                   *)
ConfigurationKept ==
    stage = "move" =>
        \A n \in Members : vol[n].data.is = "whole" =>
            \E v \in 1 .. version : vol[n].data.conf = <<n, v>>

(* An upgrade that has begun comes to its end.                             *)
UpgradeEnds == stage = "primary" ~> stage = "serving"
=============================================================================
