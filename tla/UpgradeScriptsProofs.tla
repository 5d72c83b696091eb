------------------------- MODULE UpgradeScriptsProofs -------------------------
(***************************************************************************)
(* Theorems about UpgradeScripts, for every set of members and any number  *)
(* of upgrades, kills and repetitions.  That the leader keeps its          *)
(* database, that volumes are left whole or empty and that members keep    *)
(* their configuration rest on one assumption, ~LinkWindow: primary-upgrade*)
(* is not killed between the renaming of pg_control and its end.           *)
(***************************************************************************)
EXTENDS UpgradeScripts, TLAPS

-----------------------------------------------------------------------------
(***************************************************************************)
(* The inductive invariant.                                                *)

PrimaryCommands   == {"begin", "clean", "initdb", "disable", "link", "config", Over}
SecondaryCommands == {"begin", "clean", "compare", "preserve", "rsync", "restore",
                      "mark", "remove", "install", Over}
MoveCommands      == {"begin", "remove", "install", Over}

(* A script runs in its own stage, on its own volume.                      *)
CommandsOf(n) ==
    CASE stage = "primary" /\ n = leader     -> PrimaryCommands
      [] stage = "secondaries" /\ n # leader -> SecondaryCommands
      [] stage = "move" /\ n = leader        -> MoveCommands
      [] OTHER                               -> {Idle}

ScriptsOfTheStage == \A n \in Members : script[n] \in CommandsOf(n)

(* There is a release to upgrade to.                                       *)
ReleaseAhead == stage # "serving" => version <= Upgrades

Old(d)      == Whole(d, version)
New(d)      == Whole(d, version + 1)
Disabled(d) == d.is = "disabled" /\ d.ver = version

(* The leader's volume between the commands of primary-upgrade.            *)
PrimaryVolume(v, command) ==
    /\ command = "begin" => Old(v.data) \/ (Disabled(v.data) /\ New(v.new))
    /\ command \in {"clean", "initdb", "disable"} => Old(v.data)
    /\ command \in {"disable", "link"} => v.new.ver = version + 1
    /\ command = "link" => Disabled(v.data)
    /\ command \in {"config", Over} => Disabled(v.data) /\ New(v.new)

(* The leader's volume between the commands of primary-upgrade-move.       *)
MoveVolume(v, command) ==
    /\ command = "begin" => New(v.new) \/ (v.new = Absent /\ New(v.data))
    /\ command \in {"remove", "install"} => New(v.new)
    /\ command = Over => v.new = Absent /\ New(v.data)

LeaderVolume ==
    /\ stage = "serving"     => Old(vol[leader].data)
    /\ stage = "primary"     => PrimaryVolume(vol[leader], script[leader])
    /\ stage = "secondaries" => Disabled(vol[leader].data) /\ New(vol[leader].new)
    /\ stage = "move"        => MoveVolume(vol[leader], script[leader])

(* Another member's volume between the commands of secondary-upgrade: what *)
(* data.new.done holds is the upgraded database, and there is none once    *)
(* data is the upgraded database; inSync: is its checkpoint the leader's?  *)
SecondaryVolume(v, command, inSync) ==
    /\ v.done = Absent \/ New(v.done)
    /\ New(v.data) => v.done = Absent
    /\ command \in SecondaryCommands \ {"begin", "install", Over} => ~New(v.data)
    /\ command \in {"preserve", "rsync"} => inSync
    /\ command \in {"restore", "mark"} => New(v.new)
    /\ command = "install" => v.data = Absent
    /\ command = Over => v.done = Absent /\ (v.data = Absent \/ New(v.data))

MemberVolume(n) ==
    /\ stage # "secondaries" => vol[n].done = Absent
    /\ n # leader =>
          /\ stage \in {"serving", "primary"} => vol[n].data = Absent \/ Old(vol[n].data)
          /\ stage = "secondaries" => SecondaryVolume(vol[n], script[n], n \in synced)
          /\ stage = "move" => vol[n].data = Absent \/ New(vol[n].data)
    /\ (n = leader /\ stage = "secondaries") => vol[n].done = Absent

Volumes == \A n \in Members : MemberVolume(n)

(* What does not depend on when scripts may be killed ...                  *)
Sound == TypeOK /\ ScriptsOfTheStage /\ ReleaseAhead

(* ... and what does.                                                      *)
Inductive == Sound /\ LeaderVolume /\ Volumes

-----------------------------------------------------------------------------
(* Directories and volumes.                                                *)

LEMMA DirTypes ==
    /\ Absent \in Dir
    /\ \A d \in Dir : Partial(d) \in Dir
    /\ \A d \in Dir, c \in Conf : [d EXCEPT !.conf = c] \in Dir
    /\ \A d \in Dir : [d EXCEPT !.is = "disabled"] \in Dir /\ [d EXCEPT !.is = "whole"] \in Dir
    /\ \A d \in Dir : [d EXCEPT !.ver = 0] \in Dir
  BY DEF Dir, Absent, NoConf, Conf, Partial

LEMMA FreshType == ASSUME version \in Release, version <= Upgrades PROVE FreshCluster \in Dir
  <1>1. version + 1 \in Release
    BY BoundsAssumption DEF Release
  <1> QED
    BY <1>1 DEF FreshCluster, Dir, NoConf, Conf

LEMMA VolumeTypes ==
    ASSUME NEW v \in Volume
    PROVE  /\ v.data \in Dir /\ v.new \in Dir /\ v.done \in Dir /\ v.preserve \in Conf
           /\ v.data.conf \in Conf /\ v.new.conf \in Conf
           /\ \A d \in Dir : /\ [v EXCEPT !.data = d] \in Volume
                            /\ [v EXCEPT !.new = d] \in Volume
                            /\ [v EXCEPT !.done = d] \in Volume
           /\ \A c \in Conf : [v EXCEPT !.preserve = c] \in Volume
  BY DEF Volume, Dir

-----------------------------------------------------------------------------
(***************************************************************************)
(* A step of one script: it leaves n's volume as v and goes on to next.    *)

Writes(n, next, v) ==
    /\ script' = [script EXCEPT ![n] = next]
    /\ vol' = [vol EXCEPT ![n] = v]
    /\ UNCHANGED <<stage, version, leader, synced>>
    /\ faults' \in 0 .. MaxFaults

LEMMA RunWrites ==
    ASSUME TypeOK, NEW n, NEW STATE next, NEW STATE v, NEW command, Run(n, command, next, v)
    PROVE  Writes(n, next, v) /\ script[n] = command
  BY DEF TypeOK, Run, Writes

LEMMA WritesFrame ==
    ASSUME TypeOK, NEW n \in Members, NEW STATE next, NEW STATE v, Writes(n, next, v)
    PROVE  /\ stage' = stage /\ version' = version /\ leader' = leader /\ synced' = synced
           /\ script'[n] = next /\ vol'[n] = v
           /\ \A m \in Members \ {n} : script'[m] = script[m] /\ vol'[m] = vol[m]
  BY DEF TypeOK, Writes

LEMMA CommandTypes == ASSUME NEW n PROVE CommandsOf(n) \subseteq Commands \cup {Idle, Over}
  BY DEF CommandsOf, PrimaryCommands, SecondaryCommands, MoveCommands, Commands, Idle, Over

LEMMA WritesSound ==
    ASSUME Sound, NEW n \in Members, NEW STATE next, NEW STATE v, Writes(n, next, v),
           next \in CommandsOf(n), v \in Volume
    PROVE  Sound'
  <1>1. TypeOK'
    BY CommandTypes DEF Sound, TypeOK, Writes
  <1>2. \A m \in Members : CommandsOf(m)' = CommandsOf(m)
    BY WritesFrame DEF Sound, CommandsOf
  <1>3. ScriptsOfTheStage'
    BY <1>2, WritesFrame DEF Sound, ScriptsOfTheStage
  <1>4. ReleaseAhead'
    BY WritesFrame DEF Sound, ReleaseAhead
  <1> QED
    BY <1>1, <1>3, <1>4 DEF Sound

(* Whose script it is follows from the command it is at.                   *)
LEMMA AtWork ==
    ASSUME Sound, NEW n \in Members, script[n] # Idle
    PROVE  /\ version <= Upgrades
           /\ \/ stage = "primary" /\ n = leader /\ script[n] \in PrimaryCommands
              \/ stage = "secondaries" /\ n # leader /\ script[n] \in SecondaryCommands
              \/ stage = "move" /\ n = leader /\ script[n] \in MoveCommands
  <1>1. script[n] \in CommandsOf(n) /\ stage \in Stages
    BY DEF Sound, ScriptsOfTheStage, TypeOK
  <1>2. stage # "serving"
    BY <1>1 DEF CommandsOf
  <1>3. version <= Upgrades
    BY <1>2 DEF Sound, ReleaseAhead
  <1> QED
    BY <1>1, <1>2, <1>3 DEF CommandsOf, Stages

-----------------------------------------------------------------------------
(* Types and stages: the scripts.                                          *)

(* In one of these stages n's script may go on to any command of it.       *)
LEMMA CommandsInStage ==
    ASSUME NEW n
    PROVE  /\ stage = "primary" /\ n = leader => CommandsOf(n) = PrimaryCommands
           /\ stage = "secondaries" /\ n # leader => CommandsOf(n) = SecondaryCommands
           /\ stage = "move" /\ n = leader => CommandsOf(n) = MoveCommands
  BY DEF CommandsOf

LEMMA PrimaryUpgradeSound ==
    ASSUME Sound, NEW n \in Members, PrimaryUpgrade(n)
    PROVE  Sound'
  <1> DEFINE v == vol[n]
  <1>1. v \in Volume /\ TypeOK /\ version \in Release
    BY DEF Sound, TypeOK
  <1>2. script[n] \in PrimaryCommands \ {Over}
    BY <1>1, RunWrites
       DEF PrimaryUpgrade, PrimaryBegin, PrimaryClean, PrimaryInitdb, PrimaryDisable,
           PrimaryLink, PrimaryConfig, PrimaryCommands, Run, Over
  <1>3. stage = "primary" /\ n = leader /\ version <= Upgrades
    BY <1>2, AtWork
       DEF PrimaryUpgrade, PrimaryBegin, PrimaryClean, PrimaryInitdb, PrimaryDisable,
           PrimaryLink, PrimaryConfig, Run, PrimaryCommands, SecondaryCommands,
           MoveCommands, Idle, Over
  <1>4. FreshCluster \in Dir
    BY <1>1, <1>3, FreshType
  <1>5. PrimaryCommands = CommandsOf(n)
    BY <1>3, CommandsInStage
  <1>6. CASE PrimaryBegin(n)
    <2>1. Writes(n, Over, v) \/ Writes(n, "clean", v)
      BY <1>1, <1>6, RunWrites DEF PrimaryBegin
    <2> QED
      BY <2>1, <1>1, <1>5, WritesSound DEF PrimaryCommands
  <1>7. CASE PrimaryClean(n)
    <2>1. [v EXCEPT !.new = Absent] \in Volume
      BY <1>1, VolumeTypes, DirTypes
    <2> QED
      BY <2>1, <1>1, <1>5, <1>7, RunWrites, WritesSound DEF PrimaryClean, PrimaryCommands
  <1>8. CASE PrimaryInitdb(n)
    <2>1. [v EXCEPT !.new = FreshCluster] \in Volume
      BY <1>1, <1>4, VolumeTypes
    <2> QED
      BY <2>1, <1>1, <1>5, <1>8, RunWrites, WritesSound DEF PrimaryInitdb, PrimaryCommands
  <1>9. CASE PrimaryDisable(n)
    <2>1. [v EXCEPT !.data.is = "disabled"] \in Volume
      BY <1>1, VolumeTypes, DirTypes
    <2> QED
      BY <2>1, <1>1, <1>5, <1>9, RunWrites, WritesSound DEF PrimaryDisable, PrimaryCommands
  <1>10. CASE PrimaryLink(n)
    <2>1. [v EXCEPT !.new.is = "whole"] \in Volume
      BY <1>1, VolumeTypes, DirTypes
    <2> QED
      BY <2>1, <1>1, <1>5, <1>10, RunWrites, WritesSound DEF PrimaryLink, PrimaryCommands
  <1>11. CASE PrimaryConfig(n)
    <2>1. [v EXCEPT !.new.conf = v.data.conf] \in Volume
      BY <1>1, VolumeTypes, DirTypes
    <2> QED
      BY <2>1, <1>1, <1>5, <1>11, RunWrites, WritesSound DEF PrimaryConfig, PrimaryCommands
  <1> QED
    BY <1>6, <1>7, <1>8, <1>9, <1>10, <1>11 DEF PrimaryUpgrade

LEMMA SecondaryUpgradeSound ==
    ASSUME Sound, NEW n \in Members, SecondaryUpgrade(n)
    PROVE  Sound'
  <1> DEFINE v == vol[n]
  <1>1. v \in Volume /\ TypeOK /\ version \in Release /\ vol[leader] \in Volume
    BY DEF Sound, TypeOK
  <1>2. script[n] \in SecondaryCommands \ {Over}
    BY DEF SecondaryUpgrade, SecondaryBegin, SecondaryClean, SecondaryCompare,
           SecondaryPreserve, SecondaryRsync, SecondaryRestore, SecondaryMark,
           SecondaryRemove, SecondaryInstall, SecondaryCommands, Run, Over
  <1>3. stage = "secondaries" /\ n # leader
    BY <1>2, AtWork
       DEF SecondaryUpgrade, SecondaryBegin, SecondaryClean, SecondaryCompare,
           SecondaryPreserve, SecondaryRsync, SecondaryRestore, SecondaryMark,
           SecondaryRemove, SecondaryInstall, Run, PrimaryCommands, SecondaryCommands,
           MoveCommands, Idle, Over
  <1>4. SecondaryCommands = CommandsOf(n)
    BY <1>3, CommandsInStage
  <1>5. CASE SecondaryBegin(n)
    <2>1. \/ Writes(n, Over, v)
          \/ Writes(n, "remove", v)
          \/ Writes(n, "clean", v)
      BY <1>1, <1>5, RunWrites DEF SecondaryBegin
    <2> QED
      BY <2>1, <1>1, <1>4, WritesSound DEF SecondaryCommands
  <1>6. CASE SecondaryClean(n)
    <2>1. [v EXCEPT !.new = Absent] \in Volume
      BY <1>1, VolumeTypes, DirTypes
    <2> QED
      BY <2>1, <1>1, <1>4, <1>6, RunWrites, WritesSound DEF SecondaryClean, SecondaryCommands
  <1>7. CASE SecondaryCompare(n)
    <2>1. Writes(n, "preserve", v) \/ Writes(n, "remove", v)
      BY <1>1, <1>7, RunWrites DEF SecondaryCompare
    <2> QED
      BY <2>1, <1>1, <1>4, WritesSound DEF SecondaryCommands
  <1>8. CASE SecondaryPreserve(n)
    <2>1. [v EXCEPT !.preserve = Saved(v)] \in Volume
      BY <1>1, VolumeTypes DEF Saved
    <2> QED
      BY <2>1, <1>1, <1>4, <1>8, RunWrites, WritesSound DEF SecondaryPreserve, SecondaryCommands
  <1>9. CASE SecondaryRsync(n)
    <2> DEFINE streamed == IF n \in synced THEN vol[leader].new ELSE Partial(vol[leader].new)
    <2>1. streamed \in Dir /\ vol[leader].data \in Dir
      BY <1>1, VolumeTypes, DirTypes
    <2>2. [v EXCEPT !.data = vol[leader].data, !.new = streamed] \in Volume
      BY <1>1, <2>1 DEF Volume
    <2> QED
      BY <2>2, <1>1, <1>4, <1>9, RunWrites, WritesSound DEF SecondaryRsync, SecondaryCommands
  <1>10. CASE SecondaryRestore(n)
    <2>1. [v EXCEPT !.new.conf = v.preserve] \in Volume
      BY <1>1, VolumeTypes, DirTypes
    <2> QED
      BY <2>1, <1>1, <1>4, <1>10, RunWrites, WritesSound DEF SecondaryRestore, SecondaryCommands
  <1>11. CASE SecondaryMark(n)
    <2>1. [v EXCEPT !.done = v.new, !.new = Absent] \in Volume
      BY <1>1, DirTypes DEF Volume
    <2> QED
      BY <2>1, <1>1, <1>4, <1>11, RunWrites, WritesSound DEF SecondaryMark, SecondaryCommands
  <1>12. CASE SecondaryRemove(n)
    <2>1. [v EXCEPT !.data = Absent] \in Volume
      BY <1>1, VolumeTypes, DirTypes
    <2> QED
      BY <2>1, <1>1, <1>4, <1>12, RunWrites, WritesSound DEF SecondaryRemove, SecondaryCommands
  <1>13. CASE SecondaryInstall(n)
    <2>1. Installed(v) \in Volume
      BY <1>1, DirTypes DEF Installed, Volume, Conf
    <2> QED
      BY <2>1, <1>1, <1>4, <1>13, RunWrites, WritesSound DEF SecondaryInstall, SecondaryCommands
  <1> QED
    BY <1>5, <1>6, <1>7, <1>8, <1>9, <1>10, <1>11, <1>12, <1>13 DEF SecondaryUpgrade

LEMMA MoveSound ==
    ASSUME Sound, NEW n \in Members, Move(n)
    PROVE  Sound'
  <1> DEFINE v == vol[n]
  <1>1. v \in Volume /\ TypeOK
    BY DEF Sound, TypeOK
  <1>2. script[n] \in {"begin", "remove", "install"} /\ stage = "move"
    BY DEF Move, MoveBegin, MoveRemove, MoveInstall, Run
  <1>3. n = leader
    BY <1>2, AtWork DEF Idle
  <1>4. MoveCommands = CommandsOf(n)
    BY <1>2, <1>3, CommandsInStage
  <1>5. CASE MoveBegin(n)
    <2>1. Writes(n, "remove", v) \/ Writes(n, Over, v)
      BY <1>1, <1>5, RunWrites DEF MoveBegin
    <2> QED
      BY <2>1, <1>1, <1>4, WritesSound DEF MoveCommands
  <1>6. CASE MoveRemove(n)
    <2>1. [v EXCEPT !.data = Absent] \in Volume
      BY <1>1, VolumeTypes, DirTypes
    <2> QED
      BY <2>1, <1>1, <1>4, <1>6, RunWrites, WritesSound DEF MoveRemove, MoveCommands
  <1>7. CASE MoveInstall(n)
    <2>1. [v EXCEPT !.data = v.new, !.new = Absent] \in Volume
      BY <1>1, DirTypes DEF Volume
    <2> QED
      BY <2>1, <1>1, <1>4, <1>7, RunWrites, WritesSound DEF MoveInstall, MoveCommands
  <1> QED
    BY <1>5, <1>6, <1>7 DEF Move

-----------------------------------------------------------------------------
(* Types and stages: kills, the ladder, the cluster between upgrades.      *)

(* Torn, one command at a time.                                            *)
LEMMA TornCases ==
    ASSUME NEW n, NEW w \in Torn(n)
    PROVE  LET v == vol[n]
               source == vol[leader]
           IN  \/ w = v
               \/ /\ script[n] \in {"clean", "initdb", "disable", "link"}
                  /\ w = [v EXCEPT !.new = [Partial(FreshCluster) EXCEPT !.conf = v.new.conf]]
               \/ script[n] = "config" /\ w = [v EXCEPT !.new.conf = v.data.conf]
               \/ /\ script[n] = "rsync"
                  /\ \/ w = [v EXCEPT !.data.conf = source.data.conf]
                     \/ w = [v EXCEPT !.data = source.data]
                     \/ w = [[v EXCEPT !.data = source.data] EXCEPT !.new = Partial(source.new)]
               \/ script[n] = "restore" /\ w = [v EXCEPT !.new.conf = v.preserve]
               \/ /\ script[n] = "remove"
                  /\ \/ w = [v EXCEPT !.data.is = "partial"]
                     \/ w = [v EXCEPT !.data.is = "partial", !.data.ver = 0]
               \/ /\ script[n] = "install" /\ stage = "secondaries"
                  /\ w = [v EXCEPT !.preserve = NoConf]
  <1>1. CASE script[n] \in {"clean", "initdb", "disable", "link"}
    BY <1>1 DEF Torn
  <1>2. CASE script[n] = "config"
    BY <1>2 DEF Torn
  <1>3. CASE script[n] = "rsync"
    BY <1>3 DEF Torn, RsyncTorn
  <1>4. CASE script[n] = "restore"
    BY <1>4 DEF Torn
  <1>5. CASE script[n] = "remove"
    BY <1>5 DEF Torn
  <1>6. CASE script[n] = "install" /\ stage = "secondaries" /\ Copied(vol[n])
    BY <1>6 DEF Torn
  <1>7. CASE /\ script[n] \notin {"clean", "initdb", "disable", "link", "config", "rsync",
                                 "restore", "remove"}
             /\ ~(script[n] = "install" /\ stage = "secondaries" /\ Copied(vol[n]))
    BY <1>7 DEF Torn
  <1> QED
    BY <1>1, <1>2, <1>3, <1>4, <1>5, <1>6, <1>7

LEMMA TornType ==
    ASSUME Sound, NEW n \in Members, version <= Upgrades, NEW w \in Torn(n)
    PROVE  w \in Volume
  <1> DEFINE v == vol[n]
  <1>1. v \in Volume /\ vol[leader] \in Volume /\ version \in Release
    BY DEF Sound, TypeOK
  <1>2. v.new \in Dir /\ v.data \in Dir /\ vol[leader].data \in Dir /\ vol[leader].new \in Dir
    BY <1>1, VolumeTypes
  <1>3. NoConf \in Conf
    BY DEF Conf
  <1>4. [Partial(FreshCluster) EXCEPT !.conf = v.new.conf] \in Dir
    BY <1>1, FreshType, VolumeTypes, DirTypes
  <1>5. /\ [v EXCEPT !.new = [Partial(FreshCluster) EXCEPT !.conf = v.new.conf]] \in Volume
        /\ [v EXCEPT !.data = vol[leader].data] \in Volume
        /\ [v EXCEPT !.preserve = NoConf] \in Volume
    BY <1>1, <1>2, <1>3, <1>4, VolumeTypes
  <1>6. /\ [v EXCEPT !.new.conf = v.data.conf] \in Volume
        /\ [v EXCEPT !.new.conf = v.preserve] \in Volume
        /\ [v EXCEPT !.data.conf = vol[leader].data.conf] \in Volume
    BY <1>1, <1>2, VolumeTypes, DirTypes
  <1>7. [[v EXCEPT !.data = vol[leader].data] EXCEPT !.new = Partial(vol[leader].new)] \in Volume
    BY <1>1, <1>2, DirTypes DEF Volume
  <1>8. /\ [v EXCEPT !.data.is = "partial"] \in Volume
        /\ [v EXCEPT !.data.is = "partial", !.data.ver = 0] \in Volume
    BY <1>1, <1>2 DEF Volume, Dir
  <1>9. \/ w = v
        \/ w = [v EXCEPT !.new = [Partial(FreshCluster) EXCEPT !.conf = v.new.conf]]
        \/ w = [v EXCEPT !.new.conf = v.data.conf]
        \/ w = [v EXCEPT !.new.conf = v.preserve]
        \/ w = [v EXCEPT !.data.conf = vol[leader].data.conf]
        \/ w = [v EXCEPT !.data = vol[leader].data]
        \/ w = [[v EXCEPT !.data = vol[leader].data] EXCEPT !.new = Partial(vol[leader].new)]
        \/ w = [v EXCEPT !.data.is = "partial"]
        \/ w = [v EXCEPT !.data.is = "partial", !.data.ver = 0]
        \/ w = [v EXCEPT !.preserve = NoConf]
    BY TornCases
  <1> QED
    BY <1>1, <1>5, <1>6, <1>7, <1>8, <1>9

LEMMA FaultCounts == ASSUME TypeOK, Fault PROVE faults' \in 0 .. MaxFaults
  BY BoundsAssumption DEF TypeOK, Fault

LEMMA KilledWrites ==
    ASSUME TypeOK, NEW n, Killed(n)
    PROVE  /\ script[n] \in Commands \ {"begin"}
           /\ \E w \in Torn(n) : Allowed(n, w) /\ Writes(n, "begin", w)
  BY FaultCounts DEF Killed, Writes

LEMMA RepeatedWrites ==
    ASSUME TypeOK, NEW n \in Members, Repeated(n)
    PROVE  script[n] = Over /\ Writes(n, "begin", vol[n])
  BY FaultCounts DEF TypeOK, Repeated, Writes

LEMMA MayBegin ==
    ASSUME Sound, NEW n \in Members, script[n] # Idle
    PROVE  "begin" \in CommandsOf(n)
  BY AtWork, CommandsInStage DEF PrimaryCommands, SecondaryCommands, MoveCommands

LEMMA FaultsSound ==
    ASSUME Sound, NEW n \in Members, Killed(n) \/ Repeated(n)
    PROVE  Sound'
  <1>1. TypeOK /\ vol[n] \in Volume
    BY DEF Sound, TypeOK
  <1>2. CASE Killed(n)
    <2>1. PICK w \in Torn(n) : Writes(n, "begin", w)
      BY <1>1, <1>2, KilledWrites
    <2>2. script[n] # Idle
      BY <1>1, <1>2, KilledWrites DEF Commands, Idle
    <2>3. w \in Volume
      BY <2>2, AtWork, TornType
    <2> QED
      BY <2>1, <2>2, <2>3, MayBegin, WritesSound
  <1>3. CASE Repeated(n)
    <2>1. script[n] # Idle
      BY <1>1, <1>3, RepeatedWrites DEF Over, Idle
    <2> QED
      BY <2>1, <1>1, <1>3, RepeatedWrites, MayBegin, WritesSound
  <1> QED
    BY <1>2, <1>3

LEMMA LadderSound ==
    ASSUME Sound, Ladder
    PROVE  Sound'
  <1>1. TypeOK /\ ScriptsOfTheStage /\ ReleaseAhead
    BY DEF Sound
  <1>2. CASE StartUpgrade
    BY <1>1, <1>2
       DEF StartUpgrade, EnterStage, Sound, TypeOK, ScriptsOfTheStage, CommandsOf, ReleaseAhead,
           PrimaryCommands, Stages, Commands, Idle, Over
  <1>3. CASE FinishPrimary
    BY <1>1, <1>3
       DEF FinishPrimary, EnterStage, Sound, TypeOK, ScriptsOfTheStage, CommandsOf, ReleaseAhead,
           SecondaryCommands, Stages, Commands, Idle, Over
  <1>4. CASE FinishSecondaries
    BY <1>1, <1>4
       DEF FinishSecondaries, EnterStage, Sound, TypeOK, ScriptsOfTheStage, CommandsOf,
           ReleaseAhead, MoveCommands, Stages, Commands, Idle, Over
  <1>5. CASE FinishMove
    <2>1. version + 1 \in Release
      BY <1>1, <1>5, BoundsAssumption DEF FinishMove, TypeOK, ReleaseAhead, Release
    <2> QED
      BY <2>1, <1>1, <1>5
         DEF FinishMove, EnterStage, Sound, TypeOK, ScriptsOfTheStage, CommandsOf, ReleaseAhead,
             Stages, Idle
  <1> QED
    BY <1>2, <1>3, <1>4, <1>5 DEF Ladder

LEMMA ServingSound ==
    ASSUME Sound, NEW n \in Members, Configure(n) \/ Clone(n) \/ Failover(n)
    PROVE  Sound'
  <1>1. TypeOK /\ ScriptsOfTheStage /\ stage = "serving" /\ vol[n] \in Volume
    BY DEF Sound, TypeOK, Configure, Clone, Failover, Serving
  <1>2. <<n, version>> \in Conf
    BY <1>1 DEF TypeOK, Conf
  <1>3. CASE Configure(n)
    <2>1. [vol[n] EXCEPT !.data = [vol[n].data EXCEPT !.conf = <<n, version>>]] \in Volume
      BY <1>1, <1>2, VolumeTypes, DirTypes
    <2> QED
      BY <2>1, <1>1, <1>3
         DEF Configure, Serving, Sound, TypeOK, ScriptsOfTheStage, CommandsOf, ReleaseAhead
  <1>4. CASE Clone(n)
    <2>1. [vol[n] EXCEPT !.data = [is |-> "whole", ver |-> version, conf |-> <<n, version>>]]
              \in Volume
      BY <1>1, <1>2 DEF TypeOK, Volume, Dir
    <2> QED
      BY <2>1, <1>1, <1>4
         DEF Clone, Serving, Sound, TypeOK, ScriptsOfTheStage, CommandsOf, ReleaseAhead
  <1>5. CASE Failover(n)
    BY <1>1, <1>5
       DEF Failover, Sound, TypeOK, ScriptsOfTheStage, CommandsOf, ReleaseAhead
  <1> QED
    BY <1>3, <1>4, <1>5

LEMMA SoundStep == ASSUME Sound, [Next]_vars PROVE Sound'
  <1>1. CASE Ladder
    BY <1>1, LadderSound
  <1>2. CASE \E n \in Members : Scripts(n)
    BY <1>2, PrimaryUpgradeSound, SecondaryUpgradeSound, MoveSound DEF Scripts
  <1>3. CASE \E n \in Members : Configure(n) \/ Clone(n) \/ Failover(n)
    BY <1>3, ServingSound
  <1>4. CASE \E n \in Members : Killed(n) \/ Repeated(n)
    BY <1>4, FaultsSound
  <1>5. CASE UNCHANGED vars
    BY <1>5 DEF vars, Sound, TypeOK, ScriptsOfTheStage, CommandsOf, ReleaseAhead
  <1> QED
    BY <1>1, <1>2, <1>3, <1>4, <1>5 DEF Next

LEMMA SoundInit == ASSUME Init PROVE Sound
  <1>1. 1 \in Release
    BY BoundsAssumption DEF Release
  <1>2. \A n \in Members : [data |-> [is |-> "whole", ver |-> 1, conf |-> <<n, 1>>],
                            new |-> Absent, done |-> Absent, preserve |-> NoConf] \in Volume
    BY <1>1, DirTypes DEF Volume, Dir, Conf
  <1>3. TypeOK
    BY <1>1, <1>2, BoundsAssumption DEF Init, TypeOK, Stages
  <1> QED
    BY <1>3 DEF Init, Sound, ScriptsOfTheStage, CommandsOf, ReleaseAhead

(* The variables of the scripts have their types, wherever they are killed *)
(* and however often they are run again (the three scripts of              *)
(* private/upgrade/upgrade-scripts): a script runs nowhere but in its own  *)
(* stage of the ladder and on its own volume.                              *)
THEOREM ScriptTypeCorrect == Spec => []TypeOK
  <1>1. Init => Sound
    BY SoundInit
  <1>2. Sound /\ [Next]_vars => Sound'
    BY SoundStep
  <1>3. Sound => TypeOK
    BY DEF Sound
  <1> QED
    BY <1>1, <1>2, <1>3, PTL DEF Spec

-----------------------------------------------------------------------------
(***************************************************************************)
(* What the volumes hold.  A step of a script disturbs nothing but what is *)
(* said of its own volume.                                                 *)

VolumeAt(n, v, command) ==
    \/ stage = "primary" /\ n = leader /\ PrimaryVolume(v, command) /\ v.done = Absent
    \/ stage = "move" /\ n = leader /\ MoveVolume(v, command) /\ v.done = Absent
    \/ stage = "secondaries" /\ n # leader /\ SecondaryVolume(v, command, n \in synced)

LEMMA VolumeKnown ==
    ASSUME Inductive, NEW n \in Members, script[n] # Idle
    PROVE  VolumeAt(n, vol[n], script[n])
  BY AtWork DEF Inductive, LeaderVolume, Volumes, MemberVolume, VolumeAt

LEMMA WritesKeep ==
    ASSUME Inductive, Sound', NEW n \in Members, NEW STATE next, NEW STATE v,
           Writes(n, next, v), VolumeAt(n, v, next)
    PROVE  Inductive'
  <1>1. TypeOK /\ leader \in Members
    BY DEF Inductive, Sound, TypeOK
  <1>2. /\ stage' = stage /\ version' = version /\ leader' = leader /\ synced' = synced
        /\ script'[n] = next /\ vol'[n] = v
        /\ \A m \in Members \ {n} : script'[m] = script[m] /\ vol'[m] = vol[m]
    BY <1>1, WritesFrame
  <1>3. LeaderVolume'
    <2>1. CASE n = leader
      BY <2>1, <1>2
         DEF VolumeAt, LeaderVolume, PrimaryVolume, MoveVolume, Old, New, Whole, Disabled
    <2>2. CASE n # leader
      BY <2>2, <1>1, <1>2
         DEF Inductive, LeaderVolume, PrimaryVolume, MoveVolume, Old, New, Whole, Disabled
    <2> QED
      BY <2>1, <2>2
  <1>4. ASSUME NEW m \in Members PROVE MemberVolume(m)'
    <2>1. CASE m = n
      BY <2>1, <1>2 DEF VolumeAt, MemberVolume, SecondaryVolume, Old, New, Whole
    <2>2. CASE m # n
      <3>1. MemberVolume(m)
        BY DEF Inductive, Volumes
      <3> QED
        BY <2>2, <3>1, <1>2 DEF MemberVolume, SecondaryVolume, Old, New, Whole
    <2> QED
      BY <2>1, <2>2
  <1> QED
    BY <1>3, <1>4 DEF Inductive, Volumes

LEMMA PrimaryUpgradeKeeps ==
    ASSUME Inductive, NEW n \in Members, PrimaryUpgrade(n)
    PROVE  Inductive'
  <1> DEFINE v == vol[n]
  <1>1. Sound' /\ Sound /\ TypeOK /\ v \in Volume /\ version \in Release
    BY PrimaryUpgradeSound DEF Inductive, Sound, TypeOK
  <1>2. v.data \in Dir /\ v.new \in Dir
    BY <1>1, VolumeTypes
  <1>3. script[n] \in PrimaryCommands \ {Over}
    BY DEF PrimaryUpgrade, PrimaryBegin, PrimaryClean, PrimaryInitdb, PrimaryDisable,
           PrimaryLink, PrimaryConfig, PrimaryCommands, Run, Over
  <1>4. stage = "primary" /\ n = leader
    BY <1>1, <1>3, AtWork
       DEF PrimaryUpgrade, PrimaryBegin, PrimaryClean, PrimaryInitdb, PrimaryDisable,
           PrimaryLink, PrimaryConfig, Run, PrimaryCommands, SecondaryCommands,
           MoveCommands, Idle, Over
  <1>5. PrimaryVolume(v, script[n]) /\ v.done = Absent
    BY <1>3, <1>4, VolumeKnown DEF VolumeAt, PrimaryCommands, Idle
  <1>6. CASE PrimaryBegin(n)
    <2>1. CASE UpgradedAlready(v)
      <3>1. Writes(n, Over, v) /\ script[n] = "begin"
        BY <2>1, <1>1, <1>6, RunWrites DEF PrimaryBegin
      <3>2. PrimaryVolume(v, Over)
        BY <2>1, <3>1, <1>5 DEF PrimaryVolume, UpgradedAlready, Old, Whole, Over
      <3> QED
        BY <3>1, <3>2, <1>1, <1>4, <1>5, WritesKeep DEF VolumeAt
    <2>2. CASE ~UpgradedAlready(v)
      <3>1. Writes(n, "clean", v) /\ Old(v.data)
        BY <2>2, <1>1, <1>6, RunWrites DEF PrimaryBegin, Old
      <3>2. PrimaryVolume(v, "clean")
        BY <3>1 DEF PrimaryVolume, Over
      <3> QED
        BY <3>1, <3>2, <1>1, <1>4, <1>5, WritesKeep DEF VolumeAt
    <2> QED
      BY <2>1, <2>2
  <1>7. CASE PrimaryClean(n)
    <2> DEFINE w == [v EXCEPT !.new = Absent]
    <2>1. Writes(n, "initdb", w) /\ script[n] = "clean"
      BY <1>1, <1>7, RunWrites DEF PrimaryClean
    <2>2. PrimaryVolume(w, "initdb") /\ w.done = Absent
      BY <2>1, <1>1, <1>5 DEF PrimaryVolume, Volume, Over
    <2> QED
      BY <2>1, <2>2, <1>1, <1>4, WritesKeep DEF VolumeAt
  <1>8. CASE PrimaryInitdb(n)
    <2> DEFINE w == [v EXCEPT !.new = FreshCluster]
    <2>1. Writes(n, "disable", w) /\ script[n] = "initdb"
      BY <1>1, <1>8, RunWrites DEF PrimaryInitdb
    <2>2. PrimaryVolume(w, "disable") /\ w.done = Absent
      BY <2>1, <1>1, <1>5 DEF PrimaryVolume, Volume, FreshCluster, Over
    <2> QED
      BY <2>1, <2>2, <1>1, <1>4, WritesKeep DEF VolumeAt
  <1>9. CASE PrimaryDisable(n)
    <2> DEFINE w == [v EXCEPT !.data.is = "disabled"]
    <2>1. Writes(n, "link", w) /\ script[n] = "disable"
      BY <1>1, <1>9, RunWrites DEF PrimaryDisable
    <2>2. PrimaryVolume(w, "link") /\ w.done = Absent
      BY <2>1, <1>1, <1>2, <1>5 DEF PrimaryVolume, Volume, Dir, Old, Whole, Disabled, Over
    <2> QED
      BY <2>1, <2>2, <1>1, <1>4, WritesKeep DEF VolumeAt
  <1>10. CASE PrimaryLink(n)
    <2> DEFINE w == [v EXCEPT !.new.is = "whole"]
    <2>1. Writes(n, "config", w) /\ script[n] = "link"
      BY <1>1, <1>10, RunWrites DEF PrimaryLink
    <2>2. PrimaryVolume(w, "config") /\ w.done = Absent
      BY <2>1, <1>1, <1>2, <1>5 DEF PrimaryVolume, Volume, Dir, New, Whole, Disabled, Over
    <2> QED
      BY <2>1, <2>2, <1>1, <1>4, WritesKeep DEF VolumeAt
  <1>11. CASE PrimaryConfig(n)
    <2> DEFINE w == [v EXCEPT !.new.conf = v.data.conf]
    <2>1. Writes(n, Over, w) /\ script[n] = "config"
      BY <1>1, <1>11, RunWrites DEF PrimaryConfig
    <2>2. PrimaryVolume(w, Over) /\ w.done = Absent
      BY <2>1, <1>1, <1>2, <1>5 DEF PrimaryVolume, Volume, Dir, New, Whole, Disabled, Over
    <2> QED
      BY <2>1, <2>2, <1>1, <1>4, WritesKeep DEF VolumeAt
  <1> QED
    BY <1>6, <1>7, <1>8, <1>9, <1>10, <1>11 DEF PrimaryUpgrade

LEMMA SecondaryUpgradeKeeps ==
    ASSUME Inductive, NEW n \in Members, SecondaryUpgrade(n)
    PROVE  Inductive'
  <1> DEFINE v == vol[n]
  <1>1. Sound' /\ Sound /\ TypeOK /\ v \in Volume /\ version \in Release
    BY SecondaryUpgradeSound DEF Inductive, Sound, TypeOK
  <1>2. v.data \in Dir /\ v.new \in Dir /\ v.done \in Dir /\ vol[leader] \in Volume
    BY <1>1, VolumeTypes DEF TypeOK
  <1>3. script[n] \in SecondaryCommands \ {Over}
    BY DEF SecondaryUpgrade, SecondaryBegin, SecondaryClean, SecondaryCompare,
           SecondaryPreserve, SecondaryRsync, SecondaryRestore, SecondaryMark,
           SecondaryRemove, SecondaryInstall, SecondaryCommands, Run, Over
  <1>4. stage = "secondaries" /\ n # leader
    BY <1>1, <1>3, AtWork
       DEF SecondaryUpgrade, SecondaryBegin, SecondaryClean, SecondaryCompare,
           SecondaryPreserve, SecondaryRsync, SecondaryRestore, SecondaryMark,
           SecondaryRemove, SecondaryInstall, Run, PrimaryCommands, SecondaryCommands,
           MoveCommands, Idle, Over
  <1>5. SecondaryVolume(v, script[n], n \in synced)
    BY <1>3, <1>4, VolumeKnown DEF VolumeAt, SecondaryCommands, Idle
  <1>6. Disabled(vol[leader].data) /\ New(vol[leader].new)
    BY <1>4 DEF Inductive, LeaderVolume
  <1>7. ASSUME NEW STATE next, NEW STATE w, Writes(n, next, w),
               SecondaryVolume(w, next, n \in synced)
        PROVE  Inductive'
    BY <1>1, <1>4, <1>7, WritesKeep DEF VolumeAt
  <1>8. CASE SecondaryBegin(n)
    <2>1. script[n] = "begin" /\ v.data.ver # 0
      BY <1>8 DEF SecondaryBegin, Run
    <2>2. CASE New(v.data)
      <3>1. Writes(n, Over, v)
        BY <2>2, <1>1, <1>8, RunWrites DEF SecondaryBegin, New
      <3>2. SecondaryVolume(v, Over, n \in synced)
        BY <2>2, <1>5 DEF SecondaryVolume, SecondaryCommands, Over
      <3> QED
        BY <3>1, <3>2, <1>7
    <2>3. CASE ~New(v.data)
      <3>1. Writes(n, "remove", v) \/ Writes(n, "clean", v)
        BY <2>3, <1>1, <1>8, RunWrites DEF SecondaryBegin, New
      <3>2. /\ SecondaryVolume(v, "remove", n \in synced)
            /\ SecondaryVolume(v, "clean", n \in synced)
        BY <2>3, <1>5 DEF SecondaryVolume, SecondaryCommands, Over
      <3> QED
        BY <3>1, <3>2, <1>7
    <2> QED
      BY <2>2, <2>3
  <1>9. CASE SecondaryClean(n)
    <2> DEFINE w == [v EXCEPT !.new = Absent]
    <2>1. Writes(n, "compare", w) /\ script[n] = "clean"
      BY <1>1, <1>9, RunWrites DEF SecondaryClean
    <2>2. SecondaryVolume(w, "compare", n \in synced)
      BY <2>1, <1>1, <1>5 DEF SecondaryVolume, SecondaryCommands, Volume, Over
    <2> QED
      BY <2>1, <2>2, <1>7
  <1>10. CASE SecondaryCompare(n)
    <2>1. script[n] = "compare"
      BY <1>10 DEF SecondaryCompare, Run
    <2>2. CASE InPlace(n)
      <3>1. Writes(n, "preserve", v)
        BY <2>2, <1>1, <1>10, RunWrites DEF SecondaryCompare
      <3>2. SecondaryVolume(v, "preserve", n \in synced)
        BY <2>1, <2>2, <1>5 DEF SecondaryVolume, SecondaryCommands, InPlace, Over
      <3> QED
        BY <3>1, <3>2, <1>7
    <2>3. CASE ~InPlace(n)
      <3>1. Writes(n, "remove", v)
        BY <2>3, <1>1, <1>10, RunWrites DEF SecondaryCompare
      <3>2. SecondaryVolume(v, "remove", n \in synced)
        BY <2>1, <1>5 DEF SecondaryVolume, SecondaryCommands, Over
      <3> QED
        BY <3>1, <3>2, <1>7
    <2> QED
      BY <2>2, <2>3
  <1>11. CASE SecondaryPreserve(n)
    <2> DEFINE w == [v EXCEPT !.preserve = Saved(v)]
    <2>1. Writes(n, "rsync", w) /\ script[n] = "preserve"
      BY <1>1, <1>11, RunWrites DEF SecondaryPreserve
    <2>2. SecondaryVolume(w, "rsync", n \in synced)
      BY <2>1, <1>1, <1>5 DEF SecondaryVolume, SecondaryCommands, Volume, Over
    <2> QED
      BY <2>1, <2>2, <1>7
  <1>12. CASE SecondaryRsync(n)
    <2> DEFINE w == [v EXCEPT !.data = vol[leader].data, !.new = vol[leader].new]
    <2>1. script[n] = "rsync" /\ n \in synced
      BY <1>5, <1>12 DEF SecondaryRsync, Run, SecondaryVolume
    <2>2. Writes(n, "restore", w)
      BY <2>1, <1>1, <1>12, RunWrites DEF SecondaryRsync
    <2>3. w.data = vol[leader].data /\ w.new = vol[leader].new /\ w.done = v.done
      BY <1>1 DEF Volume
    <2>4. SecondaryVolume(w, "restore", n \in synced)
      BY <2>1, <2>3, <1>5, <1>6 DEF SecondaryVolume, SecondaryCommands, New, Whole, Disabled, Over
    <2> QED
      BY <2>2, <2>4, <1>7
  <1>13. CASE SecondaryRestore(n)
    <2> DEFINE w == [v EXCEPT !.new.conf = v.preserve]
    <2>1. Writes(n, "mark", w) /\ script[n] = "restore"
      BY <1>1, <1>13, RunWrites DEF SecondaryRestore
    <2>2. w.data = v.data /\ w.done = v.done /\ (New(v.new) => New(w.new))
      BY <1>1, <1>2 DEF Volume, Dir, New, Whole
    <2>3. SecondaryVolume(w, "mark", n \in synced)
      BY <2>1, <2>2, <1>5 DEF SecondaryVolume, SecondaryCommands, Over
    <2> QED
      BY <2>1, <2>3, <1>7
  <1>14. CASE SecondaryMark(n)
    <2> DEFINE w == [v EXCEPT !.done = v.new, !.new = Absent]
    <2>1. Writes(n, "remove", w) /\ script[n] = "mark"
      BY <1>1, <1>14, RunWrites DEF SecondaryMark
    <2>2. SecondaryVolume(w, "remove", n \in synced)
      BY <2>1, <1>1, <1>5 DEF SecondaryVolume, SecondaryCommands, Volume, Over
    <2> QED
      BY <2>1, <2>2, <1>7
  <1>15. CASE SecondaryRemove(n)
    <2> DEFINE w == [v EXCEPT !.data = Absent]
    <2>1. Writes(n, "install", w) /\ script[n] = "remove"
      BY <1>1, <1>15, RunWrites DEF SecondaryRemove
    <2>2. ~New(Absent)
      BY DEF New, Whole, Absent
    <2>3. SecondaryVolume(w, "install", n \in synced)
      BY <2>1, <2>2, <1>1, <1>5 DEF SecondaryVolume, SecondaryCommands, Volume, Over
    <2> QED
      BY <2>1, <2>3, <1>7
  <1>16. CASE SecondaryInstall(n)
    <2>1. Writes(n, Over, Installed(v)) /\ script[n] = "install"
      BY <1>1, <1>16, RunWrites DEF SecondaryInstall
    <2>2. ~New(Absent) /\ Absent.is = "absent" /\ (v.done.is = "absent" => ~New(v.done))
      BY DEF New, Whole, Absent
    <2>3. SecondaryVolume(Installed(v), Over, n \in synced)
      BY <2>1, <2>2, <1>1, <1>5 DEF SecondaryVolume, SecondaryCommands, Installed, Volume, Over
    <2> QED
      BY <2>1, <2>3, <1>7
  <1> QED
    BY <1>8, <1>9, <1>10, <1>11, <1>12, <1>13, <1>14, <1>15, <1>16 DEF SecondaryUpgrade

LEMMA MoveKeeps ==
    ASSUME Inductive, NEW n \in Members, Move(n)
    PROVE  Inductive'
  <1> DEFINE v == vol[n]
  <1>1. Sound' /\ Sound /\ TypeOK /\ v \in Volume
    BY MoveSound DEF Inductive, Sound, TypeOK
  <1>2. script[n] \in {"begin", "remove", "install"} /\ stage = "move"
    BY DEF Move, MoveBegin, MoveRemove, MoveInstall, Run
  <1>3. n = leader
    BY <1>1, <1>2, AtWork DEF Idle
  <1>4. MoveVolume(v, script[n]) /\ v.done = Absent
    BY <1>2, <1>3, VolumeKnown DEF VolumeAt, Idle
  <1>5. CASE MoveBegin(n)
    <2>1. script[n] = "begin"
      BY <1>5 DEF MoveBegin, Run
    <2>2. CASE Movable(v)
      <3>1. Writes(n, "remove", v) /\ MoveVolume(v, "remove")
        BY <2>1, <2>2, <1>1, <1>4, <1>5, RunWrites
           DEF MoveBegin, MoveVolume, Movable, Absent, Over
      <3> QED
        BY <3>1, <1>1, <1>2, <1>3, <1>4, WritesKeep DEF VolumeAt
    <2>3. CASE ~Movable(v)
      <3>1. Writes(n, Over, v)
        BY <2>3, <1>1, <1>5, RunWrites DEF MoveBegin
      <3>2. MoveVolume(v, Over)
        BY <2>1, <2>3, <1>4 DEF MoveVolume, Movable, New, Whole, Over
      <3> QED
        BY <3>1, <3>2, <1>1, <1>2, <1>3, <1>4, WritesKeep DEF VolumeAt
    <2> QED
      BY <2>2, <2>3
  <1>6. CASE MoveRemove(n)
    <2> DEFINE w == [v EXCEPT !.data = Absent]
    <2>1. Writes(n, "install", w) /\ script[n] = "remove"
      BY <1>1, <1>6, RunWrites DEF MoveRemove
    <2>2. MoveVolume(w, "install") /\ w.done = Absent
      BY <2>1, <1>1, <1>4 DEF MoveVolume, Volume, Over
    <2> QED
      BY <2>1, <2>2, <1>1, <1>2, <1>3, WritesKeep DEF VolumeAt
  <1>7. CASE MoveInstall(n)
    <2> DEFINE w == [v EXCEPT !.data = v.new, !.new = Absent]
    <2>1. Writes(n, Over, w) /\ script[n] = "install"
      BY <1>1, <1>7, RunWrites DEF MoveInstall
    <2>2. MoveVolume(w, Over) /\ w.done = Absent
      BY <2>1, <1>1, <1>4 DEF MoveVolume, Volume, Over
    <2> QED
      BY <2>1, <2>2, <1>1, <1>2, <1>3, WritesKeep DEF VolumeAt
  <1> QED
    BY <1>5, <1>6, <1>7 DEF Move

(* What a kill leaves of each directory.                                   *)
TornFields(n, w) ==
    LET v == vol[n]
        source == vol[leader]
    IN  /\ w.done = v.done
        /\ script[n] \notin {"rsync", "remove"} => w.data = v.data
        /\ script[n] \in {"remove", "install"} => w.new = v.new
        /\ script[n] = "remove" => w.data = v.data \/ w.data.is = "partial"
        /\ script[n] = "rsync" =>
              w.data \in {v.data, source.data, [v.data EXCEPT !.conf = source.data.conf]}

LEMMA TornLeaves ==
    ASSUME vol[leader] \in Volume, NEW n, vol[n] \in Volume, NEW w \in Torn(n)
    PROVE  TornFields(n, w)
  <1>1. CASE script[n] \in {"clean", "initdb", "disable", "link"}
    BY <1>1 DEF TornFields, Torn, Volume
  <1>2. CASE script[n] = "config"
    BY <1>2 DEF TornFields, Torn, Volume
  <1>3. CASE script[n] = "rsync"
    <2>1. w \in RsyncTorn(vol[n])
      BY <1>3 DEF Torn
    <2> QED
      BY <2>1, <1>3 DEF TornFields, RsyncTorn, Volume
  <1>4. CASE script[n] = "restore"
    BY <1>4 DEF TornFields, Torn, Volume
  <1>5. CASE script[n] = "remove"
    <2> DEFINE v == vol[n]
    <2>1. v.data \in Dir
      BY VolumeTypes
    <2>2. CASE w = v
      BY <2>2, <1>5 DEF TornFields
    <2>3. CASE w = [v EXCEPT !.data.is = "partial"]
      <3>1. w.done = v.done /\ w.new = v.new /\ w.data = [v.data EXCEPT !.is = "partial"]
        BY <2>3 DEF Volume
      <3> QED
        BY <3>1, <2>1, <1>5 DEF TornFields, Dir
    <2>4. CASE w = [v EXCEPT !.data.is = "partial", !.data.ver = 0]
      <3>1. /\ w.done = v.done /\ w.new = v.new
            /\ w.data = [v.data EXCEPT !.is = "partial", !.ver = 0]
        BY <2>4, <2>1 DEF Volume, Dir
      <3> QED
        BY <3>1, <2>1, <1>5 DEF TornFields, Dir
    <2> QED
      BY <2>2, <2>3, <2>4, <1>5, TornCases
  <1>6. CASE script[n] = "install" /\ stage = "secondaries" /\ Copied(vol[n])
    BY <1>6 DEF TornFields, Torn, Volume
  <1>7. CASE /\ script[n] \notin {"clean", "initdb", "disable", "link", "config", "rsync",
                                 "restore", "remove"}
             /\ ~(script[n] = "install" /\ stage = "secondaries" /\ Copied(vol[n]))
    BY <1>7 DEF TornFields, Torn
  <1> QED
    BY <1>1, <1>2, <1>3, <1>4, <1>5, <1>6, <1>7

(* Outside of the window a torn volume is still one to begin with.         *)
LEMMA TornVolume ==
    ASSUME Inductive, LinkWindow = FALSE, NEW n \in Members, script[n] \in Commands \ {"begin"},
           NEW w \in Torn(n), Allowed(n, w)
    PROVE  VolumeAt(n, w, "begin")
  <1> DEFINE v      == vol[n]
             source == vol[leader]
  <1>1. Sound /\ TypeOK /\ v \in Volume /\ source \in Volume /\ version \in Release
    BY DEF Inductive, Sound, TypeOK
  <1>2. v.data \in Dir /\ v.new \in Dir /\ source.data \in Dir
    BY <1>1, VolumeTypes
  <1>3. script[n] \notin {"begin", "link", "config", Over, Idle}
    BY DEF Allowed, Commands, Over, Idle
  <1>4. VolumeAt(n, v, script[n])
    BY <1>3, VolumeKnown
  <1>5. CASE stage = "primary"
    <2>1. n = leader /\ script[n] \in {"clean", "initdb", "disable"}
      BY <1>1, <1>3, <1>5, AtWork DEF PrimaryCommands
    <2>2. w.data = v.data /\ w.done = v.done
      BY <2>1, <1>1, TornLeaves DEF TornFields
    <2> QED
      BY <2>1, <2>2, <1>4, <1>5 DEF VolumeAt, PrimaryVolume, Over
  <1>6. CASE stage = "move"
    <2>1. n = leader /\ script[n] \in {"remove", "install"}
      BY <1>1, <1>3, <1>6, AtWork DEF MoveCommands
    <2>2. w.new = v.new /\ w.done = v.done
      BY <2>1, <1>1, TornLeaves DEF TornFields
    <2> QED
      BY <2>1, <2>2, <1>4, <1>6 DEF VolumeAt, MoveVolume, Over
  <1>7. CASE stage = "secondaries"
    <2>1. n # leader /\ script[n] \in SecondaryCommands
      BY <1>1, <1>3, <1>7, AtWork
    <2>2. SecondaryVolume(v, script[n], n \in synced)
      BY <2>1, <1>4, <1>7 DEF VolumeAt
    <2>3. w.done = v.done
      BY <1>1, TornLeaves DEF TornFields
    <2>4. ~New(source.data)
      BY <1>7 DEF Inductive, LeaderVolume, New, Whole, Disabled
    <2>5. ~New(w.data)
      <3>1. ~New(v.data)
        BY <2>1, <2>2, <1>3 DEF SecondaryVolume, SecondaryCommands, New, Whole, Absent, Over
      <3>2. CASE script[n] = "rsync"
        <4>1. w.data \in {v.data, source.data, [v.data EXCEPT !.conf = source.data.conf]}
          BY <3>2, <1>1, TornLeaves DEF TornFields
        <4> QED
          BY <4>1, <3>1, <2>4, <1>2 DEF New, Whole, Dir
      <3>3. CASE script[n] = "remove"
        <4>1. w.data = v.data \/ w.data.is = "partial"
          BY <3>3, <1>1, TornLeaves DEF TornFields
        <4> QED
          BY <4>1, <3>1 DEF New, Whole
      <3>4. CASE script[n] \notin {"rsync", "remove"}
        BY <3>1, <3>4, <1>1, TornLeaves DEF TornFields
      <3> QED
        BY <3>2, <3>3, <3>4
    <2> QED
      BY <2>1, <2>2, <2>3, <2>5, <1>7 DEF VolumeAt, SecondaryVolume, SecondaryCommands, Over
  <1> QED
    BY <1>1, <1>3, <1>5, <1>6, <1>7, AtWork

LEMMA FaultsKeep ==
    ASSUME Inductive, LinkWindow = FALSE, NEW n \in Members, Killed(n) \/ Repeated(n)
    PROVE  Inductive'
  <1>1. Sound' /\ TypeOK
    BY FaultsSound DEF Inductive, Sound
  <1>2. CASE Killed(n)
    <2>1. PICK w \in Torn(n) : Allowed(n, w) /\ Writes(n, "begin", w)
      BY <1>1, <1>2, KilledWrites
    <2>2. VolumeAt(n, w, "begin")
      BY <2>1, <1>1, <1>2, KilledWrites, TornVolume
    <2> QED
      BY <2>1, <2>2, <1>1, WritesKeep
  <1>3. CASE Repeated(n)
    <2>1. script[n] = Over /\ Writes(n, "begin", vol[n])
      BY <1>1, <1>3, RepeatedWrites
    <2>2. VolumeAt(n, vol[n], Over)
      BY <2>1, VolumeKnown DEF Over, Idle
    <2>3. VolumeAt(n, vol[n], "begin")
      BY <2>2 DEF VolumeAt, PrimaryVolume, MoveVolume, SecondaryVolume, SecondaryCommands, Over
    <2> QED
      BY <2>1, <2>3, <1>1, WritesKeep
  <1> QED
    BY <1>2, <1>3

LEMMA LadderKeeps ==
    ASSUME Inductive, Ladder
    PROVE  Inductive'
  <1>1. Sound' /\ Sound /\ TypeOK /\ leader \in Members /\ version \in Nat
    BY LadderSound, BoundsAssumption DEF Inductive, Sound, TypeOK, Release
  <1>2. \A m \in Members : MemberVolume(m)
    BY DEF Inductive, Volumes
  <1>3. CASE StartUpgrade
    <2>1. Old(vol[leader].data)
      BY <1>3 DEF StartUpgrade, Inductive, LeaderVolume
    <2>2. script'[leader] = "begin"
      BY <1>1, <1>3 DEF StartUpgrade, EnterStage
    <2>3. LeaderVolume'
      BY <2>1, <2>2, <1>3
         DEF StartUpgrade, EnterStage, LeaderVolume, PrimaryVolume, Old, Whole, Over
    <2>4. Volumes'
      BY <1>2, <1>3 DEF StartUpgrade, EnterStage, Volumes, MemberVolume, Old, Whole
    <2> QED
      BY <2>3, <2>4, <1>1 DEF Inductive
  <1>4. CASE FinishPrimary
    <2>1. Disabled(vol[leader].data) /\ New(vol[leader].new)
      BY <1>4 DEF FinishPrimary, Inductive, LeaderVolume, PrimaryVolume
    <2>2. LeaderVolume'
      BY <2>1, <1>4 DEF FinishPrimary, EnterStage, LeaderVolume, New, Whole, Disabled
    <2>3. \A m \in Members \ {leader} : script'[m] = "begin"
      BY <1>4 DEF FinishPrimary, EnterStage
    <2>4. Volumes'
      BY <1>2, <1>4, <2>3
         DEF FinishPrimary, EnterStage, Volumes, MemberVolume, SecondaryVolume,
             SecondaryCommands, New, Whole, Over
    <2> QED
      BY <2>2, <2>4, <1>1 DEF Inductive
  <1>5. CASE FinishSecondaries
    <2>1. New(vol[leader].new)
      BY <1>5 DEF FinishSecondaries, Inductive, LeaderVolume
    <2>2. script'[leader] = "begin"
      BY <1>1, <1>5 DEF FinishSecondaries, EnterStage
    <2>3. LeaderVolume'
      BY <2>1, <2>2, <1>5
         DEF FinishSecondaries, EnterStage, LeaderVolume, MoveVolume, New, Whole, Over
    <2>4. Volumes'
      BY <1>2, <1>5
         DEF FinishSecondaries, EnterStage, Volumes, MemberVolume, SecondaryVolume, New, Whole
    <2> QED
      BY <2>3, <2>4, <1>1 DEF Inductive
  <1>6. CASE FinishMove
    <2>1. New(vol[leader].data)
      BY <1>6 DEF FinishMove, Inductive, LeaderVolume, MoveVolume
    <2>2. LeaderVolume'
      BY <2>1, <1>6 DEF FinishMove, EnterStage, LeaderVolume, Old, New, Whole
    <2>3. Volumes'
      BY <2>1, <1>2, <1>6 DEF FinishMove, EnterStage, Volumes, MemberVolume, Old, New, Whole
    <2> QED
      BY <2>2, <2>3, <1>1 DEF Inductive
  <1> QED
    BY <1>3, <1>4, <1>5, <1>6 DEF Ladder

LEMMA ServingKeeps ==
    ASSUME Inductive, NEW n \in Members, Configure(n) \/ Clone(n) \/ Failover(n)
    PROVE  Inductive'
  <1>1. /\ Sound' /\ leader \in Members /\ stage = "serving"
        /\ vol \in [Members -> Volume] /\ vol[n] \in Volume /\ vol[n].data \in Dir
    BY ServingSound, VolumeTypes
       DEF Inductive, Sound, TypeOK, Configure, Clone, Failover, Serving
  <1>2. Old(vol[leader].data) /\ \A m \in Members : MemberVolume(m)
    BY <1>1 DEF Inductive, LeaderVolume, Volumes
  <1>3. ASSUME NEW STATE d, Old(d), Serving(n, d)
        PROVE  Inductive'
    <2>1. /\ stage' = stage /\ version' = version /\ leader' = leader
          /\ vol'[n].data = d /\ vol'[n].done = vol[n].done
          /\ \A m \in Members \ {n} : vol'[m] = vol[m]
      BY <1>1, <1>3 DEF Serving, Volume
    <2>2. LeaderVolume'
      BY <2>1, <1>1, <1>2, <1>3 DEF LeaderVolume, Old, Whole
    <2>3. ASSUME NEW m \in Members PROVE MemberVolume(m)'
      BY <2>1, <2>3, <1>1, <1>2, <1>3 DEF MemberVolume, Old, Whole
    <2> QED
      BY <2>2, <2>3, <1>1 DEF Inductive, Volumes
  <1>4. CASE Configure(n)
    <2>1. Old([vol[n].data EXCEPT !.conf = <<n, version>>])
      BY <1>1, <1>4 DEF Configure, Old, Whole, Dir
    <2> QED
      BY <2>1, <1>3, <1>4 DEF Configure
  <1>5. CASE Clone(n)
    <2>1. Old([is |-> "whole", ver |-> version, conf |-> <<n, version>>])
      BY DEF Old, Whole
    <2> QED
      BY <2>1, <1>3, <1>5 DEF Clone
  <1>6. CASE Failover(n)
    <2>1. LeaderVolume' /\ \A m \in Members : MemberVolume(m)'
      BY <1>1, <1>2, <1>6 DEF Failover, LeaderVolume, MemberVolume, Old, Whole
    <2> QED
      BY <2>1, <1>1 DEF Inductive, Volumes
  <1> QED
    BY <1>4, <1>5, <1>6

LEMMA InductiveStep == ASSUME Inductive, LinkWindow = FALSE, [Next]_vars PROVE Inductive'
  <1>1. CASE Ladder
    BY <1>1, LadderKeeps
  <1>2. CASE \E n \in Members : Scripts(n)
    BY <1>2, PrimaryUpgradeKeeps, SecondaryUpgradeKeeps, MoveKeeps DEF Scripts
  <1>3. CASE \E n \in Members : Configure(n) \/ Clone(n) \/ Failover(n)
    BY <1>3, ServingKeeps
  <1>4. CASE \E n \in Members : Killed(n) \/ Repeated(n)
    BY <1>4, FaultsKeep
  <1>5. CASE UNCHANGED vars
    BY <1>5
       DEF vars, Inductive, Sound, TypeOK, ScriptsOfTheStage, CommandsOf, ReleaseAhead,
           LeaderVolume, PrimaryVolume, MoveVolume, Volumes, MemberVolume, SecondaryVolume,
           Old, New, Whole, Disabled
  <1> QED
    BY <1>1, <1>2, <1>3, <1>4, <1>5 DEF Next

LEMMA InductiveInit == ASSUME Init PROVE Inductive
  BY SoundInit DEF Init, Inductive, LeaderVolume, Volumes, MemberVolume, Old, Whole

LEMMA ScriptInvariant == ASSUME LinkWindow = FALSE PROVE Spec => []Inductive
  <1>1. Inductive /\ [Next]_vars => Inductive'
    BY InductiveStep
  <1> QED
    BY <1>1, InductiveInit, PTL DEF Spec

(* While the other volumes are converted the leader's data.new is the      *)
(* complete upgraded database, which secondary-upgrade streams from        *)
(* (upgrade/README.md).                                                    *)
THEOREM UpgradedDatabaseIsInDataNew ==
    ASSUME LinkWindow = FALSE
    PROVE  Spec => []UpgradedDatabaseInDataNew
  <1>1. Inductive => UpgradedDatabaseInDataNew
    BY DEF Inductive, LeaderVolume, New, UpgradedDatabaseInDataNew
  <1> QED
    BY <1>1, ScriptInvariant, PTL

(* Whatever script is killed at whatever command and run again, however    *)
(* often, a directory on the leader's volume holds all of the database     *)
(* (primary-upgrade, primary-upgrade-move).                                *)
THEOREM LeaderNeverLosesDatabase ==
    ASSUME LinkWindow = FALSE
    PROVE  Spec => []LeaderKeepsDatabase
  <1>1. ASSUME Inductive PROVE LeaderKeepsDatabase
    <2>1. leader \in Members /\ stage \in Stages
      BY <1>1 DEF Inductive, Sound, TypeOK
    <2>2. stage = "primary" => script[leader] \in PrimaryCommands
      BY <1>1, <2>1 DEF Inductive, Sound, ScriptsOfTheStage, CommandsOf
    <2>3. stage = "move" => script[leader] \in MoveCommands
      BY <1>1, <2>1 DEF Inductive, Sound, ScriptsOfTheStage, CommandsOf
    <2>4. \/ Old(vol[leader].data) \/ Disabled(vol[leader].data)
          \/ New(vol[leader].data) \/ New(vol[leader].new)
      BY <1>1, <2>1, <2>2, <2>3
         DEF Inductive, LeaderVolume, PrimaryVolume, PrimaryCommands, MoveVolume,
             MoveCommands, Stages
    <2> QED
      BY <2>4 DEF LeaderKeepsDatabase, Old, New, Whole, Disabled
  <1> QED
    BY <1>1, ScriptInvariant, PTL

(* Every volume that is handed back to Patroni holds the complete database *)
(* of the cluster's version, or nothing and will be cloned: never a        *)
(* database half converted or half copied (secondary-upgrade).             *)
THEOREM VolumesWholeOrEmpty ==
    ASSUME LinkWindow = FALSE
    PROVE  Spec => []WholeOrEmpty
  <1>1. ASSUME Inductive PROVE WholeOrEmpty
    BY <1>1 DEF Inductive, LeaderVolume, Volumes, MemberVolume, Old, New, WholeOrEmpty
  <1> QED
    BY <1>1, ScriptInvariant, PTL

-----------------------------------------------------------------------------
(***************************************************************************)
(* Whose configuration files are where.                                    *)

Own(n, conf) == \E w \in 1 .. version : conf = <<n, w>>

(* A member's volume between commands.  What secondary-upgrade streams     *)
(* over data are the leader's files; by then the member's own are in       *)
(* data.preserve, and stay there until the copy that has them is data.     *)
Files(n, v, command) ==
    /\ v.preserve = NoConf \/ Own(n, v.preserve)
    /\ v.done.is = "whole" => Own(n, v.done.conf)
    /\ (stage = "secondaries" /\ n # leader => v.preserve = NoConf \/ New(v.data))
          /\ v.data.is \in {"whole", "disabled"}
       => Own(n, v.data.conf)
    /\ n = leader =>
          /\ stage = "primary" /\ v.data.is = "disabled" /\ command \in {"begin", Over}
                => Own(n, v.new.conf)
          /\ stage \in {"secondaries", "move"} /\ v.new.is = "whole" => Own(n, v.new.conf)
    /\ stage = "secondaries" /\ n # leader =>
          /\ command = "preserve" => v.data.is = "whole"
          /\ command \in {"rsync", "restore"} => v.preserve # NoConf
          /\ command = "mark" => Own(n, v.new.conf)

FilesKnown == \A n \in Members : Files(n, vol[n], script[n])

LEMMA OwnIsSome == ASSUME NEW n, NEW conf, Own(n, conf) PROVE conf # NoConf
  BY DEF Own, NoConf

LEMMA WritesFiles ==
    ASSUME TypeOK, FilesKnown, NEW n \in Members, NEW STATE next, NEW STATE v,
           Writes(n, next, v), Files(n, v, next)
    PROVE  FilesKnown'
  <1>1. /\ stage' = stage /\ version' = version /\ leader' = leader
        /\ script'[n] = next /\ vol'[n] = v
        /\ \A m \in Members \ {n} : script'[m] = script[m] /\ vol'[m] = vol[m]
    BY WritesFrame
  <1>2. ASSUME NEW m \in Members PROVE Files(m, vol[m], script[m])'
    <2>1. CASE m = n
      BY <2>1, <1>1 DEF Files, Own, New, Whole
    <2>2. CASE m # n
      <3>1. Files(m, vol[m], script[m])
        BY DEF FilesKnown
      <3> QED
        BY <2>2, <3>1, <1>1 DEF Files, Own, New, Whole
    <2> QED
      BY <2>1, <2>2
  <1> QED
    BY <1>2 DEF FilesKnown

LEMMA PrimaryUpgradeFiles ==
    ASSUME Inductive, FilesKnown, NEW n \in Members, PrimaryUpgrade(n)
    PROVE  FilesKnown'
  <1> DEFINE v == vol[n]
  <1>1. Sound /\ TypeOK /\ v \in Volume
    BY DEF Inductive, Sound, TypeOK
  <1>2. v.data \in Dir /\ v.new \in Dir
    BY <1>1, VolumeTypes
  <1>3. script[n] \in PrimaryCommands \ {Over}
    BY DEF PrimaryUpgrade, PrimaryBegin, PrimaryClean, PrimaryInitdb, PrimaryDisable,
           PrimaryLink, PrimaryConfig, PrimaryCommands, Run, Over
  <1>4. stage = "primary" /\ n = leader
    BY <1>1, <1>3, AtWork
       DEF PrimaryUpgrade, PrimaryBegin, PrimaryClean, PrimaryInitdb, PrimaryDisable,
           PrimaryLink, PrimaryConfig, Run, PrimaryCommands, SecondaryCommands,
           MoveCommands, Idle, Over
  <1>5. PrimaryVolume(v, script[n]) /\ v.done = Absent
    BY <1>3, <1>4, VolumeKnown DEF VolumeAt, PrimaryCommands, Idle
  <1>6. Files(n, v, script[n])
    BY DEF FilesKnown
  <1>7. v.data.is \in {"whole", "disabled"}
    BY <1>3, <1>5 DEF PrimaryVolume, PrimaryCommands, Old, Whole, Disabled
  <1>8. (v.preserve = NoConf \/ Own(n, v.preserve)) /\ Own(n, v.data.conf) /\ Absent.is = "absent"
    BY <1>4, <1>6, <1>7 DEF Files, Absent
  <1>9. ASSUME NEW STATE next, NEW STATE w, Writes(n, next, w),
               w.preserve = v.preserve, w.done = Absent, w.data.conf = v.data.conf,
               w.data.is = "disabled" /\ next \in {"begin", Over} => Own(n, w.new.conf)
        PROVE  FilesKnown'
    <2>1. Files(n, w, next)
      BY <1>4, <1>8, <1>9 DEF Files
    <2> QED
      BY <2>1, <1>1, <1>9, WritesFiles
  <1>10. CASE PrimaryBegin(n)
    <2>1. CASE UpgradedAlready(v)
      <3>1. Writes(n, Over, v) /\ script[n] = "begin"
        BY <2>1, <1>1, <1>10, RunWrites DEF PrimaryBegin
      <3>2. Own(n, v.new.conf)
        BY <2>1, <3>1, <1>4, <1>6 DEF Files, UpgradedAlready
      <3> QED
        BY <3>1, <3>2, <1>5, <1>9
    <2>2. CASE ~UpgradedAlready(v)
      <3>1. Writes(n, "clean", v)
        BY <2>2, <1>1, <1>10, RunWrites DEF PrimaryBegin
      <3> QED
        BY <2>2, <3>1, <1>5, <1>9 DEF Over
    <2> QED
      BY <2>1, <2>2
  <1>11. CASE PrimaryClean(n)
    <2> DEFINE w == [v EXCEPT !.new = Absent]
    <2>1. Writes(n, "initdb", w)
      BY <1>1, <1>11, RunWrites DEF PrimaryClean
    <2>2. w.preserve = v.preserve /\ w.done = v.done /\ w.data = v.data
      BY <1>1 DEF Volume
    <2> HIDE DEF w
    <2> QED
      BY <2>1, <2>2, <1>5, <1>9 DEF Over
  <1>12. CASE PrimaryInitdb(n)
    <2> DEFINE w == [v EXCEPT !.new = FreshCluster]
    <2>1. Writes(n, "disable", w)
      BY <1>1, <1>12, RunWrites DEF PrimaryInitdb
    <2>2. w.preserve = v.preserve /\ w.done = v.done /\ w.data = v.data
      BY <1>1 DEF Volume
    <2> HIDE DEF w
    <2> QED
      BY <2>1, <2>2, <1>5, <1>9 DEF Over
  <1>13. CASE PrimaryDisable(n)
    <2> DEFINE w == [v EXCEPT !.data.is = "disabled"]
    <2>1. Writes(n, "link", w)
      BY <1>1, <1>13, RunWrites DEF PrimaryDisable
    <2>2. w.preserve = v.preserve /\ w.done = v.done /\ w.data.conf = v.data.conf
      BY <1>1, <1>2 DEF Volume, Dir
    <2> HIDE DEF w
    <2> QED
      BY <2>1, <2>2, <1>5, <1>9 DEF Over
  <1>14. CASE PrimaryLink(n)
    <2> DEFINE w == [v EXCEPT !.new.is = "whole"]
    <2>1. Writes(n, "config", w)
      BY <1>1, <1>14, RunWrites DEF PrimaryLink
    <2>2. w.preserve = v.preserve /\ w.done = v.done /\ w.data = v.data
      BY <1>1 DEF Volume
    <2> HIDE DEF w
    <2> QED
      BY <2>1, <2>2, <1>5, <1>9 DEF Over
  <1>15. CASE PrimaryConfig(n)
    <2> DEFINE w == [v EXCEPT !.new.conf = v.data.conf]
    <2>1. Writes(n, Over, w)
      BY <1>1, <1>15, RunWrites DEF PrimaryConfig
    <2>2. w.preserve = v.preserve /\ w.done = v.done /\ w.data = v.data /\ w.new.conf = v.data.conf
      BY <1>1, <1>2 DEF Volume, Dir
    <2> HIDE DEF w
    <2> QED
      BY <2>1, <2>2, <1>5, <1>8, <1>9
  <1> QED
    BY <1>10, <1>11, <1>12, <1>13, <1>14, <1>15 DEF PrimaryUpgrade

LEMMA SecondaryUpgradeFiles ==
    ASSUME Inductive, FilesKnown, NEW n \in Members, SecondaryUpgrade(n)
    PROVE  FilesKnown'
  <1> DEFINE v == vol[n]
  <1>1. Sound /\ TypeOK /\ v \in Volume
    BY DEF Inductive, Sound, TypeOK
  <1>2. v.data \in Dir /\ v.new \in Dir /\ v.done \in Dir
    BY <1>1, VolumeTypes
  <1>3. script[n] \in SecondaryCommands \ {Over}
    BY DEF SecondaryUpgrade, SecondaryBegin, SecondaryClean, SecondaryCompare,
           SecondaryPreserve, SecondaryRsync, SecondaryRestore, SecondaryMark,
           SecondaryRemove, SecondaryInstall, SecondaryCommands, Run, Over
  <1>4. stage = "secondaries" /\ n # leader
    BY <1>1, <1>3, AtWork
       DEF SecondaryUpgrade, SecondaryBegin, SecondaryClean, SecondaryCompare,
           SecondaryPreserve, SecondaryRsync, SecondaryRestore, SecondaryMark,
           SecondaryRemove, SecondaryInstall, Run, PrimaryCommands, SecondaryCommands,
           MoveCommands, Idle, Over
  <1>5. SecondaryVolume(v, script[n], n \in synced)
    BY <1>3, <1>4, VolumeKnown DEF VolumeAt, SecondaryCommands, Idle
  <1>6. Files(n, v, script[n])
    BY DEF FilesKnown
  <1>7. /\ v.preserve = NoConf \/ Own(n, v.preserve)
        /\ v.done.is = "whole" => Own(n, v.done.conf)
        /\ (v.preserve = NoConf \/ New(v.data)) /\ v.data.is \in {"whole", "disabled"}
              => Own(n, v.data.conf)
    BY <1>4, <1>6 DEF Files
  <1>8. ASSUME NEW STATE next, NEW STATE w, Writes(n, next, w),
               w.preserve = v.preserve \/ Own(n, w.preserve),
               w.done = v.done \/ (w.done.is = "whole" => Own(n, w.done.conf)),
               \/ w.data = v.data /\ (w.preserve = v.preserve \/ w.preserve # NoConf)
               \/ w.data.is = "absent"
               \/ w.preserve # NoConf /\ ~New(w.data),
               next = "preserve" => w.data.is = "whole",
               next \in {"rsync", "restore"} => w.preserve # NoConf,
               next = "mark" => Own(n, w.new.conf)
        PROVE  FilesKnown'
    <2>1. Files(n, w, next)
      BY <1>4, <1>7, <1>8 DEF Files
    <2> QED
      BY <2>1, <1>1, <1>8, WritesFiles
  <1>9. CASE SecondaryBegin(n)
    <2>1. Writes(n, Over, v) \/ Writes(n, "remove", v) \/ Writes(n, "clean", v)
      BY <1>1, <1>9, RunWrites DEF SecondaryBegin
    <2> QED
      BY <2>1, <1>8 DEF Over
  <1>10. CASE SecondaryClean(n)
    <2> DEFINE w == [v EXCEPT !.new = Absent]
    <2>1. Writes(n, "compare", w)
      BY <1>1, <1>10, RunWrites DEF SecondaryClean
    <2>2. w.preserve = v.preserve /\ w.done = v.done /\ w.data = v.data
      BY <1>1 DEF Volume
    <2> HIDE DEF w
    <2> QED
      BY <2>1, <2>2, <1>8
  <1>11. CASE SecondaryCompare(n)
    <2>1. (Writes(n, "preserve", v) /\ v.data.is = "whole") \/ Writes(n, "remove", v)
      BY <1>1, <1>11, RunWrites DEF SecondaryCompare, InPlace, Whole
    <2> QED
      BY <2>1, <1>8
  <1>12. CASE SecondaryPreserve(n)
    <2> DEFINE w == [v EXCEPT !.preserve = Saved(v)]
    <2>1. Writes(n, "rsync", w) /\ script[n] = "preserve"
      BY <1>1, <1>12, RunWrites DEF SecondaryPreserve
    <2>2. w.preserve = Saved(v) /\ w.done = v.done /\ w.data = v.data
      BY <1>1 DEF Volume
    <2>3. v.data.is = "whole"
      BY <2>1, <1>4, <1>6 DEF Files
    <2>4. Own(n, Saved(v))
      BY <2>3, <1>7 DEF Saved
    <2>5. Saved(v) # NoConf
      BY <2>4, OwnIsSome
    <2> HIDE DEF w
    <2> QED
      BY <2>1, <2>2, <2>4, <2>5, <1>8
  <1>13. CASE SecondaryRsync(n)
    <2> DEFINE w == [v EXCEPT !.data = vol[leader].data, !.new = vol[leader].new]
    <2>1. script[n] = "rsync" /\ n \in synced
      BY <1>5, <1>13 DEF SecondaryRsync, Run, SecondaryVolume
    <2>2. Writes(n, "restore", w)
      BY <2>1, <1>1, <1>13, RunWrites DEF SecondaryRsync
    <2>3. w.preserve = v.preserve /\ w.done = v.done /\ w.data = vol[leader].data
      BY <1>1 DEF Volume
    <2>4. ~New(vol[leader].data)
      BY <1>4 DEF Inductive, LeaderVolume, New, Whole, Disabled
    <2>5. v.preserve # NoConf
      BY <2>1, <1>4, <1>6 DEF Files
    <2> HIDE DEF w
    <2> QED
      BY <2>2, <2>3, <2>4, <2>5, <1>8
  <1>14. CASE SecondaryRestore(n)
    <2> DEFINE w == [v EXCEPT !.new.conf = v.preserve]
    <2>1. Writes(n, "mark", w) /\ script[n] = "restore"
      BY <1>1, <1>14, RunWrites DEF SecondaryRestore
    <2>2. w.preserve = v.preserve /\ w.done = v.done /\ w.data = v.data /\ w.new.conf = v.preserve
      BY <1>1, <1>2 DEF Volume, Dir
    <2>3. Own(n, v.preserve)
      BY <2>1, <1>4, <1>6, <1>7 DEF Files
    <2> HIDE DEF w
    <2> QED
      BY <2>1, <2>2, <2>3, <1>8
  <1>15. CASE SecondaryMark(n)
    <2> DEFINE w == [v EXCEPT !.done = v.new, !.new = Absent]
    <2>1. Writes(n, "remove", w) /\ script[n] = "mark"
      BY <1>1, <1>15, RunWrites DEF SecondaryMark
    <2>2. w.preserve = v.preserve /\ w.done = v.new /\ w.data = v.data
      BY <1>1 DEF Volume
    <2>3. Own(n, v.new.conf)
      BY <2>1, <1>4, <1>6 DEF Files
    <2> HIDE DEF w
    <2> QED
      BY <2>1, <2>2, <2>3, <1>8
  <1>16. CASE SecondaryRemove(n)
    <2> DEFINE w == [v EXCEPT !.data = Absent]
    <2>1. Writes(n, "install", w)
      BY <1>1, <1>16, RunWrites DEF SecondaryRemove
    <2>2. w.preserve = v.preserve /\ w.done = v.done /\ w.data.is = "absent"
      BY <1>1 DEF Volume, Absent
    <2> HIDE DEF w
    <2> QED
      BY <2>1, <2>2, <1>8
  <1>17. CASE SecondaryInstall(n)
    <2>1. Writes(n, Over, Installed(v)) /\ script[n] = "install"
      BY <1>1, <1>17, RunWrites DEF SecondaryInstall
    <2>2. CASE v.done.is = "absent"
      BY <2>1, <2>2, <1>8 DEF Installed, Over
    <2>3. CASE v.done.is # "absent"
      <3> DEFINE w == [v EXCEPT !.data = v.done, !.done = Absent, !.preserve = NoConf]
      <3>1. Writes(n, Over, w)
        BY <2>1, <2>3 DEF Installed
      <3>2. w.preserve = NoConf /\ w.done.is = "absent" /\ w.data = v.done
        BY <1>1 DEF Volume, Absent
      <3>3. Own(n, v.done.conf)
        BY <2>3, <1>5, <1>7 DEF SecondaryVolume, New, Whole, Absent
      <3> HIDE DEF w
      <3>4. Files(n, w, Over)
        BY <3>2, <3>3, <1>4 DEF Files, Over
      <3> QED
        BY <3>1, <3>4, <1>1, WritesFiles
    <2> QED
      BY <2>2, <2>3
  <1> QED
    BY <1>9, <1>10, <1>11, <1>12, <1>13, <1>14, <1>15, <1>16, <1>17 DEF SecondaryUpgrade

LEMMA MoveFiles ==
    ASSUME Inductive, FilesKnown, NEW n \in Members, Move(n)
    PROVE  FilesKnown'
  <1> DEFINE v == vol[n]
  <1>1. Sound /\ TypeOK /\ v \in Volume
    BY DEF Inductive, Sound, TypeOK
  <1>2. script[n] \in {"begin", "remove", "install"} /\ stage = "move"
    BY DEF Move, MoveBegin, MoveRemove, MoveInstall, Run
  <1>3. n = leader
    BY <1>1, <1>2, AtWork DEF Idle
  <1>4. MoveVolume(v, script[n]) /\ v.done = Absent
    BY <1>2, <1>3, VolumeKnown DEF VolumeAt, Idle
  <1>5. Files(n, v, script[n])
    BY DEF FilesKnown
  <1>6. CASE MoveBegin(n)
    <2>1. Writes(n, "remove", v) \/ Writes(n, Over, v)
      BY <1>1, <1>6, RunWrites DEF MoveBegin
    <2>2. Files(n, v, "remove") /\ Files(n, v, Over)
      BY <1>2, <1>5 DEF Files
    <2> QED
      BY <2>1, <2>2, <1>1, WritesFiles
  <1>7. CASE MoveRemove(n)
    <2> DEFINE w == [v EXCEPT !.data = Absent]
    <2>1. Writes(n, "install", w)
      BY <1>1, <1>7, RunWrites DEF MoveRemove
    <2>2. w.preserve = v.preserve /\ w.done = v.done /\ w.new = v.new /\ w.data.is = "absent"
      BY <1>1 DEF Volume, Absent
    <2> HIDE DEF w
    <2>3. Files(n, w, "install")
      BY <2>2, <1>2, <1>5 DEF Files
    <2> QED
      BY <2>1, <2>3, <1>1, WritesFiles
  <1>8. CASE MoveInstall(n)
    <2> DEFINE w == [v EXCEPT !.data = v.new, !.new = Absent]
    <2>1. Writes(n, Over, w) /\ script[n] = "install"
      BY <1>1, <1>8, RunWrites DEF MoveInstall
    <2>2. w.preserve = v.preserve /\ w.done = v.done /\ w.new.is = "absent" /\ w.data = v.new
      BY <1>1 DEF Volume, Absent
    <2>3. Own(n, v.new.conf)
      BY <2>1, <1>2, <1>3, <1>4, <1>5 DEF Files, MoveVolume, New, Whole
    <2> HIDE DEF w
    <2>4. Files(n, w, Over)
      BY <2>2, <2>3, <1>2, <1>5 DEF Files
    <2> QED
      BY <2>1, <2>4, <1>1, WritesFiles
  <1> QED
    BY <1>6, <1>7, <1>8 DEF Move

(* Outside of the window no kill mixes anybody's files up.                 *)
LEMMA TornFiles ==
    ASSUME Inductive, FilesKnown, LinkWindow = FALSE, NEW n \in Members,
           script[n] \in Commands \ {"begin"}, NEW w \in Torn(n), Allowed(n, w)
    PROVE  Files(n, w, "begin")
  <1> DEFINE v      == vol[n]
             source == vol[leader]
  <1>1. Sound /\ TypeOK /\ v \in Volume /\ source \in Volume
    BY DEF Inductive, Sound, TypeOK
  <1>2. v.data \in Dir /\ v.new \in Dir
    BY <1>1, VolumeTypes
  <1>3. script[n] \notin {"begin", "link", "config", Over, Idle}
    BY DEF Allowed, Commands, Over, Idle
  <1>4. VolumeAt(n, v, script[n]) /\ Files(n, v, script[n])
    BY <1>3, VolumeKnown DEF FilesKnown
  <1>5. TornFields(n, w)
    BY <1>1, TornLeaves
  <1>6. script[n] # "install" => w.preserve = v.preserve
    <2>1. ASSUME script[n] # "install"
          PROVE  \/ w = v
                 \/ w = [v EXCEPT !.new = [Partial(FreshCluster) EXCEPT !.conf = v.new.conf]]
                 \/ w = [v EXCEPT !.new.conf = v.data.conf]
                 \/ w = [v EXCEPT !.data.conf = source.data.conf]
                 \/ w = [v EXCEPT !.data = source.data]
                 \/ w = [[v EXCEPT !.data = source.data] EXCEPT !.new = Partial(source.new)]
                 \/ w = [v EXCEPT !.new.conf = v.preserve]
                 \/ w = [v EXCEPT !.data.is = "partial"]
                 \/ w = [v EXCEPT !.data.is = "partial", !.data.ver = 0]
      BY <2>1, TornCases
    <2> QED
      BY <2>1, <1>1 DEF Volume
  <1>7. CASE stage = "primary"
    <2>1. n = leader /\ script[n] \in {"clean", "initdb", "disable"}
      BY <1>1, <1>3, <1>7, AtWork DEF PrimaryCommands
    <2>2. w.data = v.data /\ w.done = v.done /\ w.preserve = v.preserve
      BY <2>1, <1>5, <1>6 DEF TornFields
    <2>3. v.data.is = "whole"
      BY <2>1, <1>4, <1>7 DEF VolumeAt, PrimaryVolume, Old, Whole
    <2> QED
      BY <2>1, <2>2, <2>3, <1>4, <1>7 DEF Files
  <1>8. CASE stage = "move"
    <2>1. n = leader /\ script[n] \in {"remove", "install"}
      BY <1>1, <1>3, <1>8, AtWork DEF MoveCommands
    <2>2. w.new = v.new /\ w.done = v.done /\ (w.data = v.data \/ w.data.is = "partial")
      BY <2>1, <1>5 DEF TornFields
    <2>3. w.preserve = v.preserve
      BY <2>1, <1>6, <1>8, TornCases
    <2> QED
      BY <2>1, <2>2, <2>3, <1>4, <1>8 DEF Files
  <1>9. CASE stage = "secondaries"
    <2>1. n # leader /\ script[n] \in SecondaryCommands \ {"begin", Over}
      BY <1>1, <1>3, <1>9, AtWork
    <2>2. SecondaryVolume(v, script[n], n \in synced)
      BY <2>1, <1>4, <1>9 DEF VolumeAt
    <2>3. w.done = v.done
      BY <1>5 DEF TornFields
    <2>4. CASE script[n] = "rsync"
      <3>1. w.data \in {v.data, source.data, [v.data EXCEPT !.conf = source.data.conf]}
        BY <2>4, <1>5 DEF TornFields
      <3>2. ~New(v.data) /\ ~New(source.data)
        BY <2>2, <2>4, <1>9
           DEF SecondaryVolume, SecondaryCommands, Over, Inductive, LeaderVolume, New, Whole, Disabled
      <3>3. ~New(w.data)
        BY <3>1, <3>2, <1>2 DEF New, Whole, Dir
      <3>4. w.preserve = v.preserve /\ w.preserve # NoConf
        BY <2>1, <2>4, <1>4, <1>6, <1>9 DEF Files
      <3> QED
        BY <2>1, <2>3, <3>3, <3>4, <1>4, <1>9 DEF Files
    <2>5. CASE script[n] = "install"
      <3>1. w.data = v.data /\ w.data.is = "absent"
        BY <2>2, <2>5, <1>5 DEF TornFields, SecondaryVolume, Absent
      <3>2. w = v \/ w = [v EXCEPT !.preserve = NoConf]
        BY <2>5, TornCases
      <3>3. w.preserve = v.preserve \/ w.preserve = NoConf
        BY <3>2, <1>1 DEF Volume
      <3> QED
        BY <2>1, <2>3, <3>1, <3>3, <1>4, <1>9 DEF Files
    <2>6. CASE script[n] \notin {"rsync", "install"}
      <3>1. w.data = v.data \/ w.data.is = "partial"
        BY <2>6, <1>5 DEF TornFields
      <3>2. w.preserve = v.preserve
        BY <2>6, <1>6
      <3> QED
        BY <2>1, <2>3, <3>1, <3>2, <1>4, <1>9 DEF Files
    <2> QED
      BY <2>4, <2>5, <2>6
  <1> QED
    BY <1>1, <1>3, <1>7, <1>8, <1>9, AtWork

LEMMA FaultsFiles ==
    ASSUME Inductive, FilesKnown, LinkWindow = FALSE, NEW n \in Members, Killed(n) \/ Repeated(n)
    PROVE  FilesKnown'
  <1>1. TypeOK
    BY DEF Inductive, Sound
  <1>2. CASE Killed(n)
    <2>1. PICK w \in Torn(n) : Allowed(n, w) /\ Writes(n, "begin", w)
      BY <1>1, <1>2, KilledWrites
    <2>2. Files(n, w, "begin")
      BY <2>1, <1>1, <1>2, KilledWrites, TornFiles
    <2> QED
      BY <2>1, <2>2, <1>1, WritesFiles
  <1>3. CASE Repeated(n)
    <2>1. script[n] = Over /\ Writes(n, "begin", vol[n])
      BY <1>1, <1>3, RepeatedWrites
    <2>2. Files(n, vol[n], "begin")
      BY <2>1 DEF FilesKnown, Files
    <2> QED
      BY <2>1, <2>2, <1>1, WritesFiles
  <1> QED
    BY <1>2, <1>3

LEMMA LadderFiles ==
    ASSUME Inductive, FilesKnown, Ladder
    PROVE  FilesKnown'
  <1>1. Sound /\ TypeOK /\ leader \in Members /\ version \in Nat
    BY BoundsAssumption DEF Inductive, Sound, TypeOK, Release
  <1>2. \A m \in Members : MemberVolume(m) /\ Files(m, vol[m], script[m])
    BY DEF Inductive, Volumes, FilesKnown
  <1>3. CASE StartUpgrade
    <2>1. vol[leader].data.is = "whole"
      BY <1>1, <1>3 DEF StartUpgrade, Whole
    <2>2. /\ stage = "serving" /\ stage' = "primary"
          /\ UNCHANGED <<version, leader, vol>>
      BY <1>3 DEF StartUpgrade, EnterStage
    <2>3. ASSUME NEW m \in Members PROVE Files(m, vol[m], script[m])'
      BY <2>1, <2>2, <1>2 DEF Files, Own
    <2> QED
      BY <2>3 DEF FilesKnown
  <1>4. CASE FinishPrimary
    <2>1. Disabled(vol[leader].data) /\ script[leader] = Over
      BY <1>4 DEF FinishPrimary, Inductive, LeaderVolume, PrimaryVolume
    <2>2. /\ stage = "primary" /\ stage' = "secondaries"
          /\ UNCHANGED <<version, leader, vol>>
          /\ \A m \in Members : script'[m] \in {"begin", Idle}
      BY <1>4 DEF FinishPrimary, EnterStage
    <2>3. ASSUME NEW m \in Members PROVE Files(m, vol[m], script[m])'
      <3>1. Files(m, vol[m], script[m])
        BY <1>2
      <3>2. CASE m = leader
        BY <2>1, <2>2, <3>1, <3>2 DEF Files, Own, Disabled
      <3>3. CASE m # leader
        BY <2>2, <3>1, <3>3 DEF Files, Own, Idle
      <3> QED
        BY <3>2, <3>3
    <2> QED
      BY <2>3 DEF FilesKnown
  <1>5. CASE FinishSecondaries
    <2>1. /\ stage = "secondaries" /\ stage' = "move"
          /\ UNCHANGED <<version, leader, vol>>
      BY <1>5 DEF FinishSecondaries, EnterStage
    <2>2. ASSUME NEW m \in Members PROVE Files(m, vol[m], script[m])'
      <3>1. Files(m, vol[m], script[m]) /\ MemberVolume(m)
        BY <1>2
      <3>2. CASE m = leader
        BY <2>1, <3>1, <3>2 DEF Files, Own
      <3>3. CASE m # leader
        <4>1. vol[m].data.is = "absent" \/ New(vol[m].data)
          BY <2>1, <3>1, <3>3, <1>5
             DEF FinishSecondaries, MemberVolume, SecondaryVolume, Absent
        <4> QED
          BY <2>1, <3>1, <3>3, <4>1 DEF Files, Own
      <3> QED
        BY <3>2, <3>3
    <2> QED
      BY <2>2 DEF FilesKnown
  <1>6. CASE FinishMove
    <2>1. /\ stage = "move" /\ stage' = "serving" /\ version' = version + 1
          /\ UNCHANGED <<leader, vol>>
      BY <1>6 DEF FinishMove, EnterStage
    <2>2. ASSUME NEW m, NEW conf, Own(m, conf)
          PROVE  \E w \in 1 .. version' : conf = <<m, w>>
      BY <1>1, <2>1, <2>2 DEF Own
    <2>3. ASSUME NEW m \in Members PROVE Files(m, vol[m], script[m])'
      <3>1. Files(m, vol[m], script[m])
        BY <1>2
      <3>2. /\ vol[m].preserve = NoConf \/ Own(m, vol[m].preserve)
            /\ vol[m].done.is = "whole" => Own(m, vol[m].done.conf)
            /\ vol[m].data.is \in {"whole", "disabled"} => Own(m, vol[m].data.conf)
        BY <2>1, <3>1 DEF Files
      <3> DEFINE v == vol[m]
      <3>3. /\ v.preserve = NoConf \/ \E w \in 1 .. version' : v.preserve = <<m, w>>
            /\ v.done.is = "whole" => \E w \in 1 .. version' : v.done.conf = <<m, w>>
            /\ v.data.is \in {"whole", "disabled"} => \E w \in 1 .. version' : v.data.conf = <<m, w>>
        BY <2>2, <3>2
      <3> QED
        BY <2>1, <3>3 DEF Files, Own
    <2> QED
      BY <2>3 DEF FilesKnown
  <1> QED
    BY <1>3, <1>4, <1>5, <1>6 DEF Ladder

LEMMA ServingFiles ==
    ASSUME Inductive, FilesKnown, NEW n \in Members, Configure(n) \/ Clone(n) \/ Failover(n)
    PROVE  FilesKnown'
  <1>1. /\ stage = "serving" /\ version \in 1 .. version
        /\ vol \in [Members -> Volume] /\ vol[n] \in Volume /\ vol[n].data \in Dir
    BY VolumeTypes, BoundsAssumption
       DEF Inductive, Sound, TypeOK, Release, Configure, Clone, Failover, Serving
  <1>2. \A m \in Members : Files(m, vol[m], script[m])
    BY DEF FilesKnown
  <1>3. ASSUME NEW STATE d, Own(n, d.conf), Serving(n, d)
        PROVE  FilesKnown'
    <2>1. /\ stage' = stage /\ version' = version /\ leader' = leader /\ script' = script
          /\ vol'[n].data = d /\ vol'[n].done = vol[n].done /\ vol'[n].preserve = vol[n].preserve
          /\ \A m \in Members \ {n} : vol'[m] = vol[m]
      BY <1>1, <1>3 DEF Serving, Volume
    <2>2. ASSUME NEW m \in Members PROVE Files(m, vol[m], script[m])'
      BY <2>1, <2>2, <1>1, <1>2, <1>3 DEF Files, Own
    <2> QED
      BY <2>2 DEF FilesKnown
  <1>4. CASE Configure(n)
    <2>1. Own(n, [vol[n].data EXCEPT !.conf = <<n, version>>].conf)
      BY <1>1 DEF Own, Dir
    <2> QED
      BY <2>1, <1>3, <1>4 DEF Configure
  <1>5. CASE Clone(n)
    <2>1. Own(n, [is |-> "whole", ver |-> version, conf |-> <<n, version>>].conf)
      BY <1>1 DEF Own
    <2> QED
      BY <2>1, <1>3, <1>5 DEF Clone
  <1>6. CASE Failover(n)
    BY <1>1, <1>2, <1>6 DEF Failover, FilesKnown, Files, Own
  <1> QED
    BY <1>4, <1>5, <1>6

LEMMA FilesStep ==
    ASSUME Inductive, FilesKnown, LinkWindow = FALSE, [Next]_vars
    PROVE  FilesKnown'
  <1>1. CASE Ladder
    BY <1>1, LadderFiles
  <1>2. CASE \E n \in Members : Scripts(n)
    BY <1>2, PrimaryUpgradeFiles, SecondaryUpgradeFiles, MoveFiles DEF Scripts
  <1>3. CASE \E n \in Members : Configure(n) \/ Clone(n) \/ Failover(n)
    BY <1>3, ServingFiles
  <1>4. CASE \E n \in Members : Killed(n) \/ Repeated(n)
    BY <1>4, FaultsFiles
  <1>5. CASE UNCHANGED vars
    BY <1>5 DEF vars, FilesKnown, Files, Own, New, Whole
  <1> QED
    BY <1>1, <1>2, <1>3, <1>4, <1>5 DEF Next

(* A member that is upgraded in place keeps its own configuration files,   *)
(* although the leader's are streamed over them: however often its script  *)
(* is killed, what it saved before the first time is what it puts back     *)
(* (secondary-upgrade).  Killed in the window, primary-upgrade leaves      *)
(* initdb's configuration to the leader.                                   *)
THEOREM ConfigurationStays ==
    ASSUME LinkWindow = FALSE
    PROVE  Spec => []ConfigurationKept
  <1>1. Init => FilesKnown
    <2>1. ASSUME Init, NEW n \in Members PROVE Files(n, vol[n], script[n])
      BY <2>1 DEF Init, Files, Own, Absent
    <2> QED
      BY <2>1 DEF FilesKnown
  <1>2. Inductive /\ FilesKnown /\ [Next]_vars => FilesKnown'
    BY FilesStep
  <1>3. FilesKnown => ConfigurationKept
    BY DEF FilesKnown, Files, Own, ConfigurationKept
  <1> QED
    BY <1>1, <1>2, <1>3, ScriptInvariant, PTL DEF Spec
====
