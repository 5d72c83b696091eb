--------------------------- MODULE PreupgradeSync ---------------------------
(***************************************************************************)
(* The job of the preupgrade-sync stage, query by query, against a         *)
(* replicated cluster whose servers replay, restart, reconnect and fail    *)
(* over meanwhile: it repeats a checkpoint on the primary, the wait for    *)
(* the replicas and a restart point on each of them until the primary's    *)
(* WAL stands still, and then has Patroni paused.                          *)
(*                                                                         *)
(* UpgradeOperator has a run of this job as one step.  The operator is     *)
(* here only what creates the job again after it failed.  Servers, Patroni *)
(* and the rows of pg_stat_replication are not in the repository: they are *)
(* modelled from what the job relies on.                                   *)
(*                                                                         *)
(* A definition marked (variant) is a faulty form of the one it precedes,  *)
(* used by no specification: README.md, "Sensitivity".                     *)
(***************************************************************************)
EXTENDS Integers, FiniteSets, FiniteSetsExt

CONSTANTS
    Members,     \* the cluster's servers, cluster-size many
    NoMember,    \* none of them
    MaxWrites,   \* how often somebody else writes WAL
    MaxFaults,   \* how many faults of servers, connections and jobs
    FormerRows   \* may a row of a replica that has reconnected linger?

ASSUME MembersAssumption ==
    IsFiniteSet(Members) /\ Cardinality(Members) >= 2 /\ NoMember \notin Members
ASSUME BoundsAssumption == MaxWrites \in Nat /\ MaxFaults \in Nat
ASSUME ChoicesAssumption == FormerRows \in BOOLEAN

VARIABLES
    primary,     \* the member Patroni has elected, or NoMember
    up,          \* the members whose server runs
    wal,         \* how far each member has written or replayed the WAL
    received,    \* how far it has the WAL on its disk
    checkpoints, \* where the WAL has a checkpoint record
    restart,     \* the checkpoint in each member's control file
    row,         \* the position in each replica's walsender row, 0 for no row
    former,      \* the same of a connection the replica no longer uses
    paused,      \* Patroni's pause
    pc,          \* the query the job is at
    conn,        \* the member its connection leads to, or NoMember
    lsn,         \* wal_lsn: the position the replicas must reach
    asked,       \* the addresses read and not yet dealt with
    synced,      \* how many of them had caught up
    writes, faults

servers == <<primary, up, wal, received, checkpoints, restart, row, former, paused>>
job     == <<pc, conn, lsn, asked, synced>>
vars    == <<servers, job, writes, faults>>

Queries == {"connect", "checkpoint", "position", "replicas", "ask", "compare", "pause"}

Position == 1 .. 2 + MaxWrites + 3 * (MaxWrites + MaxFaults)
NoRow    == [at |-> 0, reachable |-> FALSE]

TypeOK ==
    /\ primary \in Members \cup {NoMember}
    /\ up \subseteq Members
    /\ wal \in [Members -> Position]
    /\ received \in [Members -> Position]
    /\ checkpoints \subseteq Position
    /\ restart \in [Members -> Position]
    /\ row \in [Members -> Position \cup {0}]
    /\ former \in [Members -> [at : Position \cup {0}, reachable : BOOLEAN]]
    /\ paused \in BOOLEAN
    /\ pc \in Queries \cup {"succeeded", "failed"}
    /\ conn \in Members \cup {NoMember}
    /\ lsn \in Position
    /\ asked \in [Members -> 0 .. 2]
    /\ synced \in 0 .. Cardinality(Members) - 1
    /\ writes \in 0 .. MaxWrites
    /\ faults \in 0 .. MaxFaults

Nobody == [m \in Members |-> 0]

Init ==
    /\ primary \in Members
    /\ up = Members
    /\ wal = [m \in Members |-> 1]
    /\ received = wal
    /\ checkpoints = {1}
    /\ restart = [m \in Members |-> 1]
    /\ row = [m \in Members |-> IF m = primary THEN 0 ELSE 1]
    /\ former = [m \in Members |-> NoRow]
    /\ paused = FALSE
    /\ pc = "connect"
    /\ conn = NoMember
    /\ lsn = 1
    /\ asked = Nobody
    /\ synced = 0
    /\ writes = 0 /\ faults = 0

(* The latest checkpoint record at or before a position of the WAL.        *)
LastCheckpoint(p) == Max({c \in checkpoints : c <= p})

Fault == faults < MaxFaults /\ faults' = faults + 1

-----------------------------------------------------------------------------
(* The servers and their replication connections.                          *)

(* A record more on m, written or replayed.                                *)
Extend(m) ==
    /\ wal' = [wal EXCEPT ![m] = @ + 1]
    /\ received' = [received EXCEPT ![m] = Max({@, wal[m] + 1})]

(* A checkpoint record, on m, a server out of recovery.                    *)
WriteCheckpoint(m) ==
    /\ Extend(m)
    /\ checkpoints' = checkpoints \cup {wal[m] + 1}
    /\ restart' = [restart EXCEPT ![m] = wal[m] + 1]

(* Sessions other than the job's, autovacuum and the background writer go  *)
(* on writing, and the checkpointer has a schedule of its own.             *)
Write ==
    /\ primary # NoMember
    /\ writes < MaxWrites
    /\ writes' = writes + 1
    /\ \/ WriteCheckpoint(primary)
       \/ /\ Extend(primary)
          /\ UNCHANGED <<checkpoints, restart>>
    /\ UNCHANGED <<primary, up, row, former, paused, job, faults>>

Connect(m) ==
    /\ primary \notin {NoMember, m}
    /\ m \in up
    /\ row[m] = 0
    /\ row' = [row EXCEPT ![m] = wal[m]]
    /\ UNCHANGED <<primary, up, wal, received, checkpoints, restart, former, paused, job, writes, faults>>

(* The next record, from the disk or from the primary.                     *)
Replay(m) ==
    /\ m \in up
    /\ \/ wal[m] < received[m]
       \/ row[m] # 0 /\ wal[m] < wal[primary]
    /\ Extend(m)
    /\ UNCHANGED <<primary, up, checkpoints, restart, row, former, paused, job, writes, faults>>

(* The primary hears of a replica's position some time after the replay.   *)
Report(m) ==
    /\ row[m] \notin {0, wal[m]}
    /\ row' = [row EXCEPT ![m] = wal[m]]
    /\ UNCHANGED <<primary, up, wal, received, checkpoints, restart, former, paused, job, writes, faults>>

(* The primary drops a dead connection's row after wal_sender_timeout.     *)
Expire(m) ==
    /\ former[m] # NoRow
    /\ former' = [former EXCEPT ![m] = NoRow]
    /\ UNCHANGED <<primary, up, wal, received, checkpoints, restart, row, paused, job, writes, faults>>

(* A replica loses its connection and will open another from the same      *)
(* address; the primary may not have noticed that the first one is gone.   *)
Disconnect(m) ==
    /\ row[m] # 0
    /\ Fault
    /\ row' = [row EXCEPT ![m] = 0]
    /\ \/ UNCHANGED former
       \/ /\ FormerRows
          /\ former' = [former EXCEPT ![m] = [at |-> row[m], reachable |-> TRUE]]
    /\ UNCHANGED <<primary, up, wal, received, checkpoints, restart, paused, job, writes>>

(* m's server stops, and with a primary every connection it served.        *)
Stop(m) ==
    /\ m \in up
    /\ up' = up \ {m}
    /\ conn' = IF conn = m THEN NoMember ELSE conn
    /\ IF m = primary
       THEN /\ primary' = NoMember
            /\ row' = Nobody
       ELSE /\ UNCHANGED primary
            /\ row' = [row EXCEPT ![m] = 0]
    /\ UNCHANGED <<wal, received, checkpoints, restart, paused, pc, lsn, synced, writes>>

(* PostgreSQL fails in its container: the address stays.                   *)
ServerCrash(m) ==
    /\ Fault
    /\ Stop(m)
    /\ former' = IF m = primary THEN [n \in Members |-> NoRow] ELSE former
    /\ UNCHANGED asked

(* The pod is lost, with its address: nothing answers there again, but a   *)
(* row of the lost connection may linger on the primary.                   *)
PodLoss(m) ==
    /\ Fault
    /\ Stop(m)
    /\ former' = IF m = primary THEN [n \in Members |-> NoRow]
                 ELSE [former EXCEPT ![m] = [at |-> row[m], reachable |-> FALSE]]
    /\ asked' = [asked EXCEPT ![m] = 0]

(* Patroni starts servers unless it is paused.  Recovery begins at the     *)
(* restart point: what was replayed after it is replayed again.            *)
Start(m) ==
    /\ ~paused
    /\ m \notin up
    /\ up' = up \cup {m}
    /\ \E p \in restart[m] .. wal[m] : wal' = [wal EXCEPT ![m] = p]
    /\ UNCHANGED <<primary, received, checkpoints, restart, row, former, paused, job, writes, faults>>

(* Patroni promotes a server that no other one is ahead of.  It replays    *)
(* what it has and checkpoints as it becomes the primary; whatever another *)
(* server has beyond that will be rewound.                                 *)
Promote(m) ==
    /\ ~paused
    /\ primary = NoMember
    /\ m \in up
    /\ \A n \in up : received[n] <= received[m]
    /\ LET fork == received[m]
           Upto(p) == Min({p, fork})
       IN
        /\ primary' = m
        /\ checkpoints' = {c \in checkpoints : c <= fork} \cup {fork + 1}
        /\ wal' = [n \in Members |-> IF n = m THEN fork + 1 ELSE Upto(wal[n])]
        /\ received' = [n \in Members |-> IF n = m THEN fork + 1 ELSE Upto(received[n])]
        /\ restart' = [n \in Members |->
                          IF n = m THEN fork + 1 ELSE LastCheckpoint(Upto(restart[n]))]
    /\ UNCHANGED <<up, row, former, paused, job, writes, faults>>

-----------------------------------------------------------------------------
(* The job.                                                                *)

JobUnchanged == UNCHANGED <<conn, lsn, asked, synced>>

(* A query on the connection to the primary: without it the job fails.     *)
Query(query, next) ==
    /\ pc = query
    /\ conn # NoMember
    /\ pc' = next
    /\ UNCHANGED <<conn, writes, faults>>

ConnectionLost ==
    /\ pc \in {"checkpoint", "position", "replicas", "compare"}
    /\ conn = NoMember
    /\ pc' = "failed"
    /\ JobUnchanged
    /\ UNCHANGED <<servers, writes, faults>>

(* It waits for a server that is not in recovery.                          *)
ConnectPrimary ==
    /\ pc = "connect"
    /\ primary # NoMember
    /\ pc' = "checkpoint"
    /\ conn' = primary
    /\ UNCHANGED <<servers, lsn, asked, synced, writes, faults>>

CheckpointPrimary ==
    /\ Query("checkpoint", "position")
    /\ WriteCheckpoint(conn)
    /\ UNCHANGED <<primary, up, row, former, paused, lsn, asked, synced>>

ReadPrimaryWalLsn ==
    /\ Query("position", "replicas")
    /\ lsn' = wal[conn]
    /\ UNCHANGED <<servers, asked, synced>>

(* The rows at or beyond the position: their number must be one less than  *)
(* cluster-size, or the query is repeated.  Only addresses that still lead *)
(* to a member are worth keeping: asking the others fails.                 *)
Rows ==
    Cardinality({m \in Members : row[m] >= lsn})
        + Cardinality({m \in Members : former[m].at >= lsn})

Addresses ==
    [m \in Members |->
        (IF row[m] >= lsn THEN 1 ELSE 0)
            + (IF former[m].at >= lsn /\ former[m].reachable THEN 1 ELSE 0)]

(* (variant) The count of the last round is not reset.                     *)
ReadReplicasAgain ==
    /\ Rows = Cardinality(Members) - 1
    /\ Query("replicas", "ask")
    /\ asked' = Addresses
    /\ UNCHANGED <<servers, lsn, synced>>
ReadReplicas ==
    /\ Rows = Cardinality(Members) - 1
    /\ Query("replicas", "ask")
    /\ asked' = Addresses
    /\ synced' = 0
    /\ UNCHANGED <<servers, lsn>>

(* (variant) A replica that lags gets its CHECKPOINT, too.                 *)
CaughtUpToAny(m) == m \in up
CaughtUp(m) == m \in up /\ wal[m] >= lsn

(* One goroutine per address, in any order.  CHECKPOINT on a replica is a  *)
(* restart point at the last checkpoint it has replayed.                   *)
WaitReplica(m) ==
    /\ pc = "ask"
    /\ asked[m] > 0
    /\ asked' = [asked EXCEPT ![m] = @ - 1]
    /\ IF CaughtUp(m)
       THEN /\ synced' = synced + 1
            /\ restart' = [restart EXCEPT ![m] = LastCheckpoint(wal[m])]
       ELSE UNCHANGED <<synced, restart>>
    /\ UNCHANGED <<primary, up, wal, received, checkpoints, row, former, paused, pc, conn,
                   lsn, writes, faults>>

AllSynced == synced = Cardinality(Members) - 1

(* (variant) Without all answers the rows are not read again.              *)
WaitReplicasOnce ==
    /\ pc = "ask"
    /\ asked = Nobody
    /\ AllSynced
    /\ pc' = "compare"
    /\ JobUnchanged
    /\ UNCHANGED <<servers, writes, faults>>
WaitReplicas ==
    /\ pc = "ask"
    /\ asked = Nobody
    /\ pc' = IF AllSynced THEN "compare" ELSE "replicas"
    /\ JobUnchanged
    /\ UNCHANGED <<servers, writes, faults>>

(* (variant) Any difference ends the loop.                                 *)
CompareNothing == Query("compare", "pause") /\ UNCHANGED <<servers, lsn, asked, synced>>
Compare ==
    /\ Query("compare", IF wal[conn] = lsn THEN "pause" ELSE "checkpoint")
    /\ UNCHANGED <<servers, lsn, asked, synced>>

(* The request goes through the service to whoever leads now, or fails.    *)
Pause ==
    /\ pc = "pause"
    /\ IF primary # NoMember
       THEN pc' = "succeeded" /\ paused' = TRUE
       ELSE pc' = "failed" /\ UNCHANGED paused
    /\ JobUnchanged
    /\ UNCHANGED <<primary, up, wal, received, checkpoints, restart, row, former, writes, faults>>

(* Patroni takes the request; its answer comes later than two seconds.     *)
PauseAnswerLost ==
    /\ pc = "pause"
    /\ primary # NoMember
    /\ Fault
    /\ paused' = TRUE
    /\ pc' = "failed"
    /\ JobUnchanged
    /\ UNCHANGED <<primary, up, wal, received, checkpoints, restart, row, former, writes>>

(* The job's deadline of 300 seconds, or a lost pod of its own.            *)
Killed ==
    /\ pc \in Queries
    /\ Fault
    /\ pc' = "failed"
    /\ JobUnchanged
    /\ UNCHANGED <<servers, writes>>

(* The operator deletes a failed job and creates another one.              *)
Retry ==
    /\ pc = "failed"
    /\ pc' = "connect"
    /\ conn' = NoMember
    /\ lsn' = 1 /\ asked' = Nobody /\ synced' = 0
    /\ UNCHANGED <<servers, writes, faults>>

(* The end of the stage is not recorded: the operator creates the job it   *)
(* has deleted once more.                                                  *)
Repeat ==
    /\ pc = "succeeded"
    /\ Fault
    /\ pc' = "connect"
    /\ conn' = NoMember
    /\ lsn' = 1 /\ asked' = Nobody /\ synced' = 0
    /\ UNCHANGED <<servers, writes>>

-----------------------------------------------------------------------------
Server(m) == Connect(m) \/ Replay(m) \/ Report(m) \/ Expire(m) \/ Start(m) \/ Promote(m)

Sync ==
    \/ ConnectPrimary \/ CheckpointPrimary \/ ReadPrimaryWalLsn \/ ReadReplicas
    \/ \E m \in Members : WaitReplica(m)
    \/ WaitReplicas \/ Compare \/ Pause \/ ConnectionLost

Next ==
    \/ Write
    \/ \E m \in Members :
        Server(m) \/ Disconnect(m) \/ ServerCrash(m) \/ PodLoss(m)
    \/ Sync \/ Retry
    \/ Killed \/ PauseAnswerLost \/ Repeat

Spec == Init /\ [][Next]_vars

(* Servers replicate, Patroni acts, the job runs, the operator retries it. *)
Fairness ==
    /\ \A m \in Members :
        /\ WF_vars(Connect(m)) /\ WF_vars(Replay(m)) /\ WF_vars(Report(m))
        /\ WF_vars(Expire(m)) /\ WF_vars(Start(m))
        /\ WF_vars(\E n \in Members : Promote(n))
    /\ WF_vars(Sync)
    /\ WF_vars(Retry)

FairSpec == Spec /\ Fairness

-----------------------------------------------------------------------------
(* Properties.                                                             *)

(* When the job goes on to pause Patroni, every server can be recovered    *)
(* from the checkpoint the job's last cycle made on the primary, or from a *)
(* later one, whatever reconnected, restarted or was promoted while the    *)
(* replicas were counted and asked (syncRestorePoints).                    *)
RestorePointsSynced ==
    pc \in {"pause", "succeeded"} =>
        \A m \in Members : restart[m] >= LastCheckpoint(lsn)

(* When the loop ends, all control files name one checkpoint, the last one *)
(* in the primary's WAL: whatever else was written while the replicas were *)
(* asked has started another cycle ("wal_lsn on primary did not increase,  *)
(* ready to upgrade").                                                     *)
LatestCheckpointShared ==
    [][pc = "compare" /\ pc' = "pause" =>
           \A m \in Members : restart[m] = LastCheckpoint(wal[primary])]_vars

(* The stage comes to an end: servers that stop are started again, rows    *)
(* that linger expire, a job that fails is created again, and it succeeds  *)
(* also when Patroni is paused already, unless a server stops then:        *)
(* nothing takes the pause back for it (setPause).                         *)
SyncEnds ==
    [](paused /\ pc # "succeeded" => up = Members) => <>[](pc = "succeeded")
=============================================================================
