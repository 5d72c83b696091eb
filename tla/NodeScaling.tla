----------------------------- MODULE NodeScaling -----------------------------
(***************************************************************************)
(* A change of the number of nodes: the user edits spec.nodes, the         *)
(* operator's ordinary chain creates and deletes the claims and scales the *)
(* StatefulSet, its controller creates and stops pods, deleted claims stay *)
(* as long as their pods, and the database replicates to whoever is there. *)
(*                                                                         *)
(* UpgradeOperator has a constant number of nodes and every stage of an    *)
(* upgrade; here an upgrade is reduced to the stages whose outcome depends *)
(* on that number.  A node is its index: the pod and the claim of an index *)
(* have the same names in every life.                                      *)
(*                                                                         *)
(* A definition marked (variant) is a faulty form of the one it precedes,  *)
(* used by no specification: README.md, "Sensitivity".                     *)
(***************************************************************************)
EXTENDS Integers, FiniteSets, FiniteSetsExt

CONSTANTS
    MaxNodes,     \* how many nodes the user may wish for
    MaxEdits,     \* how many edits of spec
    MaxWrites,    \* how many transactions
    MaxFaults,    \* how many lost pods and aborted passes
    Careful,      \* does the user remove one node at a time, once all is settled?
    Hasty,        \* does the user edit before the last edit has been acted on?
    Upgrades,     \* does the user ask for an upgrade?
    DuringUpgrade \* does the user change nodes while it is under way?

ASSUME BoundsAssumption ==
    /\ MaxNodes \in Nat \ {0}
    /\ MaxEdits \in Nat /\ MaxWrites \in Nat /\ MaxFaults \in Nat
ASSUME UserAssumption ==
    /\ Careful \in BOOLEAN /\ Hasty \in BOOLEAN
    /\ Upgrades \in BOOLEAN /\ DuringUpgrade \in BOOLEAN

VARIABLES
    nodes,         \* the length of spec.nodes
    wanted,        \* is spec.version newer than the cluster?
    stage,         \* of an upgrade, "none" without one
    state,         \* status.state outside of upgrades
    volumes,       \* the length of status.volumeStatuses
    synced,        \* has the preupgrade-sync job succeeded?
    queued,        \* is the cluster in the work queue?
    pass,          \* what the pass under way has read, and where it is
    claim, pod,    \* of each index
    replicas,      \* the StatefulSet's spec.replicas
    readyReplicas, \* and its status.readyReplicas
    vol,           \* the transactions on each volume, 0 for no database
    committed,     \* the transactions reported committed to clients
    leader,        \* who leads, or led last, by Patroni's sync key
    standby,       \* the synchronous standby by that key, or NoIndex
    edits, writes, faults

user     == <<nodes, wanted>>
status   == <<stage, state, volumes>>
database == <<vol, committed, leader, standby>>
bounds   == <<edits, writes, faults>>
vars == <<user, status, synced, queued, pass, claim, pod, replicas, readyReplicas,
          database, bounds>>

Index   == 0 .. MaxNodes - 1
NoIndex == MaxNodes
Upto(n) == 0 .. n - 1

Idle == [at |-> "idle", nodes |-> 0, fresh |-> TRUE, left |-> {}, i |-> 0, ready |-> FALSE]

TypeOK ==
    /\ nodes \in 1 .. MaxNodes
    /\ wanted \in BOOLEAN
    /\ stage \in {"none", "sync", "down", "post"}
    /\ state \in {"scaling", "ready"}
    /\ volumes \in 1 .. MaxNodes
    /\ synced \in BOOLEAN
    /\ queued \in BOOLEAN
    /\ pass \in [at : {"idle", "claims", "sts", "status", "upgrade"},
                 nodes : 0 .. MaxNodes, fresh : BOOLEAN, left : SUBSET Index,
                 i : 0 .. MaxNodes, ready : BOOLEAN]
    /\ claim \in [Index -> {"none", "bound", "terminating"}]
    /\ pod \in [Index -> {"none", "running", "stopping"}]
    /\ replicas \in 0 .. MaxNodes
    /\ readyReplicas \in 0 .. MaxNodes
    /\ vol \in [Index -> 0 .. MaxWrites + 1]
    /\ committed \in 1 .. MaxWrites + 1
    /\ leader \in Index
    /\ standby \in Index \cup {NoIndex}
    /\ edits \in 0 .. MaxEdits
    /\ writes \in 0 .. MaxWrites
    /\ faults \in 0 .. MaxFaults

(* A cluster at rest, of any size.                                         *)
Init ==
    /\ nodes \in 1 .. MaxNodes
    /\ wanted = FALSE
    /\ stage = "none" /\ state = "ready" /\ volumes = nodes
    /\ synced = FALSE
    /\ queued = FALSE
    /\ pass = Idle
    /\ claim = [i \in Index |-> IF i < nodes THEN "bound" ELSE "none"]
    /\ pod = [i \in Index |-> IF i < nodes THEN "running" ELSE "none"]
    /\ replicas = nodes
    /\ readyReplicas = nodes
    /\ vol = [i \in Index |-> IF i < nodes THEN 1 ELSE 0]
    /\ committed = 1
    /\ leader \in Upto(nodes)
    /\ standby \in IF nodes = 1 THEN {NoIndex} ELSE Upto(nodes) \ {leader}
    /\ edits = 0 /\ writes = 0 /\ faults = 0

Fault == faults < MaxFaults /\ faults' = faults + 1

-----------------------------------------------------------------------------
(* The database: synchronous replication to one standby, as Patroni is     *)
(* told to bootstrap it.                                                   *)

Runs(i)    == pod[i] = "running" /\ vol[i] > 0
LeaderRuns == Runs(leader)

DatabaseStep == UNCHANGED <<user, status, synced, queued, pass, claim, pod, replicas,
                            readyReplicas, edits, faults>>

Write ==
    /\ LeaderRuns
    /\ writes < MaxWrites
    /\ writes' = writes + 1
    /\ vol' = [vol EXCEPT ![leader] = Min({@ + 1, MaxWrites + 1})]
    /\ UNCHANGED <<committed, leader, standby>>
    /\ DatabaseStep

(* A replica follows; an empty one becomes a copy of the leader.           *)
Replicate(i) ==
    /\ LeaderRuns
    /\ pod[i] = "running"
    /\ vol[i] < vol[leader]
    /\ vol' = [vol EXCEPT ![i] = vol[leader]]
    /\ UNCHANGED <<committed, leader, standby, writes>>
    /\ DatabaseStep

(* A transaction is reported once the standby, if there is one, has it.    *)
Commit ==
    /\ LeaderRuns
    /\ LET safe == IF standby = NoIndex THEN vol[leader]
                   ELSE Min({vol[leader], vol[standby]})
       IN committed < safe /\ committed' = safe
    /\ UNCHANGED <<vol, leader, standby, writes>>
    /\ DatabaseStep

PickStandby(i) ==
    /\ LeaderRuns
    /\ standby = NoIndex
    /\ i # leader
    /\ Runs(i)
    /\ vol[i] = vol[leader]
    /\ standby' = i
    /\ UNCHANGED <<vol, committed, leader, writes>>
    /\ DatabaseStep

(* Without its standby the leader goes on alone.                           *)
DropStandby ==
    /\ LeaderRuns
    /\ standby # NoIndex
    /\ pod[standby] # "running"
    /\ standby' = NoIndex
    /\ UNCHANGED <<vol, committed, leader, writes>>
    /\ DatabaseStep

(* Nobody but the standby may take the leader's place; what the others     *)
(* have beyond it is rewound.                                              *)
Elect(i) ==
    /\ ~LeaderRuns
    /\ i = standby
    /\ Runs(i)
    /\ leader' = i
    /\ standby' = NoIndex
    /\ vol' = [j \in Index |-> Min({vol[j], vol[i]})]
    /\ UNCHANGED <<committed, writes>>
    /\ DatabaseStep

Database ==
    Commit \/ DropStandby \/ \E i \in Index : Replicate(i) \/ PickStandby(i) \/ Elect(i)

-----------------------------------------------------------------------------
(* The StatefulSet, its pods and the claims they protect.                  *)

PodStep == UNCHANGED <<user, status, synced, pass, replicas, committed, leader, standby,
                       edits, writes>>

(* A pod needs its claim: the StatefulSet controller may not create one    *)
(* (its template carries the annotation the admission policy refuses), and *)
(* does not use one that is being deleted.                                 *)
CreatePod(i) ==
    /\ i < replicas
    /\ pod[i] = "none"
    /\ claim[i] = "bound"
    /\ pod' = [pod EXCEPT ![i] = "running"]
    /\ UNCHANGED <<queued, claim, readyReplicas, vol, faults>>
    /\ PodStep

StopPod(i) ==
    /\ i >= replicas
    /\ pod[i] = "running"
    /\ pod' = [pod EXCEPT ![i] = "stopping"]
    /\ UNCHANGED <<queued, claim, readyReplicas, vol, faults>>
    /\ PodStep

(* (variant) The operator does not watch the claims.                       *)
PodGoneUnnoticed(i) ==
    /\ pod[i] = "stopping"
    /\ pod' = [pod EXCEPT ![i] = "none"]
    /\ IF claim[i] = "terminating"
       THEN /\ claim' = [claim EXCEPT ![i] = "none"]
            /\ vol' = [vol EXCEPT ![i] = 0]
       ELSE UNCHANGED <<claim, vol>>
    /\ UNCHANGED <<queued, readyReplicas, faults>>
    /\ PodStep
(* A claim that was waiting for its pod goes with it, and so does the data.*)
PodGone(i) ==
    /\ pod[i] = "stopping"
    /\ pod' = [pod EXCEPT ![i] = "none"]
    /\ IF claim[i] = "terminating"
       THEN /\ claim' = [claim EXCEPT ![i] = "none"]
            /\ vol' = [vol EXCEPT ![i] = 0]
            /\ queued' = TRUE
       ELSE UNCHANGED <<claim, vol, queued>>
    /\ UNCHANGED <<readyReplicas, faults>>
    /\ PodStep

(* An eviction.  Losing a pod while the cluster loses another for good is  *)
(* more than one synchronous standby makes up for.                         *)
PodLoss(i) ==
    /\ Fault
    /\ Careful => replicas <= nodes /\ \A j \in Index : claim[j] # "terminating"
    /\ pod[i] = "running"
    /\ pod' = [pod EXCEPT ![i] = "stopping"]
    /\ UNCHANGED <<queued, claim, readyReplicas, vol>>
    /\ PodStep

ReadyPods == Cardinality({i \in Index : Runs(i)})

(* (variant) The StatefulSet is not watched.                               *)
CountReadyUnnoticed ==
    /\ readyReplicas # ReadyPods
    /\ readyReplicas' = ReadyPods
    /\ UNCHANGED <<queued, claim, pod, vol, faults>>
    /\ PodStep
(* The status counts the pods that are ready, and is watched.              *)
CountReady ==
    /\ readyReplicas # ReadyPods
    /\ readyReplicas' = ReadyPods
    /\ queued' = TRUE
    /\ UNCHANGED <<claim, pod, vol, faults>>
    /\ PodStep

Pods ==
    CountReady \/ \E i \in Index : CreatePod(i) \/ StopPod(i) \/ PodGone(i)

-----------------------------------------------------------------------------
(* The user.                                                               *)

Settled ==
    /\ stage = "none" /\ state = "ready" /\ volumes = nodes
    /\ ~queued /\ pass = Idle
    /\ readyReplicas = nodes
    /\ \A i \in Index :
        /\ Runs(i) <=> i < nodes
        /\ claim[i] = (IF i < nodes THEN "bound" ELSE "none")

(* The operator has scaled to the spec, and nobody runs who should not.    *)
ActedOn ==
    pass = Idle /\ replicas = nodes /\ \A i \in Index : pod[i] = "running" => i < nodes

(* Nodes may be added at any time; the last one is removed while another   *)
(* one has everything.                                                     *)
CarefulEdit(n) ==
    n < nodes =>
        /\ n = nodes - 1
        /\ Settled \/ stage # "none"
        /\ LeaderRuns /\ standby # NoIndex /\ Runs(standby)

(* The spec is edited: the object's version changes under the pass.        *)
Edited ==
    /\ edits < MaxEdits
    /\ edits' = edits + 1
    /\ queued' = TRUE
    /\ pass' = IF pass = Idle THEN Idle ELSE [pass EXCEPT !.fresh = FALSE]
    /\ UNCHANGED <<status, synced, claim, pod, replicas, readyReplicas, database,
                   writes, faults>>

EditNodes ==
    /\ Edited
    /\ \E n \in 1 .. MaxNodes \ {nodes} :
        /\ Careful => CarefulEdit(n)
        /\ Hasty \/ ActedOn \/ stage # "none"
        /\ nodes' = n
    /\ (wanted \/ stage # "none") => DuringUpgrade
    /\ UNCHANGED wanted

WantUpgrade ==
    /\ Upgrades
    /\ Edited
    /\ Careful => Settled
    /\ ~wanted
    /\ stage = "none"
    /\ wanted' = TRUE
    /\ UNCHANGED nodes

-----------------------------------------------------------------------------
(* The operator: a pass of the ordinary chain.                             *)

OperatorStep == UNCHANGED <<user, pod, readyReplicas, committed, leader, standby, bounds>>

(* A pass that ends in an error is repeated.                               *)
Again == pass' = Idle /\ queued' = TRUE

(* It reads the cluster and lists its claims.                              *)
ChainBegin ==
    /\ queued
    /\ pass = Idle
    /\ stage = "none"
    /\ ~(state = "ready" /\ wanted)
    /\ queued' = FALSE
    /\ pass' = [Idle EXCEPT !.at = "claims", !.nodes = nodes,
                            !.left = {i \in Index : claim[i] # "none"}]
    /\ UNCHANGED <<status, synced, claim, replicas, vol>>
    /\ OperatorStep

(* One claim after the other: those listed are patched, the others created.*)
EnsureClaim ==
    LET i == pass.i IN
    /\ pass.at = "claims"
    /\ i < pass.nodes
    /\ IF i \in pass.left
       THEN /\ IF claim[i] = "none" THEN Again
               ELSE /\ pass' = [pass EXCEPT !.i = i + 1, !.left = @ \ {i}]
                    /\ UNCHANGED queued
            /\ UNCHANGED <<claim, vol>>
       ELSE /\ pass' = [pass EXCEPT !.i = i + 1]
            /\ claim' = [claim EXCEPT ![i] = "bound"]
            /\ vol' = [vol EXCEPT ![i] = 0]
            /\ queued' = TRUE
    /\ UNCHANGED <<status, synced, replicas>>
    /\ OperatorStep

(* (variant) The nodes' own claims are not taken off the list.             *)
LeftoverByCount == {i \in Index : claim[i] # "none" /\ i + 1 >= pass.nodes}
Leftover == pass.left

(* Those that are left over are deleted, which takes the pods of none.     *)
DeleteClaim ==
    /\ pass.at = "claims"
    /\ pass.i >= pass.nodes
    /\ \E i \in Leftover :
        /\ pass' = [pass EXCEPT !.left = @ \ {i}]
        /\ IF claim[i] = "bound"
           THEN /\ queued' = TRUE
                /\ IF pod[i] = "none"
                   THEN /\ claim' = [claim EXCEPT ![i] = "none"]
                        /\ vol' = [vol EXCEPT ![i] = 0]
                   ELSE /\ claim' = [claim EXCEPT ![i] = "terminating"]
                        /\ UNCHANGED vol
           ELSE UNCHANGED <<queued, claim, vol>>
    /\ UNCHANGED <<status, synced, replicas>>
    /\ OperatorStep

ClaimsDone ==
    /\ pass.at = "claims"
    /\ pass.i >= pass.nodes
    /\ pass.left = {}
    /\ pass' = [pass EXCEPT !.at = "sts"]
    /\ UNCHANGED <<status, synced, queued, claim, replicas, vol>>
    /\ OperatorStep

ReconcileSts ==
    /\ pass.at = "sts"
    /\ replicas' = pass.nodes
    /\ pass' = [pass EXCEPT !.at = "status", !.ready = readyReplicas = pass.nodes]
    /\ UNCHANGED <<status, synced, queued, claim, vol>>
    /\ OperatorStep

(* (variant) The list in the status is appended to.                        *)
UpdateStatusAppending ==
    /\ pass.at = "status"
    /\ state' = IF pass.ready THEN "ready" ELSE "scaling"
    /\ volumes' = volumes + pass.nodes
    /\ pass' = Idle
    /\ UNCHANGED <<queued, stage, synced, claim, replicas, vol>>
    /\ OperatorStep
(* The deferred update of the status fails when the spec has been edited.  *)
UpdateStatus ==
    /\ pass.at = "status"
    /\ IF pass.fresh
       THEN /\ state' = IF pass.ready THEN "ready" ELSE "scaling"
            /\ volumes' = pass.nodes
            /\ pass' = Idle
            /\ UNCHANGED queued
       ELSE Again /\ UNCHANGED <<state, volumes>>
    /\ UNCHANGED <<stage, synced, claim, replicas, vol>>
    /\ OperatorStep

(* An API call fails, or the operator is restarted.                        *)
Abort ==
    /\ pass # Idle
    /\ Fault
    /\ Again
    /\ UNCHANGED <<user, status, synced, claim, pod, replicas, readyReplicas, database,
                   edits, writes>>

-----------------------------------------------------------------------------
(* The operator: an upgrade, in the stages that count nodes.               *)

StageBegin ==
    /\ queued
    /\ pass = Idle
    /\ stage # "none"
    /\ queued' = FALSE
    /\ pass' = [Idle EXCEPT !.at = "upgrade", !.nodes = nodes]
    /\ UNCHANGED <<status, synced, claim, replicas, vol>>
    /\ OperatorStep

UpgradeBegin ==
    /\ queued
    /\ pass = Idle
    /\ stage = "none" /\ state = "ready" /\ wanted
    /\ stage' = "sync"
    /\ queued' = TRUE
    /\ UNCHANGED <<state, volumes, synced, pass, claim, replicas, vol>>
    /\ OperatorStep

(* (variant) A finished stage does not requeue.                            *)
StagePassOnce(s, done, next) ==
    /\ pass.at = "upgrade"
    /\ stage = s
    /\ pass' = Idle
    /\ queued' = (queued \/ ~pass.fresh)
    /\ stage' = IF done /\ pass.fresh THEN next ELSE stage
    /\ UNCHANGED <<volumes, claim, vol>>
(* A pass of a stage, which ends in the next stage if that is done and the *)
(* status update does not conflict.                                        *)
StagePass(s, done, next) ==
    /\ pass.at = "upgrade"
    /\ stage = s
    /\ pass' = Idle
    /\ queued' = (queued \/ done \/ ~pass.fresh)
    /\ stage' = IF done /\ pass.fresh THEN next ELSE stage
    /\ UNCHANGED <<volumes, claim, vol>>

(* One node needs no synchronisation.                                      *)
SyncStage ==
    /\ StagePass("sync", volumes = 1 \/ synced, "down")
    /\ replicas' = IF volumes = 1 THEN replicas ELSE pass.nodes
    /\ synced' = FALSE
    /\ UNCHANGED state
    /\ OperatorStep

(* The job waits for as many members as status.volumeStatuses has.         *)
SyncJob ==
    /\ stage = "sync"
    /\ ~synced
    /\ LeaderRuns
    /\ Cardinality({i \in Upto(volumes) : i # leader /\ pod[i] = "running"
                                            /\ vol[i] = vol[leader]}) = volumes - 1
    /\ synced' = TRUE
    /\ queued' = TRUE
    /\ UNCHANGED <<status, pass, claim, replicas, vol>>
    /\ OperatorStep

DownStage ==
    /\ StagePass("down", readyReplicas = 0, "post")
    /\ replicas' = 0
    /\ UNCHANGED <<state, synced>>
    /\ OperatorStep

(* The cluster is started with all nodes of the spec and must get ready.   *)
PostStage ==
    LET done == readyReplicas = pass.nodes IN
    /\ StagePass("post", done, "none")
    /\ replicas' = pass.nodes
    /\ state' = IF done /\ pass.fresh THEN "ready" ELSE state
    /\ wanted' = IF done /\ pass.fresh THEN FALSE ELSE wanted
    /\ UNCHANGED <<nodes, synced, pod, readyReplicas, committed, leader, standby, bounds>>

Operator ==
    \/ ChainBegin \/ EnsureClaim \/ DeleteClaim \/ ClaimsDone \/ ReconcileSts \/ UpdateStatus
    \/ UpgradeBegin \/ StageBegin \/ SyncStage \/ DownStage \/ PostStage

-----------------------------------------------------------------------------
Next ==
    \/ EditNodes \/ WantUpgrade
    \/ Operator \/ SyncJob
    \/ Pods \/ Database \/ Write
    \/ Abort \/ \E i \in Index : PodLoss(i)

Spec == Init /\ [][Next]_vars

(* The operator's worker, the StatefulSet controller and the kubelets, the *)
(* job, and Patroni with its servers.                                      *)
Fairness ==
    /\ WF_vars(Operator)
    /\ WF_vars(SyncJob)
    /\ WF_vars(CountReady) /\ WF_vars(Commit) /\ WF_vars(DropStandby)
    /\ \A i \in Index :
        /\ WF_vars(CreatePod(i)) /\ WF_vars(StopPod(i)) /\ WF_vars(PodGone(i))
        /\ WF_vars(Replicate(i)) /\ WF_vars(PickStandby(i)) /\ WF_vars(Elect(i))

FairSpec == Spec /\ Fairness

-----------------------------------------------------------------------------
(* Properties.                                                             *)

(* Every transaction reported committed is on a volume whose claim is not  *)
(* being deleted (pvc.Reconcile deletes claims by their index alone, and   *)
(* knows nothing of leaders, standbys or who is still copying).            *)
CommittedDataKept == \E i \in Index : claim[i] = "bound" /\ vol[i] >= committed

(* The index of a node in spec.nodes ends up with a claim that is not      *)
(* being deleted, the others with none, whatever was removed and added     *)
(* before (pvc.Reconcile, called again for every event of a claim).        *)
ClaimsFollowNodes ==
    <>[]\A i \in Index : claim[i] = IF i < nodes THEN "bound" ELSE "none"

(* Every node of the spec ends up with a running server that has the       *)
(* leader's data, and the status says so.                                  *)
NodesServed ==
    <>[](/\ state = "ready" /\ volumes = nodes /\ stage = "none"
         /\ LeaderRuns
         /\ \A i \in Index : Runs(i) <=> i < nodes)

(* An upgrade that was begun ends (postupgradeHandler.handle waits for as  *)
(* many ready pods as spec.nodes has entries).                             *)
UpgradeEnds == (stage # "none") ~> (stage = "none")
=============================================================================
