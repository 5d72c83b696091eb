-------------------------- MODULE MCUpgradeOperator --------------------------
(***************************************************************************)
(* UpgradeOperator on small clusters, every fault allowed at any time, and *)
(* the contract it implements.                                             *)
(***************************************************************************)
EXTENDS UpgradeOperator

(* The leader's volume holds the database the cluster will go on with: the *)
(* upgraded one as soon as there is one.                                   *)
DatabaseVersion ==
    IF SyncLeader = NoNode THEN None
    ELSE IF vol[SyncLeader].new # None THEN vol[SyncLeader].new
    ELSE vol[SyncLeader].data

(* The stages in which nobody is to be served.                             *)
ShutStages ==
    {"upgrade-preupgrade-sync", "upgrade-scaledown", "upgrade-primary",
     "upgrade-secondaries", "upgrade-primary-move"}

(* Some server listens on the clients' port.                               *)
SomeServerForClients ==
    \E n \in Nodes :
        pod[n].phase \in {"ready", "available", "unready"} /\ pod[n].port = ClientPort

Contract == INSTANCE UpgradeContract WITH
    version   <- status.version,
    target    <- status.target,
    db        <- DatabaseVersion,
    shut      <- status.state \in ShutStages,
    reachable <- SomeServerForClients

(* The operator and its cluster do nothing the contract does not allow,    *)
(* whatever fails: the conversion of the database, the version in the      *)
(* status and the clients' access keep their order (the ladder of          *)
(* upgrade.go, with the persistence rules of Reconcile).                   *)
ImplementsContract == Contract!ContractSpec
=============================================================================
