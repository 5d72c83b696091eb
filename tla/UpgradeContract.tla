---------------------------- MODULE UpgradeContract ----------------------------
(***************************************************************************)
(* What the operator promises the users of a cluster about its version:    *)
(* their database is converted at most one step at a time, to a version    *)
(* they were offered, while nobody can reach it; they find it again only   *)
(* when the cluster runs the version the database has; and what they asked *)
(* for is done before the next request is taken.                           *)
(***************************************************************************)
EXTENDS Integers, ImageRegistry

VARIABLES
    version,   \* the version the cluster is declared to have
    target,    \* the version it is being upgraded to
    db,        \* the version of its database
    shut,      \* has the upgrade closed the cluster to its clients?
    reachable  \* can clients connect?

contractVars == <<version, target, db, shut, reachable>>

ContractInit ==
    /\ version = None
    /\ target = None
    /\ db = None
    /\ shut = FALSE
    /\ reachable = FALSE

(* The cluster is declared, and its database is created.                   *)
Declare(v) ==
    /\ version = None
    /\ version' = v
    /\ UNCHANGED <<target, db, shut, reachable>>

CreateDatabase ==
    /\ version # None
    /\ target = None
    /\ db = None
    /\ db' = version
    /\ UNCHANGED <<version, target, shut, reachable>>

(* Clients come and go with the servers, except while the cluster is shut. *)
BecomeReachable ==
    /\ ~shut
    /\ db = version
    /\ db # None
    /\ reachable' = TRUE
    /\ UNCHANGED <<version, target, db, shut>>

BecomeUnreachable ==
    /\ reachable' = FALSE
    /\ UNCHANGED <<version, target, db, shut>>

Request(t) ==
    /\ target = None
    /\ db = version
    /\ t \in UpgradeVersions(version)
    /\ target' = t
    /\ UNCHANGED <<version, db, shut, reachable>>

Shut ==
    /\ target # None
    /\ db = version
    /\ version # target
    /\ ~reachable
    /\ shut' = TRUE
    /\ UNCHANGED <<version, target, db, reachable>>

Convert ==
    /\ shut
    /\ db = version
    /\ db' = target
    /\ UNCHANGED <<version, target, shut, reachable>>

(* The converted database becomes the cluster's, and may be opened.        *)
Commit ==
    /\ shut
    /\ db = target
    /\ version' = target
    /\ shut' = FALSE
    /\ UNCHANGED <<target, db, reachable>>

Finish ==
    /\ target # None
    /\ version = target
    /\ target' = None
    /\ UNCHANGED <<version, db, shut, reachable>>

ContractNext ==
    \/ \E v \in Versions : Declare(v) \/ Request(v)
    \/ CreateDatabase \/ BecomeReachable \/ BecomeUnreachable
    \/ Shut \/ Convert \/ Commit \/ Finish

ContractSpec == ContractInit /\ [][ContractNext]_contractVars
=============================================================================
