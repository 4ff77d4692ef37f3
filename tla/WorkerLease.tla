----------------------------- MODULE WorkerLease -----------------------------
(***************************************************************************)
(* The supervised reconciliation workers: each replica takes the Mongo     *)
(* lease, runs a batch, writes its heartbeat and releases the lease        *)
(* (workers/reconciliationWorker.ts, workerRuntime.service.ts).  A replica *)
(* is known by RECONCILIATION_WORKER_ID; replicas for which the variable   *)
(* is not set share the default id.  The lease is not renewed during a     *)
(* batch.                                                                  *)
(***************************************************************************)
EXTENDS Integers, FiniteSets

CONSTANTS Replica, WorkerId,
          Namings       \* ways the replicas may be named: functions to WorkerId

ASSUME LeaseAssumption == Namings \subseteq [Replica -> WorkerId]

VARIABLES workerId,     \* the id each replica was started with
          lease,        \* the WorkerLease document
          heartbeat,    \* the WorkerHeartbeat documents, by worker id
          replica       \* the replicas: pc, and whether the lease it took still runs
leaseVars == <<workerId, lease, heartbeat, replica>>

NoWorker == "nobody"
StoppedReplica == [pc |-> "stopped", within |-> FALSE]

WorkerLeaseInit ==
    /\ workerId \in Namings
    /\ lease = [owner |-> NoWorker, lapsed |-> TRUE]
    /\ heartbeat = [i \in WorkerId |-> "none"]
    /\ replica = [r \in Replica |-> StoppedReplica]

ReplicaGoes(r, pc) == replica' = [replica EXCEPT ![r].pc = pc]
RecordWorkerHeartbeat(r, status) == heartbeat' = [heartbeat EXCEPT ![workerId[r]] = status]

StartReplica(r) ==
    /\ replica[r].pc = "stopped"
    /\ RecordWorkerHeartbeat(r, "running")
    /\ ReplicaGoes(r, "idle")
    /\ UNCHANGED <<workerId, lease>>

\* Mutant: an expired lease is not taken over.
LeaseNeverExpires(r) == lease.owner \in {NoWorker, workerId[r]}

LeaseFree(r) == lease.owner = workerId[r] \/ lease.lapsed

AcquireWorkerLease(r) ==
    /\ replica[r].pc = "idle" /\ LeaseFree(r)
    /\ lease' = [owner |-> workerId[r], lapsed |-> FALSE]
    /\ replica' = [replica EXCEPT ![r] = [pc |-> "sweep", within |-> TRUE]]
    /\ UNCHANGED <<workerId, heartbeat>>

LeaseRefused(r) ==
    /\ replica[r].pc = "idle" /\ ~LeaseFree(r)
    /\ RecordWorkerHeartbeat(r, "running")
    /\ UNCHANGED <<workerId, lease, replica>>

\* The batch ends, well or with an error, and its heartbeat is written.
EndBatch(r) ==
    /\ replica[r].pc = "sweep"
    /\ \E status \in {"running", "degraded"} : RecordWorkerHeartbeat(r, status)
    /\ ReplicaGoes(r, "release")
    /\ UNCHANGED <<workerId, lease>>

\* Mutant: the lease is released whoever holds it.
ReleasesAny(r) == lease.owner # NoWorker

Releases(r) == lease.owner = workerId[r]

ReleaseWorkerLease(r) ==
    /\ replica[r].pc = "release"
    /\ lease' = [lease EXCEPT !.lapsed = @ \/ Releases(r)]
    /\ replica' = [q \in Replica |->
          CASE q = r -> [pc |-> "idle", within |-> FALSE]
            [] q # r /\ workerId[q] = workerId[r] -> [replica[q] EXCEPT !.within = FALSE]
            [] OTHER -> replica[q]]
    /\ UNCHANGED <<workerId, heartbeat>>

StopReplica(r) ==
    /\ replica[r].pc = "idle"
    /\ RecordWorkerHeartbeat(r, "stopping")
    /\ ReplicaGoes(r, "stopped")
    /\ UNCHANGED <<workerId, lease>>

\* The process ends without releasing; the platform starts it again.
CrashReplica(r) ==
    /\ replica[r].pc # "stopped"
    /\ replica' = [replica EXCEPT ![r] = StoppedReplica]
    /\ UNCHANGED <<workerId, lease, heartbeat>>

LeaseLapses ==
    /\ ~lease.lapsed
    /\ lease' = [lease EXCEPT !.lapsed = TRUE]
    /\ replica' = [r \in Replica |-> [replica[r] EXCEPT !.within = FALSE]]
    /\ UNCHANGED <<workerId, heartbeat>>

ReplicaWorks(r) ==
    AcquireWorkerLease(r) \/ LeaseRefused(r) \/ EndBatch(r) \/ ReleaseWorkerLease(r)

WorkerLeaseNext ==
    \/ LeaseLapses
    \/ \E r \in Replica : StartReplica(r) \/ ReplicaWorks(r) \/ StopReplica(r) \/ CrashReplica(r)

WorkerLeaseSpec == WorkerLeaseInit /\ [][WorkerLeaseNext]_leaseVars
----------------------------------------------------------------------------
\* The values each variable may have.
WorkerLeaseTypeOK ==
    /\ lease.owner \in WorkerId \cup {NoWorker}
    /\ \A r \in Replica : replica[r].pc \in {"stopped", "idle", "sweep", "release"}

Sweeping(r) == replica[r].pc = "sweep"

\* Replicas with ids of their own run a batch at the same time only when the
\* lease of one of them ran out during it; releasing a lease that was lost does
\* not free the one that replaced it (acquireWorkerLease, releaseWorkerLease).
HolderSweepsAlone ==
    (\A q, r \in Replica : q # r => workerId[q] # workerId[r]) =>
        \A q, r \in Replica : replica[q].within /\ replica[r].within => q = r

\* A lease that a replica left behind when it ended never ends the sweeps: as long
\* as the platform starts replicas, not necessarily that one, batches go on.
SweepsGoOn == []<>(\E r \in Replica : Sweeping(r))
=============================================================================
