----------------------------- MODULE MCEventually -----------------------------
(***************************************************************************)
(* What the workers promise to bring to an end: the reservation of a       *)
(* charge, the job of an invoice, webhook and receipt deliveries, and the  *)
(* sweeps that repair what the others left behind.  The components share   *)
(* nothing that is modelled here; each behaviour is about one of them.     *)
(***************************************************************************)
EXTENDS ChargeSession, PaymentJobs, WebhookDelivery, ReceiptNotification, WorkerLease

CONSTANTS p1, r1, r2, id1, id2

VARIABLE scene

MCPassOf == [k \in Key |-> p1]
MCAmount == [k \in Key |-> 1]
MCInvoiceOf == [k \in Key |-> k]

\* The replicas have ids of their own, or the default id.
MCNamings == {[r \in Replica |-> id1], [r \in Replica |-> IF r = r1 THEN id1 ELSE id2]}

eventuallyVars == <<sessionVars, jobsVars, hookVars, noticeVars, leaseVars, scene>>

EventuallyInit ==
    /\ scene \in {"charge", "job", "webhook", "notice", "lease"}
    /\ SessionInit /\ JobsInit /\ WebhookInit /\ NotificationInit /\ WorkerLeaseInit
    /\ scene = "lease" \/ workerId[r1] = workerId[r2]

\* The owner queues an invoice again once its job has ended and nobody is at work
\* on it.
QueuedOnceEnded ==
    queues' # queues =>
        /\ \A i \in JobInvoice : /\ job[i].status \in Finished \cup {"none"}
                                /\ sweep[i].at = "idle"
        /\ \A w \in Worker : worker[w].at = "idle"

EventuallyNext ==
    /\ UNCHANGED scene
    /\ \/ /\ scene = "charge" /\ SessionNext
          /\ UNCHANGED <<jobsVars, hookVars, noticeVars, leaseVars>>
       \/ /\ scene = "job" /\ JobsNext /\ QueuedOnceEnded
          /\ UNCHANGED <<sessionVars, hookVars, noticeVars, leaseVars>>
       \/ /\ scene = "webhook" /\ WebhookNext
          /\ UNCHANGED <<sessionVars, jobsVars, noticeVars, leaseVars>>
       \/ /\ scene = "notice" /\ NotificationNext
          /\ UNCHANGED <<sessionVars, jobsVars, hookVars, leaseVars>>
       \/ /\ scene = "lease" /\ WorkerLeaseNext
          /\ UNCHANGED <<sessionVars, jobsVars, hookVars, noticeVars>>

EventuallySpec == EventuallyInit /\ [][EventuallyNext]_eventuallyVars

\* Postmen poll and requests time out; a lock becomes old and the sweep goes on.
WebhookFairness ==
    /\ \A w \in Postman :
          WF_hookVars(/\ scene = "webhook"
                      /\ \/ ClaimNextWebhookDelivery(w) \/ PostWebhook(w)
                         \/ SecretUnavailable(w) \/ DeliverWebhookSaves(w))
    /\ WF_hookVars(scene = "webhook" /\ (RecoverStaleWebhookDeliveries \/ WebhookLockLapses))

NoticeFairness ==
    /\ \A w \in Messenger : WF_noticeVars(scene = "notice" /\ MessengerNext(w))
    /\ \A e \in Endpoint : WF_noticeVars(scene = "notice" /\ NoticeLeaseLapses(e))

\* The platform starts replicas, though not necessarily each of them.  A replica
\* that finds the lease free again and again is not stopped every time before it
\* takes it.
LeaseFairness ==
    /\ WF_leaseVars(scene = "lease" /\ LeaseLapses)
    /\ WF_leaseVars(scene = "lease" /\ \E r \in Replica : StartReplica(r))
    /\ \A r \in Replica : /\ WF_leaseVars(scene = "lease" /\ ReplicaWorks(r))
                          /\ SF_leaseVars(scene = "lease" /\ AcquireWorkerLease(r))

\* No process of the charges and the jobs is under way where a behaviour is not
\* about them, so their fairness asks for nothing there.
FairEventuallySpec ==
    /\ EventuallySpec
    /\ Fairness /\ JobsFairness
    /\ WebhookFairness /\ NoticeFairness /\ LeaseFairness

\* Every delivery, notice and lease document holds values of its schema and every
\* process is at a step of its handler.
WorkersTypeOK == WebhookTypeOK /\ NotificationTypeOK /\ WorkerLeaseTypeOK

\* SweepsGoOn where the lease is what the behaviour is about.
LeasedSweepsGoOn == scene = "lease" => SweepsGoOn

\* Every webhook and every receipt delivery comes to an end.
DeliveriesEnd == WebhookSettles /\ NoticesEnd
=============================================================================
