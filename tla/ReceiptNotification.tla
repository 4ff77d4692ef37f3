------------------------- MODULE ReceiptNotification -------------------------
(***************************************************************************)
(* Notifications of one payment receipt: queueReceiptNotifications writes  *)
(* one delivery per active endpoint (receipt.service.ts), workers claim a  *)
(* delivery with a lease and send it, and an endpoint is removed by its    *)
(* owner, by an unsubscribe link or with all contact data                  *)
(* (notification.service.ts, recipientIdentity.service.ts).                *)
(*                                                                         *)
(* A lease id is the number of the claim that wrote it; 0 is no lease.     *)
(***************************************************************************)
EXTENDS Integers, FiniteSets

CONSTANTS Messenger,    \* notification workers
          Endpoint,
          MaxTries      \* 5 in claimNotificationDelivery and in the document

ASSUME NotificationAssumption == MaxTries \in Nat \ {0} /\ IsFiniteSet(Messenger)

VARIABLES receipt,      \* is the receipt written
          endpoint,     \* NotificationEndpoint documents: status
          removing,     \* writes an endpoint's removal still has to make
          queueing,     \* endpoints that a settlement read and will queue for
          notice,       \* NotificationDelivery documents, by endpoint
          messenger,    \* the workers
          told          \* messages an endpoint was sent, and those after its removal
noticeVars == <<receipt, endpoint, removing, queueing, notice, messenger, told>>

Ended == {"succeeded", "failed", "cancelled"}
OpenNotice == {"queued", "retrying", "delivering"}
NoNotice == [status |-> "none", attempts |-> 0, lease |-> 0, lapsed |-> TRUE]
IdleMessenger == [pc |-> "idle", e |-> "none", attempts |-> 0]

NotificationInit ==
    /\ receipt = FALSE
    /\ endpoint = [e \in Endpoint |-> "none"]
    /\ removing = [e \in Endpoint |-> {}]
    /\ queueing = {}
    /\ notice = [e \in Endpoint |-> NoNotice]
    /\ messenger = [w \in Messenger |-> IdleMessenger]
    /\ told = [e \in Endpoint |-> [sent |-> 0, after |-> 0]]

MessengerGoes(w, rec) == messenger' = [messenger EXCEPT ![w] = rec]
MyNotice(w) == messenger[w].e

\* An address that has an active endpoint already gets no second one.
CreateNotificationEndpoint(e) ==
    /\ endpoint[e] = "none"
    /\ endpoint' = [endpoint EXCEPT ![e] = "active"]
    /\ UNCHANGED <<receipt, removing, queueing, notice, messenger, told>>

----------------------------------------------------------------------------
(* createPaymentReceipt writes the receipt once, in the settlement's       *)
(* transaction; queueReceiptNotifications follows it and may be repeated.  *)
CreatePaymentReceipt ==
    /\ ~receipt
    /\ receipt' = TRUE
    /\ UNCHANGED <<endpoint, removing, queueing, notice, messenger, told>>

QueueReads ==
    /\ receipt /\ queueing = {}
    /\ queueing' = {e \in Endpoint : endpoint[e] = "active" /\ notice[e].status = "none"}
    /\ queueing' # {}
    /\ UNCHANGED <<receipt, endpoint, removing, notice, messenger, told>>

QueueReceiptNotifications(e) ==
    /\ e \in queueing
    /\ notice' = [notice EXCEPT ![e].status = IF @ = "none" THEN "queued" ELSE @]
    /\ queueing' = queueing \ {e}
    /\ UNCHANGED <<receipt, endpoint, removing, messenger, told>>

----------------------------------------------------------------------------
(* removeNotificationEndpoint and unsubscribeNotificationEndpoint mark the *)
(* endpoint and then cancel its deliveries; deleteContactData sends both   *)
(* writes at once.                                                         *)
RemoveNotificationEndpoint(e) ==
    /\ endpoint[e] = "active" /\ removing[e] = {}
    /\ endpoint' = [endpoint EXCEPT ![e] = "removed"]
    /\ removing' = [removing EXCEPT ![e] = {"cancel"}]
    /\ UNCHANGED <<receipt, queueing, notice, messenger, told>>

DeleteContactEndpoints(e) ==
    /\ endpoint[e] = "active" /\ removing[e] = {}
    /\ removing' = [removing EXCEPT ![e] = {"mark", "cancel"}]
    /\ UNCHANGED <<receipt, endpoint, queueing, notice, messenger, told>>

MarkEndpointDeleted(e) ==
    /\ "mark" \in removing[e]
    /\ endpoint' = [endpoint EXCEPT ![e] = "removed"]
    /\ removing' = [removing EXCEPT ![e] = @ \ {"mark"}]
    /\ UNCHANGED <<receipt, queueing, notice, messenger, told>>

CancelEndpointDeliveries(e) ==
    /\ "cancel" \in removing[e]
    /\ notice' = [notice EXCEPT ![e] =
          IF @.status \in OpenNotice
          THEN [@ EXCEPT !.status = "cancelled", !.lease = 0, !.lapsed = TRUE] ELSE @]
    /\ removing' = [removing EXCEPT ![e] = @ \ {"cancel"}]
    /\ UNCHANGED <<receipt, endpoint, queueing, messenger, told>>

----------------------------------------------------------------------------
(* runReceiptNotificationWorker                                            *)
NoticeClaimable(e) ==
    notice[e].status \in OpenNotice /\ notice[e].lapsed /\ notice[e].attempts < MaxTries

\* Mutant: the claim does not count as an attempt.
TakenUncounted(e) == [notice[e] EXCEPT !.status = "delivering", !.lapsed = FALSE]

Taken(e) == [status |-> "delivering", attempts |-> notice[e].attempts + 1,
             lease |-> notice[e].attempts + 1, lapsed |-> FALSE]

ClaimNotificationDelivery(w, e) ==
    /\ messenger[w].pc = "idle" /\ NoticeClaimable(e)
    /\ notice' = [notice EXCEPT ![e] = Taken(e)]
    /\ MessengerGoes(w, [pc |-> "read", e |-> e, attempts |-> Taken(e).attempts])
    /\ UNCHANGED <<receipt, endpoint, removing, queueing, told>>

\* Mutant: a worker writes without its lease.
WritesAnyway(w) == notice[MyNotice(w)].status # "none"

HoldsLease(w) == notice[MyNotice(w)].lease = messenger[w].attempts

EndsNotice(w, status) ==
    /\ notice' = [notice EXCEPT ![MyNotice(w)] =
          IF HoldsLease(w) THEN [@ EXCEPT !.status = status, !.lease = 0, !.lapsed = TRUE] ELSE @]
    /\ MessengerGoes(w, IdleMessenger)

\* Mutant: the endpoint of a claimed delivery is not looked at again.
EndpointAssumedActive(w) == receipt /\ MyNotice(w) \in Endpoint

EndpointActive(w) == endpoint[MyNotice(w)] = "active"

\* The endpoint was removed: the delivery is cancelled.
FindsEndpointRemoved(w) ==
    /\ messenger[w].pc = "read" /\ ~EndpointActive(w)
    /\ EndsNotice(w, "cancelled")
    /\ UNCHANGED <<receipt, endpoint, removing, queueing, told>>

\* The message goes to the address read with the endpoint.
FindsEndpointActive(w) ==
    /\ messenger[w].pc = "read" /\ EndpointActive(w)
    /\ MessengerGoes(w, [messenger[w] EXCEPT !.pc = "send"])
    /\ UNCHANGED <<receipt, endpoint, removing, queueing, notice, told>>

SendNotice(w, outcome) ==
    /\ messenger[w].pc = "send"
    /\ told' = [told EXCEPT ![MyNotice(w)].sent = @ + 1,
                            ![MyNotice(w)].after = IF endpoint[MyNotice(w)] = "active" THEN @ ELSE @ + 1]
    /\ MessengerGoes(w, [messenger[w] EXCEPT !.pc = outcome])
    /\ UNCHANGED <<receipt, endpoint, removing, queueing, notice>>

RecordsDelivered(w) ==
    /\ messenger[w].pc = "delivered"
    /\ EndsNotice(w, "succeeded")
    /\ UNCHANGED <<receipt, endpoint, removing, queueing, told>>

\* Mutant: every failure is tried again.
NeverTerminal(w) == messenger[w].pc = "idle"

Terminal(w) == messenger[w].attempts >= MaxTries

RecordsFailure(w) ==
    /\ messenger[w].pc = "failed"
    /\ EndsNotice(w, IF Terminal(w) THEN "failed" ELSE "retrying")
    /\ UNCHANGED <<receipt, endpoint, removing, queueing, told>>

MessengerStops(w) ==
    /\ messenger[w].pc # "idle"
    /\ MessengerGoes(w, IdleMessenger)
    /\ UNCHANGED <<receipt, endpoint, removing, queueing, notice, told>>

NoticeLeaseLapses(e) ==
    /\ notice[e].status = "delivering" /\ ~notice[e].lapsed
    /\ notice' = [notice EXCEPT ![e].lapsed = TRUE]
    /\ UNCHANGED <<receipt, endpoint, removing, queueing, messenger, told>>

MessengerNext(w) ==
    \/ \E e \in Endpoint : ClaimNotificationDelivery(w, e)
    \/ FindsEndpointRemoved(w) \/ FindsEndpointActive(w)
    \/ \E outcome \in {"delivered", "failed"} : SendNotice(w, outcome)
    \/ RecordsDelivered(w) \/ RecordsFailure(w)

NotificationNext ==
    \/ CreatePaymentReceipt \/ QueueReads
    \/ \E e \in Endpoint :
          \/ CreateNotificationEndpoint(e)
          \/ QueueReceiptNotifications(e) \/ NoticeLeaseLapses(e)
          \/ RemoveNotificationEndpoint(e) \/ DeleteContactEndpoints(e)
          \/ MarkEndpointDeleted(e) \/ CancelEndpointDeliveries(e)
    \/ \E w \in Messenger : MessengerNext(w) \/ MessengerStops(w)

NotificationSpec == NotificationInit /\ [][NotificationNext]_noticeVars
----------------------------------------------------------------------------
\* The values each variable may have.
NotificationTypeOK ==
    /\ \A e \in Endpoint : /\ notice[e].status \in {"none"} \cup OpenNotice \cup Ended
                           /\ notice[e].attempts \in 0..MaxTries
                           /\ notice[e].lease \in {0, notice[e].attempts}
    /\ \A w \in Messenger : messenger[w].attempts \in 0..MaxTries

\* A delivery that succeeded, failed or was cancelled stays so: a worker whose
\* lease lapsed, or whose endpoint was removed while it was sending, writes
\* nothing (the leaseId in every filter of runReceiptNotificationWorker).
EndedNoticeStays ==
    [][\A e \in Endpoint : notice[e].status \in Ended => notice'[e] = notice[e]]_noticeVars

\* A recipient gets a receipt at most MaxTries times, one message per claim,
\* however many workers lapse, stop or overlap (claimNotificationDelivery).
NoticesBounded == \A e \in Endpoint : told[e].sent <= notice[e].attempts /\ told[e].sent <= MaxTries

\* After an endpoint is removed it gets at most one more message from each worker
\* that had read its address, although a settlement may queue a delivery after
\* the removal cancelled the others and workers claim it again and again.
LateNoticesBounded == \A e \in Endpoint : told[e].after <= Cardinality(Messenger)

\* A worker stopped during the last attempt: no query takes the delivery back.
Abandoned(e) ==
    /\ notice[e].status = "delivering" /\ notice[e].attempts = MaxTries
    /\ \A w \in Messenger : messenger[w].e # e \/ messenger[w].attempts < MaxTries

\* Every queued delivery ends, also for an endpoint that is removed and through
\* workers that stop, unless a worker stops during the last attempt
\* (claimNotificationDelivery asks for fewer attempts than the limit).
NoticesEnd ==
    \A e \in Endpoint : notice[e].status = "queued" ~> notice[e].status \in Ended \/ Abandoned(e)

\* An endpoint is told of a receipt a bounded number of times, also around its
\* removal, and a delivery that has ended stays as it ended.
NoticesSound == []NoticesBounded /\ []LateNoticesBounded /\ EndedNoticeStays
=============================================================================
