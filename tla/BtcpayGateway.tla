---------------------------- MODULE BtcpayGateway ----------------------------
(***************************************************************************)
(* A BTCPay store (btcpay.service.ts, btcpayConnector.ts): invoices to be  *)
(* paid to the owner, created on the server under the id of the local      *)
(* document, and Lightning invoices the store pays.  Requests with the     *)
(* same key run concurrently, the server's answers may be lost, and a      *)
(* request may still be on its way when its caller has given up.           *)
(***************************************************************************)
EXTENDS Naturals

CONSTANTS
  BillKey,    \* idempotency keys of invoices to create
  Bolt11,     \* Lightning invoices to pay, by payment hash
  StoreKey,   \* idempotency keys of payments
  Clerk       \* requests that are served concurrently

ASSUME BtcpayAssumption == BillKey # {} /\ Bolt11 # {} /\ StoreKey # {}

VARIABLES
  store,    \* status of the BtcpayConnection
  bill,     \* the BtcpayInvoice documents, by key
  remote,   \* the server's invoices with the id of each document
  storepay, \* the BtcpayPayment documents, by payment hash
  node,     \* what the store's Lightning node has done
  tried,    \* how often the payment was requested, up to 2
  clerk     \* what each request is doing

btcpayVars == <<store, bill, remote, storepay, node, tried, clerk>>

BillStatus == {"new", "processing", "settled", "expired", "invalid"}
BillRecord ==
  [creation: {"none", "creating", "ready", "uncertain"}, linked: BOOLEAN, leased: BOOLEAN,
   status: BillStatus]
\* mail: create requests on their way; lapsed: the Lightning invoice has expired
RemoteRecord == [mail: 0..2, count: 0..2, status: BillStatus, lapsed: BOOLEAN]
StorepayRecord ==
  [status: {"none", "pending", "uncertain", "succeeded", "failed"}, k: StoreKey, leased: BOOLEAN]
\* seen: the status that was read; ready, busy: of the document as it was read
ClerkRecord ==
  [at: {"idle", "seek", "reserve", "post", "posted", "doubt", "finish", "recover", "cloud",
        "fetch", "keep", "find", "create", "quote", "send", "wait", "record", "unsure", "lookup"},
   b: BillKey, h: Bolt11, k: StoreKey, ready: BOOLEAN, busy: BOOLEAN,
   seen: BillStatus \cup {"pending", "uncertain", "succeeded", "failed"}]

AnyBill == CHOOSE b \in BillKey : TRUE
AnyBolt == CHOOSE h \in Bolt11 : TRUE
AnyStoreKey == CHOOSE k \in StoreKey : TRUE
IdleClerk == [at |-> "idle", b |-> AnyBill, h |-> AnyBolt, k |-> AnyStoreKey, ready |-> FALSE,
              busy |-> FALSE, seen |-> "new"]

BtcpayInit ==
  /\ store = "none"
  /\ bill = [b \in BillKey |->
       [creation |-> "none", linked |-> FALSE, leased |-> FALSE, status |-> "new"]]
  /\ remote = [b \in BillKey |-> [mail |-> 0, count |-> 0, status |-> "new", lapsed |-> FALSE]]
  /\ storepay = [h \in Bolt11 |-> [status |-> "none", k |-> AnyStoreKey, leased |-> FALSE]]
  /\ node = [h \in Bolt11 |-> "none"]
  /\ tried = [h \in Bolt11 |-> 0]
  /\ clerk = [p \in Clerk |-> IdleClerk]
-----------------------------------------------------------------------------
ClerkAt(p, at) == clerk' = [clerk EXCEPT ![p].at = at]
ClerkDone(p) == clerk' = [clerk EXCEPT ![p] = IdleClerk]
Saturated(n) == IF n < 2 THEN n + 1 ELSE n

\* An API key is paired once, if it has exactly the permissions needed.
PairBtcpayConnection ==
  /\ store = "none"
  /\ store' = "active"
  /\ UNCHANGED <<bill, remote, storepay, node, tried, clerk>>

\* The key is deleted on the server, if that is reachable, and here.
DisconnectBtcpayConnection ==
  /\ store = "active"
  /\ store' = "revoked"
  /\ UNCHANGED <<bill, remote, storepay, node, tried, clerk>>

CreateBtcpayInvoice(p, b) ==
  /\ clerk[p].at = "idle"
  /\ store = "active"
  /\ clerk' = [clerk EXCEPT ![p].at = "seek", ![p].b = b]
  /\ UNCHANGED <<store, bill, remote, storepay, node, tried>>

\* recoverInvoiceCreation works on the document as it was read here.
Recovering(p) ==
  LET doc == bill[clerk[p].b]
  IN clerk' = [clerk EXCEPT ![p].at = "recover", ![p].ready = doc.linked /\ doc.creation = "ready",
                            ![p].busy = doc.creation = "creating" /\ doc.leased]

SeekBill(p) ==
  /\ clerk[p].at = "seek"
  /\ IF bill[clerk[p].b].creation = "none" THEN ClerkAt(p, "reserve") ELSE Recovering(p)
  /\ UNCHANGED <<store, bill, remote, storepay, node, tried>>

\* The local id is reserved before the server is asked; the loser of a race
\* recovers the winner's invoice.
ReserveBill(p) ==
  /\ clerk[p].at = "reserve"
  /\ IF bill[clerk[p].b].creation = "none"
     THEN /\ bill' = [bill EXCEPT ![clerk[p].b].creation = "creating", ![clerk[p].b].leased = TRUE]
          /\ ClerkAt(p, "post")
     ELSE UNCHANGED bill /\ Recovering(p)
  /\ UNCHANGED <<store, remote, storepay, node, tried>>

PostBill(p) ==
  /\ clerk[p].at = "post"
  /\ \/ /\ remote' = [remote EXCEPT ![clerk[p].b].mail = Saturated(@)]
        /\ ClerkAt(p, "posted")
     \/ UNCHANGED remote /\ ClerkAt(p, "doubt")
  /\ UNCHANGED <<store, bill, storepay, node, tried>>

ReadPosted(p) ==
  /\ clerk[p].at = "posted"
  /\ \/ /\ remote[clerk[p].b].count = 1
        /\ clerk' = [clerk EXCEPT ![p].at = "finish", ![p].seen = remote[clerk[p].b].status]
     \/ ClerkAt(p, "doubt")
  /\ UNCHANGED <<store, bill, remote, storepay, node, tried>>

\* A failed create request is marked uncertain, even if another request has
\* found the invoice meanwhile.
DoubtBill(p) ==
  /\ clerk[p].at = "doubt"
  /\ bill' = [bill EXCEPT ![clerk[p].b].creation = "uncertain", ![clerk[p].b].leased = FALSE]
  /\ ClerkDone(p)
  /\ UNCHANGED <<store, remote, storepay, node, tried>>

\* finishInvoiceCreation
FinishBill(p) ==
  /\ clerk[p].at = "finish"
  /\ bill' = [bill EXCEPT ![clerk[p].b] = [creation |-> "ready", linked |-> TRUE,
                                            leased |-> FALSE, status |-> clerk[p].seen]]
  /\ clerk' = [clerk EXCEPT ![p].at = "fetch", ![p].seen = "new"]
  /\ UNCHANGED <<store, remote, storepay, node, tried>>

\* Mutant of RecoverBill: an invoice that is not visible is created again.
RecoverBillAgain(p) ==
  LET there == remote[clerk[p].b]
  IN /\ clerk[p].at = "recover"
     /\ clerk' = CASE clerk[p].ready -> [clerk EXCEPT ![p].at = "fetch"]
                   [] ~clerk[p].ready /\ there.count = 1 ->
                        [clerk EXCEPT ![p].at = "finish", ![p].seen = there.status]
                   [] ~clerk[p].ready /\ there.count = 0 /\ ~clerk[p].busy ->
                        [clerk EXCEPT ![p].at = "post"]
                   [] OTHER -> [clerk EXCEPT ![p] = IdleClerk]
     /\ UNCHANGED <<store, bill, remote, storepay, node, tried>>

\* recoverInvoiceCreation searches by order id: one invoice is attached, several
\* fail closed, none leaves the creation in progress or uncertain.
RecoverBill(p) ==
  LET there == remote[clerk[p].b]
  IN /\ clerk[p].at = "recover"
     /\ \/ clerk' = CASE clerk[p].ready -> [clerk EXCEPT ![p].at = "fetch"]
                      [] ~clerk[p].ready /\ there.count = 1 ->
                           [clerk EXCEPT ![p].at = "finish", ![p].seen = there.status]
                      [] ~clerk[p].ready /\ there.count = 0 /\ ~clerk[p].busy ->
                           [clerk EXCEPT ![p].at = "cloud"]
                      [] OTHER -> [clerk EXCEPT ![p] = IdleClerk]
        \/ ClerkDone(p)
     /\ UNCHANGED <<store, bill, remote, storepay, node, tried>>

CloudBill(p) ==
  /\ clerk[p].at = "cloud"
  /\ bill' = IF bill[clerk[p].b].creation = "creating"
             THEN [bill EXCEPT ![clerk[p].b].creation = "uncertain", ![clerk[p].b].leased = FALSE]
             ELSE bill
  /\ ClerkDone(p)
  /\ UNCHANGED <<store, remote, storepay, node, tried>>

GetBtcpayInvoice(p, b) ==
  /\ clerk[p].at = "idle"
  /\ store = "active" /\ bill[b].linked
  /\ clerk' = [clerk EXCEPT ![p].at = "fetch", ![p].b = b]
  /\ UNCHANGED <<store, bill, remote, storepay, node, tried>>

\* fetchProviderInvoice decodes the payment request before it stores the status:
\* once a Lightning invoice has expired, its status is not stored any more.
FetchBill(p) ==
  /\ clerk[p].at = "fetch"
  /\ \/ /\ ~remote[clerk[p].b].lapsed
        /\ clerk' = [clerk EXCEPT ![p].at = "keep", ![p].seen = remote[clerk[p].b].status]
     \/ ClerkDone(p)
  /\ UNCHANGED <<store, bill, remote, storepay, node, tried>>

\* Mutant of KeepBill: an invoice that is being paid counts as settled.
KeepBillEarly(p) ==
  /\ clerk[p].at = "keep"
  /\ bill' = [bill EXCEPT ![clerk[p].b].status =
                IF clerk[p].seen = "processing" THEN "settled" ELSE clerk[p].seen]
  /\ ClerkDone(p)
  /\ UNCHANGED <<store, remote, storepay, node, tried>>

KeepBill(p) ==
  /\ clerk[p].at = "keep"
  /\ bill' = [bill EXCEPT ![clerk[p].b].status = clerk[p].seen]
  /\ ClerkDone(p)
  /\ UNCHANGED <<store, remote, storepay, node, tried>>

\* The server creates what it was asked for, sooner or later, and its invoices
\* are paid or expire.
RemoteCreates(b) ==
  /\ remote[b].mail > 0
  /\ remote' = [remote EXCEPT ![b].mail = @ - 1, ![b].count = Saturated(@)]
  /\ UNCHANGED <<store, bill, storepay, node, tried, clerk>>

RemoteMoves(b) ==
  /\ remote[b].count > 0
  /\ \/ /\ remote[b].status = "new"
        /\ \E s \in {"processing", "expired"} : remote' = [remote EXCEPT ![b].status = s]
     \/ /\ remote[b].status = "processing"
        /\ \E s \in {"settled", "invalid"} : remote' = [remote EXCEPT ![b].status = s]
     \/ ~remote[b].lapsed /\ remote' = [remote EXCEPT ![b].lapsed = TRUE]
  /\ UNCHANGED <<store, bill, storepay, node, tried, clerk>>
-----------------------------------------------------------------------------
PayBtcpayLightning(p, h, k) ==
  /\ clerk[p].at = "idle"
  /\ store = "active"
  /\ clerk' = [clerk EXCEPT ![p].at = "find", ![p].h = h, ![p].k = k]
  /\ UNCHANGED <<store, bill, remote, storepay, node, tried>>

\* Mutant of StoreMatches: only the key identifies a payment.
StoreMatchesByKey(p) == {h \in Bolt11 : storepay[h].status # "none" /\ storepay[h].k = clerk[p].k}

\* The payments that the two unique indexes hold against a request.
StoreMatches(p) ==
  {h \in Bolt11 : storepay[h].status # "none" /\ (h = clerk[p].h \/ storepay[h].k = clerk[p].k)}
SamePayment(p, h) == h = clerk[p].h /\ storepay[h].k = clerk[p].k
Executing(h) == storepay[h].status = "pending" /\ storepay[h].leased

FindStorePayment(p) ==
  /\ clerk[p].at = "find"
  /\ IF StoreMatches(p) = {} THEN ClerkAt(p, "create")
     ELSE \E h \in StoreMatches(p) :
            IF ~SamePayment(p, h) \/ storepay[h].status \in {"succeeded", "failed"} \/ Executing(h)
            THEN ClerkDone(p) ELSE ClerkAt(p, "lookup")
  /\ UNCHANGED <<store, bill, remote, storepay, node, tried>>

\* The loser of a race reconciles even a payment whose outcome is known.
CreateStorePayment(p) ==
  LET h == clerk[p].h
  IN /\ clerk[p].at = "create"
     /\ IF StoreMatches(p) = {}
        THEN /\ storepay' = [storepay EXCEPT ![h] =
                               [status |-> "pending", k |-> clerk[p].k, leased |-> TRUE]]
             /\ ClerkAt(p, "quote")
        ELSE /\ UNCHANGED storepay
             /\ IF h \notin StoreMatches(p) \/ ~SamePayment(p, h) \/ Executing(h)
                THEN ClerkDone(p) ELSE ClerkAt(p, "lookup")
     /\ UNCHANGED <<store, bill, remote, node, tried>>

\* The quote of an invoice that has just expired throws past the handler.
QuoteStorePayment(p) ==
  /\ clerk[p].at = "quote"
  /\ ClerkAt(p, "send") \/ ClerkDone(p)
  /\ UNCHANGED <<store, bill, remote, storepay, node, tried>>

SendStorePayment(p) ==
  LET h == clerk[p].h
  IN /\ clerk[p].at = "send"
     /\ \/ /\ store = "active"
           /\ tried' = [tried EXCEPT ![h] = Saturated(@)]
           /\ node' = [node EXCEPT ![h] = IF @ = "none" THEN "asked" ELSE @]
           /\ ClerkAt(p, "wait")
        \/ UNCHANGED <<tried, node>> /\ ClerkAt(p, "unsure")
     /\ UNCHANGED <<store, bill, remote, storepay>>

NodeActs(h) ==
  /\ node[h] = "asked"
  /\ \E outcome \in {"paid", "refused"} : node' = [node EXCEPT ![h] = outcome]
  /\ UNCHANGED <<store, bill, remote, storepay, tried, clerk>>

\* Mutant of StatusResult: everything but a failure is a success.
StatusResultHopeful(h) == {IF node[h] = "refused" THEN "failed" ELSE "succeeded"}

\* statusResult: complete with a matching preimage, pending or unknown, failed.
StatusResult(h) ==
  CASE node[h] = "paid" -> {"succeeded"}
    [] node[h] = "refused" -> {"failed"}
    [] OTHER -> {"pending", "uncertain"}

\* An error status, an invalid proof, a fee above the limit and no answer at all
\* leave the outcome open.
ReadStoreAnswer(p) ==
  /\ clerk[p].at = "wait"
  /\ \/ \E s \in StatusResult(clerk[p].h) :
          clerk' = [clerk EXCEPT ![p].at = "record", ![p].seen = s]
     \/ ClerkAt(p, "unsure")
  /\ UNCHANGED <<store, bill, remote, storepay, node, tried>>

SetOpen(p, status) ==
  storepay' = IF storepay[clerk[p].h].status \in {"pending", "uncertain"}
              THEN [storepay EXCEPT ![clerk[p].h].status = status, ![clerk[p].h].leased = FALSE]
              ELSE storepay

PersistPaymentResult(p) ==
  /\ clerk[p].at = "record"
  /\ SetOpen(p, clerk[p].seen)
  /\ ClerkDone(p)
  /\ UNCHANGED <<store, bill, remote, node, tried>>

MarkPaymentUncertain(p) ==
  /\ clerk[p].at = "unsure"
  /\ SetOpen(p, "uncertain")
  /\ ClerkDone(p)
  /\ UNCHANGED <<store, bill, remote, node, tried>>

GetBtcpayPayment(p, h) ==
  /\ clerk[p].at = "idle"
  /\ storepay[h].status \in {"pending", "uncertain"}
  /\ clerk' = [clerk EXCEPT ![p].at = "lookup", ![p].h = h, ![p].k = storepay[h].k]
  /\ UNCHANGED <<store, bill, remote, storepay, node, tried>>

\* The node answers for a payment it knows; 404 is no outcome.
LookUpStorePayment(p) ==
  /\ clerk[p].at = "lookup"
  /\ \/ /\ store = "active"
        /\ \E s \in StatusResult(clerk[p].h) :
             clerk' = [clerk EXCEPT ![p].at = "record", ![p].seen = s]
     \/ ClerkAt(p, "unsure")
  /\ UNCHANGED <<store, bill, remote, storepay, node, tried>>

LeasesLapse ==
  /\ \/ /\ \E b \in BillKey : bill[b].leased /\ bill' = [bill EXCEPT ![b].leased = FALSE]
        /\ UNCHANGED storepay
     \/ /\ \E h \in Bolt11 : storepay[h].leased /\ storepay' = [storepay EXCEPT ![h].leased = FALSE]
        /\ UNCHANGED bill
  /\ UNCHANGED <<store, remote, node, tried, clerk>>

CrashClerk(p) ==
  /\ clerk[p].at # "idle"
  /\ ClerkDone(p)
  /\ UNCHANGED <<store, bill, remote, storepay, node, tried>>
-----------------------------------------------------------------------------
BillNext ==
  \/ \E p \in Clerk, b \in BillKey : CreateBtcpayInvoice(p, b) \/ GetBtcpayInvoice(p, b)
  \/ \E p \in Clerk : \/ SeekBill(p) \/ ReserveBill(p) \/ PostBill(p) \/ ReadPosted(p)
                      \/ DoubtBill(p) \/ FinishBill(p) \/ RecoverBill(p) \/ CloudBill(p)
                      \/ FetchBill(p) \/ KeepBill(p)
  \/ \E b \in BillKey : RemoteCreates(b) \/ RemoteMoves(b)

StorePaymentNext ==
  \/ \E p \in Clerk, h \in Bolt11 :
       (\E k \in StoreKey : PayBtcpayLightning(p, h, k)) \/ GetBtcpayPayment(p, h)
  \/ \E p \in Clerk : \/ FindStorePayment(p) \/ CreateStorePayment(p) \/ QuoteStorePayment(p)
                      \/ SendStorePayment(p) \/ ReadStoreAnswer(p) \/ PersistPaymentResult(p)
                      \/ MarkPaymentUncertain(p) \/ LookUpStorePayment(p)
  \/ \E h \in Bolt11 : NodeActs(h)

StoreNext ==
  \/ PairBtcpayConnection \/ DisconnectBtcpayConnection \/ LeasesLapse
  \/ \E p \in Clerk : CrashClerk(p)

BtcpayNext == BillNext \/ StorePaymentNext \/ StoreNext

BtcpaySpec == BtcpayInit /\ [][BtcpayNext]_btcpayVars
-----------------------------------------------------------------------------
\* The documents hold statuses of their schemas and every request is at a step
\* of its handler.
BtcpayTypeOK ==
  /\ store \in {"none", "active", "revoked"}
  /\ bill \in [BillKey -> BillRecord]
  /\ remote \in [BillKey -> RemoteRecord]
  /\ storepay \in [Bolt11 -> StorepayRecord]
  /\ node \in [Bolt11 -> {"none", "asked", "paid", "refused"}]
  /\ tried \in [Bolt11 -> 0..2]
  /\ clerk \in [Clerk -> ClerkRecord]

\* The document on BTCPay says that a second create request is never sent: the
\* server is asked at most once for each key, through lost answers, expired
\* leases, replays and crashes.
BilledOnce == \A b \in BillKey : remote[b].mail + remote[b].count <= 1

\* A local invoice that says settled is settled on the server.
SettledBillIsPaid == \A b \in BillKey : bill[b].status = "settled" => remote[b].status = "settled"

\* A lost answer cannot become a second payment of the same invoice, under any
\* key, and a status that is final is the node's.
StorePaysOnce ==
  \A h \in Bolt11 : /\ tried[h] <= 1
                    /\ storepay[h].status = "succeeded" => node[h] = "paid"
                    /\ storepay[h].status = "failed" => node[h] = "refused"
=============================================================================
