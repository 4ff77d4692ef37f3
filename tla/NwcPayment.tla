----------------------------- MODULE NwcPayment -----------------------------
(***************************************************************************)
(* Lightning payments through a wallet that answers over a Nostr relay     *)
(* (nwc.service.ts, nwcConnector.ts, nwcRelayTransport.ts).  One document  *)
(* per invoice says how a payment stands; requests for the same or another *)
(* key, status queries and the owner's disconnection run concurrently.     *)
(* The relay may lose or delay a request and its answer, and a lookup may  *)
(* overtake the payment it asks about.                                     *)
(***************************************************************************)
EXTENDS Naturals

CONSTANTS
  Wire,       \* connections, by client key; all lead to the same wallet
  Invoice,    \* Lightning invoices, by payment hash
  PayKey,     \* idempotency keys
  Payer,      \* requests that are served concurrently
  Satoshis,   \* the amount of each invoice
  Allowance   \* what the wallet enforces for an unattended connection

ASSUME NwcAssumption ==
  /\ Satoshis \in [Invoice -> Nat \ {0}] /\ Allowance \in Nat
  /\ Wire # {} /\ Invoice # {} /\ PayKey # {}

VARIABLES
  wire,     \* the NwcConnection documents
  lnpay,    \* the NwcPayment documents, by payment hash
  wallet,   \* what the wallet has done with each invoice
  sent,     \* how often pay_invoice went out for it, up to 2
  payer     \* what each request is doing

nwcVars == <<wire, lnpay, wallet, sent, payer>>

Mode == {"interactive", "unattended"}
AnyWire == CHOOSE c \in Wire : TRUE
AnyKey == CHOOSE k \in PayKey : TRUE
AnyInvoice == CHOOSE h \in Invoice : TRUE

WireRecord == [status: {"none", "active", "revoked"}, lookup: BOOLEAN, mode: Mode]
LnpayRecord ==
  [status: {"none", "pending", "uncertain", "succeeded", "failed"}, c: Wire, k: PayKey,
   mode: Mode, leased: BOOLEAN]
\* lookup: of the connection as it was read
PayerRecord ==
  [at: {"idle", "find", "create", "quote", "send", "wait", "persist", "unsure", "fail",
        "reconcile", "lookup", "doubt"},
   c: Wire, h: Invoice, k: PayKey, mode: Mode, lookup: BOOLEAN]

NoLnpay == [status |-> "none", c |-> AnyWire, k |-> AnyKey, mode |-> "interactive",
            leased |-> FALSE]
IdlePayer == [at |-> "idle", c |-> AnyWire, h |-> AnyInvoice, k |-> AnyKey,
              mode |-> "interactive", lookup |-> FALSE]

NwcInit ==
  /\ wire = [c \in Wire |-> [status |-> "none", lookup |-> FALSE, mode |-> "interactive"]]
  /\ lnpay = [h \in Invoice |-> NoLnpay]
  /\ wallet = [h \in Invoice |-> "none"]
  /\ sent = [h \in Invoice |-> 0]
  /\ payer = [p \in Payer |-> IdlePayer]
-----------------------------------------------------------------------------
PayerAt(p, at) == payer' = [payer EXCEPT ![p].at = at]
PayerDone(p) == payer' = [payer EXCEPT ![p] = IdlePayer]

\* pairNwcConnection: a client key is paired once; unattended use needs a
\* wallet-enforced allowance and a way to look payments up.
PairNwcConnection(c, lookup, mode) ==
  /\ wire[c].status = "none"
  /\ mode = "unattended" => lookup /\ Allowance > 0
  /\ wire' = [wire EXCEPT ![c] = [status |-> "active", lookup |-> lookup, mode |-> mode]]
  /\ UNCHANGED <<lnpay, wallet, sent, payer>>

DisconnectNwcConnection(c) ==
  /\ wire[c].status = "active"
  /\ wire' = [wire EXCEPT ![c].status = "revoked"]
  /\ UNCHANGED <<lnpay, wallet, sent, payer>>

\* payNwcInvoice reads the connection and decodes the invoice.
PayNwcInvoice(p, c, h, k, mode) ==
  /\ payer[p].at = "idle"
  /\ wire[c].status = "active"
  /\ mode = "unattended" => wire[c].mode = "unattended" /\ Satoshis[h] <= Allowance
  /\ payer' = [payer EXCEPT ![p] = [at |-> "find", c |-> c, h |-> h, k |-> k, mode |-> mode,
                                     lookup |-> wire[c].lookup]]
  /\ UNCHANGED <<wire, lnpay, wallet, sent>>

\* Mutant of Matches: only the key identifies a payment.
MatchesByKey(p) ==
  {h \in Invoice : lnpay[h].status # "none" /\ lnpay[h].c = payer[p].c /\ lnpay[h].k = payer[p].k}

\* The payments that the two unique indexes hold against a request.
Matches(p) ==
  {h \in Invoice : /\ lnpay[h].status # "none"
                   /\ h = payer[p].h \/ (lnpay[h].c = payer[p].c /\ lnpay[h].k = payer[p].k)}

SameRequest(p, h) ==
  /\ h = payer[p].h /\ lnpay[h].c = payer[p].c /\ lnpay[h].k = payer[p].k
  /\ lnpay[h].mode = payer[p].mode

\* paymentExecutionInFlight
InFlight(h) == lnpay[h].status = "pending" /\ lnpay[h].leased

\* A conflict, an outcome that is known and one in flight end the request.
FindExisting(p) ==
  /\ payer[p].at = "find"
  /\ IF Matches(p) = {} THEN PayerAt(p, "create")
     ELSE \E h \in Matches(p) :
            IF ~SameRequest(p, h) \/ lnpay[h].status \in {"succeeded", "failed"} \/ InFlight(h)
            THEN PayerDone(p) ELSE PayerAt(p, "reconcile")
  /\ UNCHANGED <<wire, lnpay, wallet, sent>>

\* The payment is created under a lease; losing that race to the same request
\* leads to its reconciliation.
CreatePayment(p) ==
  LET h == payer[p].h
  IN /\ payer[p].at = "create"
     /\ IF Matches(p) = {}
        THEN /\ lnpay' = [lnpay EXCEPT ![h] = [status |-> "pending", c |-> payer[p].c,
                            k |-> payer[p].k, mode |-> payer[p].mode, leased |-> TRUE]]
             /\ PayerAt(p, "quote")
        ELSE /\ UNCHANGED lnpay
             /\ IF h \notin Matches(p) \/ ~SameRequest(p, h) \/ lnpay[h].status = "succeeded"
                     \/ InFlight(h)
                THEN PayerDone(p) ELSE PayerAt(p, "reconcile")
     /\ UNCHANGED <<wire, wallet, sent>>

\* The quote of an invoice that has just expired throws past the handler.
QuoteInvoice(p) ==
  /\ payer[p].at = "quote"
  /\ PayerAt(p, "send") \/ PayerDone(p)
  /\ UNCHANGED <<wire, lnpay, wallet, sent>>

\* The handler's catch: an error that leaves the outcome open makes the payment
\* uncertain, if the wallet can be asked later.
Vague(p) == IF payer[p].lookup THEN "unsure" ELSE "fail"

\* loadConnection reads the connection again; the request may never reach the
\* relay, or reach it and never the wallet.
SendPayInvoice(p) ==
  LET h == payer[p].h
  IN /\ payer[p].at = "send"
     /\ \/ /\ wire[payer[p].c].status = "active"
           /\ sent' = [sent EXCEPT ![h] = IF @ < 2 THEN @ + 1 ELSE @]
           /\ wallet' = [wallet EXCEPT ![h] = IF @ = "none" THEN "asked" ELSE @]
           /\ PayerAt(p, "wait")
        \/ UNCHANGED <<sent, wallet>> /\ PayerAt(p, Vague(p))
     /\ UNCHANGED <<wire, lnpay>>

\* The wallet pays or refuses, sooner or later.
WalletActs(h) ==
  /\ wallet[h] = "asked"
  /\ \E outcome \in {"paid", "refused"} : wallet' = [wallet EXCEPT ![h] = outcome]
  /\ UNCHANGED <<wire, lnpay, sent, payer>>

\* The relay client's request: the wallet's signed answer once there is one, an
\* answer or a connection of no use, or silence until the timeout.
RelayAnswers(h) == ({wallet[h]} \cap {"paid", "refused"}) \cup {"useless", "timeout"}

\* Only a preimage that hashes to the payment hash proves the payment.  A refusal
\* by a definite error code fails it; PAYMENT_FAILED, INTERNAL and useless
\* answers leave it open if the wallet can be asked; a timeout always does.
ReadPayAnswer(p) ==
  /\ payer[p].at = "wait"
  /\ \E answer \in RelayAnswers(payer[p].h) :
       CASE answer = "paid" -> PayerAt(p, "persist")
         [] answer = "refused" -> PayerAt(p, "fail") \/ PayerAt(p, Vague(p))
         [] answer = "useless" -> PayerAt(p, Vague(p))
         [] answer = "timeout" -> PayerAt(p, "unsure")
  /\ UNCHANGED <<wire, lnpay, wallet, sent>>

Unknown == {"pending", "uncertain"}
SetUnknown(p, status) ==
  lnpay' = IF lnpay[payer[p].h].status \in Unknown
           THEN [lnpay EXCEPT ![payer[p].h].status = status, ![payer[p].h].leased = FALSE]
           ELSE lnpay

\* persistNwcSuccess
PersistNwcSuccess(p) ==
  /\ payer[p].at = "persist"
  /\ SetUnknown(p, "succeeded")
  /\ PayerDone(p)
  /\ UNCHANGED <<wire, wallet, sent>>

MarkNwcUncertain(p) ==
  /\ payer[p].at = "unsure"
  /\ SetUnknown(p, "uncertain")
  /\ PayerDone(p)
  /\ UNCHANGED <<wire, wallet, sent>>

\* Mutant of MarkNwcFailed: an update writes a status that the schema lacks.
MarkNwcFailedUnlisted(p) ==
  /\ payer[p].at = "fail"
  /\ SetUnknown(p, "rejected")
  /\ PayerDone(p)
  /\ UNCHANGED <<wire, wallet, sent>>

MarkNwcFailed(p) ==
  /\ payer[p].at = "fail"
  /\ SetUnknown(p, "failed")
  /\ PayerDone(p)
  /\ UNCHANGED <<wire, wallet, sent>>
-----------------------------------------------------------------------------
\* getNwcPaymentStatus: a payment whose outcome is open is reconciled, even one
\* that is still being executed.
GetNwcPaymentStatus(p, c, h) ==
  /\ payer[p].at = "idle"
  /\ lnpay[h].c = c /\ lnpay[h].status \in Unknown
  /\ payer' = [payer EXCEPT ![p] = [IdlePayer EXCEPT !.at = "reconcile", !.c = c, !.h = h]]
  /\ UNCHANGED <<wire, lnpay, wallet, sent>>

ReconcilePayment(p) ==
  LET c == lnpay[payer[p].h].c
  IN /\ payer[p].at = "reconcile"
     /\ IF wire[c].status = "active" /\ wire[c].lookup THEN PayerAt(p, "lookup") ELSE PayerDone(p)
     /\ UNCHANGED <<wire, lnpay, wallet, sent>>

\* Mutant of ReadLookup: a payment the wallet knows of counts as settled.
ReadLookupKnown(p) ==
  LET known == wallet[payer[p].h]
  IN /\ payer[p].at = "lookup"
     /\ PayerAt(p, CASE known \in {"asked", "paid"} -> "persist" [] known = "refused" -> "fail"
                     [] OTHER -> "doubt")
     /\ UNCHANGED <<wire, lnpay, wallet, sent>>

\* What lookup_invoice says now: settled with the preimage, failed, or pending
\* and not found; any other error of the wallet counts as failed, and without an
\* answer of use the outcome stays open.
ReadLookup(p) ==
  LET known == wallet[payer[p].h]
  IN /\ payer[p].at = "lookup"
     /\ \/ PayerAt(p, CASE known = "paid" -> "persist" [] known = "refused" -> "fail"
                        [] OTHER -> "doubt")
        \/ PayerAt(p, "fail")
        \/ PayerAt(p, "unsure")
     /\ UNCHANGED <<wire, lnpay, wallet, sent>>

\* A lookup without a result writes uncertain whatever the status is now.
KeepUncertain(p) ==
  /\ payer[p].at = "doubt"
  /\ lnpay' = [lnpay EXCEPT ![payer[p].h].status = "uncertain", ![payer[p].h].leased = FALSE]
  /\ PayerDone(p)
  /\ UNCHANGED <<wire, wallet, sent>>

PaymentLeaseLapses(h) ==
  /\ lnpay[h].leased
  /\ lnpay' = [lnpay EXCEPT ![h].leased = FALSE]
  /\ UNCHANGED <<wire, wallet, sent, payer>>

CrashPayer(p) ==
  /\ payer[p].at # "idle"
  /\ PayerDone(p)
  /\ UNCHANGED <<wire, lnpay, wallet, sent>>
-----------------------------------------------------------------------------
PayerStep(p) ==
  \/ FindExisting(p) \/ CreatePayment(p) \/ QuoteInvoice(p) \/ SendPayInvoice(p)
  \/ ReadPayAnswer(p) \/ PersistNwcSuccess(p) \/ MarkNwcUncertain(p) \/ MarkNwcFailed(p)
  \/ ReconcilePayment(p) \/ ReadLookup(p) \/ KeepUncertain(p) \/ CrashPayer(p)

NwcNext ==
  \/ \E c \in Wire : \/ \E lookup \in BOOLEAN, mode \in Mode : PairNwcConnection(c, lookup, mode)
                     \/ DisconnectNwcConnection(c)
  \/ \E p \in Payer, c \in Wire, h \in Invoice :
       \/ \E k \in PayKey, mode \in Mode : PayNwcInvoice(p, c, h, k, mode)
       \/ GetNwcPaymentStatus(p, c, h)
  \/ \E p \in Payer : PayerStep(p)
  \/ \E h \in Invoice : WalletActs(h) \/ PaymentLeaseLapses(h)

NwcSpec == NwcInit /\ [][NwcNext]_nwcVars
-----------------------------------------------------------------------------
\* The documents hold statuses of their schemas and every request is at a step
\* of its handler.
NwcTypeOK ==
  /\ wire \in [Wire -> WireRecord]
  /\ lnpay \in [Invoice -> LnpayRecord]
  /\ wallet \in [Invoice -> {"none", "asked", "paid", "refused"}]
  /\ sent \in [Invoice -> 0..2]
  /\ payer \in [Payer -> PayerRecord]

\* The document on NWC says that pay_invoice is not submitted again until the
\* outcome is known: whatever key, connection, retry or crash, one invoice is
\* sent to the wallet at most once.
InvoiceSentOnce == \A h \in Invoice : sent[h] <= 1

\* A payment that says succeeded was paid by the wallet, also after a lookup that
\* raced the payment.
NwcSuccessIsPaid == \A h \in Invoice : lnpay[h].status = "succeeded" => wallet[h] = "paid"
=============================================================================
