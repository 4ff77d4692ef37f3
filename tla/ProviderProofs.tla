--------------------------- MODULE ProviderProofs ---------------------------
(***************************************************************************)
(* Payments through a Nostr wallet, a BTCPay store and Bitcoin Core, for   *)
(* any number of requests, invoices, keys and coins: nothing is sent or    *)
(* billed twice, and what is stored as paid was paid.  The CKB vault, for  *)
(* any deposits, requests and transfers: a deposit is credited once, and   *)
(* what users deposited is live or was paid out.                           *)
(***************************************************************************)
EXTENDS MCProviderPayments, TotalsProofs

\* A request between the creation of its payment and pay_invoice.
Paying == {"quote", "send"}

\* A request that is about to pay is the only one for its invoice, which was not
\* sent yet; one that is about to store a success has its proof.
PayersSound ==
  /\ \A p \in Payer : payer[p].at \in Paying =>
       lnpay[payer[p].h].status # "none" /\ sent[payer[p].h] = 0
  /\ \A p, q \in Payer :
       payer[p].at \in Paying /\ payer[q].at \in Paying /\ payer[p].h = payer[q].h => p = q
  /\ \A p \in Payer : payer[p].at = "persist" => wallet[payer[p].h] = "paid"

\* The inductive invariant of the wallet payments.
NwcInv ==
  /\ NwcTypeOK
  /\ \A h \in Invoice : lnpay[h].status = "none" => sent[h] = 0
  /\ InvoiceSentOnce
  /\ NwcSuccessIsPaid
  /\ PayersSound

\* An idle request is typed.
LEMMA IdlePayerTyped == IdlePayer \in PayerRecord /\ IdlePayer.at = "idle"
<1>1. AnyWire \in Wire /\ AnyInvoice \in Invoice /\ AnyKey \in PayKey
  BY NwcAssumption DEF AnyWire, AnyInvoice, AnyKey
<1> QED BY <1>1 DEF IdlePayer, PayerRecord, Mode

\* Initially no invoice was paid.
LEMMA NwcInitial == NwcInit => NwcInv
<1> SUFFICES ASSUME NwcInit PROVE NwcInv
  OBVIOUS
<1>1. NoLnpay \in LnpayRecord /\ NoLnpay.status = "none"
  BY NwcAssumption DEF NoLnpay, LnpayRecord, AnyWire, AnyKey, Mode
<1>2. NwcTypeOK
  BY <1>1, IdlePayerTyped DEF NwcInit, NwcTypeOK, WireRecord, Mode
<1>3. InvoiceSentOnce /\ NwcSuccessIsPaid
  BY <1>1 DEF NwcInit, InvoiceSentOnce, NwcSuccessIsPaid
<1>4. PayersSound
  BY IdlePayerTyped DEF NwcInit, PayersSound, Paying
<1> QED BY <1>2, <1>3, <1>4 DEF NwcInv, NwcInit

\* A request that moves on, with everything else as it was: it may not begin to
\* pay, and stores a success only with a proof.
LEMMA PayerMoves ==
  ASSUME NwcInv, NEW p \in Payer, NEW r \in PayerRecord,
         payer' = [payer EXCEPT ![p] = r], UNCHANGED <<wire, lnpay, wallet, sent>>,
         r.at \in Paying => payer[p].at \in Paying /\ r.h = payer[p].h,
         r.at = "persist" => wallet[r.h] = "paid"
  PROVE  NwcInv'
<1>1. NwcTypeOK'
  BY DEF NwcInv, NwcTypeOK
<1>2. \A q \in Payer : payer'[q] = IF q = p THEN r ELSE payer[q]
  BY DEF NwcInv, NwcTypeOK
<1>3. PayersSound'
  BY <1>2 DEF NwcInv, PayersSound
<1> QED BY <1>1, <1>3 DEF NwcInv, InvoiceSentOnce, NwcSuccessIsPaid

\* A request that moves on to a step that neither pays nor stores a success.
LEMMA PayerGoes ==
  ASSUME NwcInv, NEW p \in Payer, UNCHANGED <<wire, lnpay, wallet, sent>>,
         \/ PayerDone(p)
         \/ \E at \in {"create", "wait", "unsure", "fail", "reconcile", "lookup", "doubt"} :
              PayerAt(p, at)
         \/ PayerAt(p, "send") /\ payer[p].at = "quote"
         \/ PayerAt(p, "persist") /\ wallet[payer[p].h] = "paid"
  PROVE  NwcInv'
<1>1. payer \in [Payer -> PayerRecord]
  BY DEF NwcInv, NwcTypeOK
<1>2. CASE PayerDone(p)
  BY <1>2, IdlePayerTyped, PayerMoves DEF PayerDone, Paying
<1>3. ASSUME NEW at \in {"create", "wait", "unsure", "fail", "reconcile", "lookup", "doubt",
                         "send", "persist"},
             PayerAt(p, at), at = "send" => payer[p].at = "quote",
             at = "persist" => wallet[payer[p].h] = "paid"
      PROVE  NwcInv'
  <2> DEFINE r == [payer[p] EXCEPT !.at = at]
  <2>1. r \in PayerRecord /\ r.at = at /\ r.h = payer[p].h
    BY <1>1 DEF PayerRecord
  <2>2. payer' = [payer EXCEPT ![p] = r]
    BY <1>3 DEF PayerAt
  <2> HIDE DEF r
  <2> QED BY <1>3, <2>1, <2>2, PayerMoves DEF Paying
<1> QED BY <1>2, <1>3

\* A payment document that is written by a request that is done with it, or whose
\* lease lapses.
LEMMA LnpayWritten ==
  ASSUME NwcInv, NEW h \in Invoice, NEW doc \in LnpayRecord,
         lnpay' = [lnpay EXCEPT ![h] = doc], UNCHANGED <<wire, wallet, sent>>,
         doc.status = "none" => lnpay[h].status = "none",
         doc.status = "succeeded" => wallet[h] = "paid",
         payer' = payer \/ \E p \in Payer : PayerDone(p)
  PROVE  NwcInv'
<1>1. NwcTypeOK'
  BY IdlePayerTyped DEF NwcInv, NwcTypeOK, PayerDone
<1>2. \A g \in Invoice : lnpay'[g] = IF g = h THEN doc ELSE lnpay[g]
  BY DEF NwcInv, NwcTypeOK
<1>3. /\ \A g \in Invoice : lnpay'[g].status = "none" => sent'[g] = 0
      /\ InvoiceSentOnce' /\ NwcSuccessIsPaid'
  BY <1>2 DEF NwcInv, InvoiceSentOnce, NwcSuccessIsPaid
<1>4. \A q \in Payer : payer'[q] = payer[q] \/ payer'[q] = IdlePayer
  BY DEF NwcInv, NwcTypeOK, PayerDone
<1>5. PayersSound'
  <2>1. \A q \in Payer : payer[q].h \in Invoice
    BY DEF NwcInv, NwcTypeOK, PayerRecord
  <2> QED BY <1>2, <1>4, <2>1, IdlePayerTyped DEF NwcInv, PayersSound, Paying
<1> QED BY <1>1, <1>3, <1>5 DEF NwcInv

\* Creating the payment: the unique index on the payment hash leaves the request
\* alone with an invoice that nobody has sent.
LEMMA CreatePaymentKeeps ==
  ASSUME NwcInv, NEW p \in Payer, CreatePayment(p)
  PROVE  NwcInv'
<1> DEFINE h == payer[p].h
           doc == [status |-> "pending", c |-> payer[p].c, k |-> payer[p].k,
                   mode |-> payer[p].mode, leased |-> TRUE]
           r == [payer[p] EXCEPT !.at = "quote"]
<1>1. payer \in [Payer -> PayerRecord] /\ lnpay \in [Invoice -> LnpayRecord]
  BY DEF NwcInv, NwcTypeOK
<1>2. CASE Matches(p) # {}
  BY <1>2, PayerGoes DEF CreatePayment
<1>3. CASE Matches(p) = {}
  <2>1. /\ h \in Invoice /\ doc \in LnpayRecord /\ doc.status = "pending"
        /\ r \in PayerRecord /\ r.at = "quote" /\ r.h = h
    BY <1>1 DEF PayerRecord, LnpayRecord
  <2>2. /\ lnpay' = [lnpay EXCEPT ![h] = doc] /\ payer' = [payer EXCEPT ![p] = r]
        /\ UNCHANGED <<wire, wallet, sent>>
    BY <1>3 DEF CreatePayment, PayerAt
  <2>3. lnpay[h].status = "none"
    BY <1>3, <2>1 DEF Matches
  <2> HIDE DEF doc, r
  <2>4. /\ \A g \in Invoice : lnpay'[g] = IF g = h THEN doc ELSE lnpay[g]
        /\ \A q \in Payer : payer'[q] = IF q = p THEN r ELSE payer[q]
    BY <1>1, <2>2
  <2>5. NwcTypeOK'
    BY <2>1, <2>2 DEF NwcInv, NwcTypeOK
  <2>6. /\ \A g \in Invoice : lnpay'[g].status = "none" => sent'[g] = 0
        /\ InvoiceSentOnce' /\ NwcSuccessIsPaid'
    BY <2>1, <2>2, <2>4 DEF NwcInv, InvoiceSentOnce, NwcSuccessIsPaid
  <2>7. /\ sent[h] = 0
        /\ \A q \in Payer : payer[q].at \in Paying => payer[q].h # h
    BY <2>1, <2>3 DEF NwcInv, PayersSound
  <2> HIDE DEF h
  <2>8. PayersSound'
    <3>1. \A q \in Payer : payer'[q].at \in Paying =>
            lnpay'[payer'[q].h].status # "none" /\ sent'[payer'[q].h] = 0
      <4> SUFFICES ASSUME NEW q \in Payer, payer'[q].at \in Paying
                   PROVE  lnpay'[payer'[q].h].status # "none" /\ sent'[payer'[q].h] = 0
        OBVIOUS
      <4>1. CASE q = p
        BY <2>1, <2>2, <2>4, <2>7, <4>1
      <4>2. CASE q # p
        <5>1. payer[q].h \in Invoice
          BY <1>1 DEF PayerRecord
        <5> QED BY <2>2, <2>4, <2>7, <4>2, <5>1 DEF NwcInv, PayersSound
      <4> QED BY <4>1, <4>2
    <3>2. \A q, s \in Payer : payer'[q].at \in Paying /\ payer'[s].at \in Paying
                                /\ payer'[q].h = payer'[s].h => q = s
      BY <2>1, <2>4, <2>7 DEF NwcInv, PayersSound
    <3>3. \A q \in Payer : payer'[q].at = "persist" => wallet'[payer'[q].h] = "paid"
      BY <2>1, <2>2, <2>4 DEF NwcInv, PayersSound
    <3> QED BY <3>1, <3>2, <3>3 DEF PayersSound
  <2> QED BY <2>5, <2>6, <2>8 DEF NwcInv
<1> QED BY <1>2, <1>3

\* pay_invoice goes out: the request leaves the section it was alone in.
LEMMA SendPayKeeps ==
  ASSUME NwcInv, NEW p \in Payer, SendPayInvoice(p)
  PROVE  NwcInv'
<1> DEFINE h == payer[p].h
           r == [payer[p] EXCEPT !.at = "wait"]
<1>1. /\ payer \in [Payer -> PayerRecord] /\ lnpay \in [Invoice -> LnpayRecord]
      /\ wallet \in [Invoice -> {"none", "asked", "paid", "refused"}]
      /\ sent \in [Invoice -> 0..2] /\ h \in Invoice
  BY DEF NwcInv, NwcTypeOK, PayerRecord
<1>2. payer[p].at = "send" /\ UNCHANGED <<wire, lnpay>>
  BY DEF SendPayInvoice
<1>3. CASE UNCHANGED <<sent, wallet>> /\ PayerAt(p, Vague(p))
  BY <1>2, <1>3, PayerGoes DEF Vague
<1>4. CASE /\ sent' = [sent EXCEPT ![h] = IF @ < 2 THEN @ + 1 ELSE @]
           /\ wallet' = [wallet EXCEPT ![h] = IF @ = "none" THEN "asked" ELSE @]
           /\ PayerAt(p, "wait")
  <2>1. sent[h] = 0 /\ lnpay[h].status # "none"
    BY <1>2 DEF NwcInv, PayersSound, Paying
  <2>2. sent'[h] = 1 /\ \A g \in Invoice \ {h} : sent'[g] = sent[g]
    BY <1>1, <1>4, <2>1
  <2>3. /\ \A g \in Invoice : wallet[g] = "paid" => wallet'[g] = "paid"
        /\ wallet' \in [Invoice -> {"none", "asked", "paid", "refused"}]
        /\ sent' \in [Invoice -> 0..2]
    BY <1>1, <1>4
  <2>4. r \in PayerRecord /\ r.at = "wait" /\ payer' = [payer EXCEPT ![p] = r]
    BY <1>1, <1>4 DEF PayerAt, PayerRecord
  <2> HIDE DEF r
  <2>5. NwcTypeOK'
    BY <1>2, <2>3, <2>4 DEF NwcInv, NwcTypeOK
  <2>6. \A q \in Payer : payer'[q] = IF q = p THEN r ELSE payer[q]
    BY <1>1, <2>4
  <2>7. /\ \A g \in Invoice : lnpay'[g].status = "none" => sent'[g] = 0
        /\ InvoiceSentOnce' /\ NwcSuccessIsPaid'
    BY <1>2, <2>1, <2>2, <2>3 DEF NwcInv, InvoiceSentOnce, NwcSuccessIsPaid
  <2>8. \A q \in Payer \ {p} : payer[q].at \in Paying => payer[q].h # h
    BY <1>2 DEF NwcInv, PayersSound, Paying
  <2>9. \A q \in Payer : payer[q].h \in Invoice
    BY <1>1 DEF PayerRecord
  <2> HIDE DEF h
  <2>10. PayersSound'
    BY <1>2, <2>2, <2>3, <2>4, <2>6, <2>8, <2>9 DEF NwcInv, PayersSound, Paying
  <2> QED BY <2>5, <2>7, <2>10 DEF NwcInv
<1> QED BY <1>3, <1>4 DEF SendPayInvoice

\* The steps that store what a request found out.
LEMMA StoringKeeps ==
  ASSUME NwcInv, NEW p \in Payer,
         PersistNwcSuccess(p) \/ MarkNwcUncertain(p) \/ MarkNwcFailed(p) \/ KeepUncertain(p)
  PROVE  NwcInv'
<1> DEFINE h == payer[p].h
<1>1. /\ lnpay \in [Invoice -> LnpayRecord] /\ h \in Invoice /\ lnpay[h] \in LnpayRecord
  BY DEF NwcInv, NwcTypeOK, PayerRecord
<1>2. PayerDone(p) /\ UNCHANGED <<wire, wallet, sent>>
  BY DEF PersistNwcSuccess, MarkNwcUncertain, MarkNwcFailed, KeepUncertain
<1>3. ASSUME NEW status \in {"succeeded", "uncertain", "failed"},
             lnpay' = [lnpay EXCEPT ![h].status = status, ![h].leased = FALSE],
             status = "succeeded" => wallet[h] = "paid"
      PROVE  NwcInv'
  <2> DEFINE doc == [lnpay[h] EXCEPT !.status = status, !.leased = FALSE]
  <2>1. doc \in LnpayRecord /\ doc.status = status
    BY <1>1 DEF LnpayRecord
  <2>2. lnpay' = [lnpay EXCEPT ![h] = doc]
    BY <1>1, <1>3
  <2> HIDE DEF doc, h
  <2> QED BY <1>1, <1>2, <1>3, <2>1, <2>2, LnpayWritten
<1>4. CASE lnpay' = lnpay
  BY <1>2, <1>4, PayerGoes
<1>5. CASE PersistNwcSuccess(p)
  <2>1. wallet[h] = "paid"
    BY <1>5 DEF PersistNwcSuccess, NwcInv, PayersSound
  <2> QED BY <1>3, <1>4, <1>5, <2>1 DEF PersistNwcSuccess, SetUnknown
<1>6. CASE MarkNwcUncertain(p) \/ MarkNwcFailed(p) \/ KeepUncertain(p)
  BY <1>3, <1>4, <1>6 DEF MarkNwcUncertain, MarkNwcFailed, KeepUncertain, SetUnknown
<1> QED BY <1>5, <1>6

\* The owner pairs or disconnects, the wallet decides, a lease lapses.
LEMMA AroundKeeps ==
  ASSUME NwcInv,
         \/ \E c \in Wire : \/ \E lookup \in BOOLEAN, mode \in Mode :
                                 PairNwcConnection(c, lookup, mode)
                            \/ DisconnectNwcConnection(c)
         \/ \E h \in Invoice : WalletActs(h) \/ PaymentLeaseLapses(h)
  PROVE  NwcInv'
<1>1. ASSUME wire' \in [Wire -> WireRecord], UNCHANGED <<lnpay, wallet, sent, payer>>
      PROVE  NwcInv'
  BY <1>1 DEF NwcInv, NwcTypeOK, InvoiceSentOnce, NwcSuccessIsPaid, PayersSound
<1>2. ASSUME NEW c \in Wire, NEW lookup \in BOOLEAN, NEW mode \in Mode,
             PairNwcConnection(c, lookup, mode)
      PROVE  NwcInv'
  BY <1>1, <1>2 DEF PairNwcConnection, NwcInv, NwcTypeOK, WireRecord
<1>3. ASSUME NEW c \in Wire, DisconnectNwcConnection(c) PROVE NwcInv'
  BY <1>1, <1>3 DEF DisconnectNwcConnection, NwcInv, NwcTypeOK, WireRecord
<1>4. ASSUME NEW h \in Invoice, WalletActs(h) PROVE NwcInv'
  <2>1. /\ UNCHANGED <<wire, lnpay, sent, payer>>
        /\ \A g \in Invoice : wallet[g] = "paid" => wallet'[g] = "paid"
        /\ wallet' \in [Invoice -> {"none", "asked", "paid", "refused"}]
    BY <1>4 DEF WalletActs, NwcInv, NwcTypeOK
  <2>2. \A q \in Payer : payer[q].h \in Invoice
    BY DEF NwcInv, NwcTypeOK, PayerRecord
  <2>3. PayersSound'
    BY <2>1, <2>2 DEF NwcInv, PayersSound
  <2> QED BY <2>1, <2>3 DEF NwcInv, NwcTypeOK, InvoiceSentOnce, NwcSuccessIsPaid
<1>5. ASSUME NEW h \in Invoice, PaymentLeaseLapses(h) PROVE NwcInv'
  <2> DEFINE doc == [lnpay[h] EXCEPT !.leased = FALSE]
  <2>1. /\ doc \in LnpayRecord /\ doc.status = lnpay[h].status
        /\ lnpay' = [lnpay EXCEPT ![h] = doc] /\ UNCHANGED <<wire, wallet, sent, payer>>
    <3>1. lnpay \in [Invoice -> LnpayRecord] /\ lnpay[h] \in LnpayRecord
      BY DEF NwcInv, NwcTypeOK
    <3>2. doc \in LnpayRecord /\ doc.status = lnpay[h].status
      BY <3>1 DEF LnpayRecord
    <3>3. lnpay' = [lnpay EXCEPT ![h] = doc] /\ UNCHANGED <<wire, wallet, sent, payer>>
      BY <1>5, <3>1 DEF PaymentLeaseLapses
    <3> QED BY <3>2, <3>3
  <2>2. doc.status = "succeeded" => wallet[h] = "paid"
    BY <2>1 DEF NwcInv, NwcSuccessIsPaid
  <2> HIDE DEF doc
  <2> QED BY <2>1, <2>2, LnpayWritten
<1> QED BY <1>2, <1>3, <1>4, <1>5

\* The beginnings of a request, and the answers it reads.
LEMMA AskingKeeps ==
  ASSUME NwcInv, NEW p \in Payer,
         \/ \E c \in Wire, h \in Invoice :
              \/ \E k \in PayKey, mode \in Mode : PayNwcInvoice(p, c, h, k, mode)
              \/ GetNwcPaymentStatus(p, c, h)
         \/ FindExisting(p) \/ QuoteInvoice(p) \/ ReadPayAnswer(p) \/ ReconcilePayment(p)
         \/ ReadLookup(p) \/ CrashPayer(p)
  PROVE  NwcInv'
<1>1. ASSUME NEW c \in Wire, NEW h \in Invoice, NEW k \in PayKey, NEW mode \in Mode,
             PayNwcInvoice(p, c, h, k, mode)
      PROVE  NwcInv'
  <2> DEFINE r == [at |-> "find", c |-> c, h |-> h, k |-> k, mode |-> mode,
                   lookup |-> wire[c].lookup]
  <2>1. /\ r \in PayerRecord /\ r.at = "find" /\ payer' = [payer EXCEPT ![p] = r]
        /\ UNCHANGED <<wire, lnpay, wallet, sent>>
    BY <1>1 DEF PayNwcInvoice, NwcInv, NwcTypeOK, WireRecord, PayerRecord
  <2> HIDE DEF r
  <2> QED BY <2>1, PayerMoves DEF Paying
<1>2. ASSUME NEW c \in Wire, NEW h \in Invoice, GetNwcPaymentStatus(p, c, h) PROVE NwcInv'
  <2> DEFINE r == [IdlePayer EXCEPT !.at = "reconcile", !.c = c, !.h = h]
  <2>1. /\ r \in PayerRecord /\ r.at = "reconcile" /\ payer' = [payer EXCEPT ![p] = r]
        /\ UNCHANGED <<wire, lnpay, wallet, sent>>
    BY <1>2, IdlePayerTyped DEF GetNwcPaymentStatus, PayerRecord
  <2> HIDE DEF r
  <2> QED BY <2>1, PayerMoves DEF Paying
<1>3. CASE FindExisting(p) \/ QuoteInvoice(p) \/ ReconcilePayment(p) \/ CrashPayer(p)
  BY <1>3, PayerGoes DEF FindExisting, QuoteInvoice, ReconcilePayment, CrashPayer
<1>4. CASE ReadPayAnswer(p)
  <2>1. UNCHANGED <<wire, lnpay, wallet, sent>>
    BY <1>4 DEF ReadPayAnswer
  <2>2. \/ PayerAt(p, "persist") /\ wallet[payer[p].h] = "paid"
        \/ PayerAt(p, "fail") \/ PayerAt(p, "unsure")
    <3>1. PICK answer \in RelayAnswers(payer[p].h) :
            CASE answer = "paid" -> PayerAt(p, "persist")
              [] answer = "refused" -> PayerAt(p, "fail") \/ PayerAt(p, Vague(p))
              [] answer = "useless" -> PayerAt(p, Vague(p))
              [] answer = "timeout" -> PayerAt(p, "unsure")
      BY <1>4 DEF ReadPayAnswer
    <3>2. answer = "paid" => wallet[payer[p].h] = "paid"
      BY DEF RelayAnswers
    <3>3. answer \in {"paid", "refused", "useless", "timeout"}
      BY DEF RelayAnswers
    <3>4. Vague(p) \in {"unsure", "fail"}
      BY DEF Vague
    <3>5. CASE answer = "paid"
      BY <3>1, <3>2, <3>5
    <3>6. CASE answer = "refused"
      BY <3>1, <3>4, <3>6
    <3>7. CASE answer = "useless"
      BY <3>1, <3>4, <3>7
    <3>8. CASE answer = "timeout"
      BY <3>1, <3>8
    <3> QED BY <3>3, <3>5, <3>6, <3>7, <3>8
  <2> QED BY <2>1, <2>2, PayerGoes
<1>5. CASE ReadLookup(p)
  <2>1. UNCHANGED <<wire, lnpay, wallet, sent>>
    BY <1>5 DEF ReadLookup
  <2>2. \/ PayerAt(p, "persist") /\ wallet[payer[p].h] = "paid"
        \/ PayerAt(p, "fail") \/ PayerAt(p, "unsure") \/ PayerAt(p, "doubt")
    BY <1>5 DEF ReadLookup
  <2> QED BY <2>1, <2>2, PayerGoes
<1> QED BY <1>1, <1>2, <1>3, <1>4, <1>5

\* Every step of the wallet payments keeps the invariant.
LEMMA NwcStepKeeps == NwcInv /\ [NwcNext]_nwcVars => NwcInv'
<1> SUFFICES ASSUME NwcInv, [NwcNext]_nwcVars PROVE NwcInv'
  OBVIOUS
<1>1. CASE UNCHANGED nwcVars
  BY <1>1 DEF nwcVars, NwcInv, NwcTypeOK, InvoiceSentOnce, NwcSuccessIsPaid, PayersSound
<1>2. ASSUME NEW p \in Payer, PayerStep(p) PROVE NwcInv'
  BY <1>2, CreatePaymentKeeps, SendPayKeeps, StoringKeeps, AskingKeeps DEF PayerStep
<1> QED BY <1>1, <1>2, AskingKeeps, AroundKeeps DEF NwcNext

\* Whatever requests, keys, connections, retries, lookups and crashes cross, an
\* invoice is sent to the wallet at most once, and a payment that says succeeded was
\* paid.
THEOREM NwcCorrect == NwcSpec => [](NwcTypeOK /\ InvoiceSentOnce /\ NwcSuccessIsPaid)
<1>1. NwcInv => NwcTypeOK /\ InvoiceSentOnce /\ NwcSuccessIsPaid
  BY DEF NwcInv
<1> QED BY <1>1, NwcInitial, NwcStepKeeps, PTL DEF NwcSpec
-----------------------------------------------------------------------------
\* A request between the creation of its payment and the call of the node, one with
\* an invoice's status in hand, and one that is none of these.
Sending == {"quote", "send"}
Holding == {"finish", "keep"}
Open == {"pending", "uncertain", "succeeded", "failed"}
Harmless(at) == at \notin {"post", "record"} \cup Sending \cup Holding

\* What the node must have done for an outcome that was read of it.
Answered(h, s) ==
  /\ s \in Open
  /\ s = "succeeded" => node[h] = "paid"
  /\ s = "failed" => node[h] = "refused"

\* A request that is about to create an invoice has reserved it alone, and the
\* server was never asked for it; a status in hand was the server's.
BillersSound ==
  /\ \A p \in Clerk : clerk[p].at = "post" =>
       /\ bill[clerk[p].b].creation # "none"
       /\ remote[clerk[p].b].mail + remote[clerk[p].b].count = 0
  /\ \A p, q \in Clerk :
       clerk[p].at = "post" /\ clerk[q].at = "post" /\ clerk[p].b = clerk[q].b => p = q
  /\ \A p \in Clerk : clerk[p].at \in Holding =>
       /\ clerk[p].seen \in BillStatus
       /\ clerk[p].seen = "settled" => remote[clerk[p].b].status = "settled"

\* A request that is about to pay is the only one for its invoice, which was never
\* tried; an outcome in hand is the node's.
SendersSound ==
  /\ \A p \in Clerk : clerk[p].at \in Sending =>
       storepay[clerk[p].h].status # "none" /\ tried[clerk[p].h] = 0
  /\ \A p, q \in Clerk :
       clerk[p].at \in Sending /\ clerk[q].at \in Sending /\ clerk[p].h = clerk[q].h => p = q
  /\ \A p \in Clerk : clerk[p].at = "record" => Answered(clerk[p].h, clerk[p].seen)

\* The inductive invariant of the store.
BtcpayInv ==
  /\ BtcpayTypeOK
  /\ \A b \in BillKey : bill[b].creation = "none" => remote[b].mail + remote[b].count = 0
  /\ BilledOnce /\ SettledBillIsPaid
  /\ \A h \in Bolt11 : storepay[h].status = "none" => tried[h] = 0
  /\ StorePaysOnce
  /\ BillersSound /\ SendersSound

\* An idle request is typed.
LEMMA IdleClerkTyped == IdleClerk \in ClerkRecord /\ IdleClerk.at = "idle"
<1>1. AnyBill \in BillKey /\ AnyBolt \in Bolt11 /\ AnyStoreKey \in StoreKey
  BY BtcpayAssumption DEF AnyBill, AnyBolt, AnyStoreKey
<1> QED BY <1>1 DEF IdleClerk, ClerkRecord, BillStatus

\* Initially nothing was billed or paid.
LEMMA BtcpayInitial == BtcpayInit => BtcpayInv
<1> SUFFICES ASSUME BtcpayInit PROVE BtcpayInv
  OBVIOUS
<1>1. AnyStoreKey \in StoreKey
  BY BtcpayAssumption DEF AnyStoreKey
<1>2. BtcpayTypeOK
  BY <1>1, IdleClerkTyped
     DEF BtcpayInit, BtcpayTypeOK, BillRecord, BillStatus, RemoteRecord, StorepayRecord
<1>3. \A b \in BillKey : /\ remote[b].mail = 0 /\ remote[b].count = 0
                         /\ bill[b].status = "new"
  BY DEF BtcpayInit
<1>4. \A h \in Bolt11 : tried[h] = 0 /\ storepay[h].status = "none"
  BY DEF BtcpayInit
<1>5. \A p \in Clerk : clerk[p].at = "idle"
  BY IdleClerkTyped DEF BtcpayInit
<1>6. BillersSound /\ SendersSound
  BY <1>5 DEF BillersSound, SendersSound, Holding, Sending
<1> QED BY <1>2, <1>3, <1>4, <1>6 DEF BtcpayInv, BilledOnce, SettledBillIsPaid, StorePaysOnce

\* The keys of a request are keys, and one request moves at a time.
LEMMA ClerkTyped ==
  ASSUME BtcpayInv
  PROVE  /\ clerk \in [Clerk -> ClerkRecord]
         /\ \A p \in Clerk : /\ clerk[p] \in ClerkRecord /\ clerk[p].b \in BillKey
                             /\ clerk[p].h \in Bolt11 /\ clerk[p].k \in StoreKey
BY DEF BtcpayInv, BtcpayTypeOK, ClerkRecord

\* A request that moves on, with everything else as it was.
LEMMA ClerkMoves ==
  ASSUME BtcpayInv, NEW p \in Clerk, NEW r \in ClerkRecord,
         clerk' = [clerk EXCEPT ![p] = r],
         UNCHANGED <<store, bill, remote, storepay, node, tried>>,
         r.at # "post",
         r.at \in Holding => /\ r.seen \in BillStatus
                             /\ r.seen = "settled" => remote[r.b].status = "settled",
         r.at \in Sending => clerk[p].at \in Sending /\ r.h = clerk[p].h,
         r.at = "record" => Answered(r.h, r.seen)
  PROVE  BtcpayInv'
<1>1. BtcpayTypeOK'
  BY DEF BtcpayInv, BtcpayTypeOK
<1>2. \A q \in Clerk : clerk'[q] = IF q = p THEN r ELSE clerk[q]
  BY ClerkTyped
<1>3. BillersSound'
  BY <1>2 DEF BtcpayInv, BillersSound
<1>5. SendersSound'
  BY <1>2 DEF BtcpayInv, SendersSound, Answered
<1> QED BY <1>1, <1>3, <1>5 DEF BtcpayInv, BilledOnce, SettledBillIsPaid, StorePaysOnce

\* A request that goes to a step without a promise.
LEMMA ClerkGoes ==
  ASSUME BtcpayInv, NEW p \in Clerk, UNCHANGED <<store, bill, remote, storepay, node, tried>>,
         \/ ClerkDone(p)
         \/ \E at \in {"reserve", "posted", "doubt", "recover", "cloud", "fetch", "create",
                       "wait", "unsure", "lookup"} : ClerkAt(p, at)
         \/ ClerkAt(p, "send") /\ clerk[p].at = "quote"
  PROVE  BtcpayInv'
<1>1. CASE ClerkDone(p)
  BY <1>1, IdleClerkTyped, ClerkMoves DEF ClerkDone, Holding, Sending
<1>2. ASSUME NEW at \in {"reserve", "posted", "doubt", "recover", "cloud", "fetch", "create",
                         "wait", "unsure", "lookup", "send"},
             ClerkAt(p, at), at = "send" => clerk[p].at = "quote"
      PROVE  BtcpayInv'
  <2> DEFINE r == [clerk[p] EXCEPT !.at = at]
  <2>1. r \in ClerkRecord /\ r.at = at /\ r.h = clerk[p].h
    BY ClerkTyped DEF ClerkRecord
  <2>2. clerk' = [clerk EXCEPT ![p] = r]
    BY <1>2 DEF ClerkAt
  <2> HIDE DEF r
  <2> QED BY <1>2, <2>1, <2>2, ClerkMoves DEF Holding, Sending
<1> QED BY <1>1, <1>2

\* An invoice document that is written, by a request that is done with it or when
\* its lease lapses.
LEMMA BillWritten ==
  ASSUME BtcpayInv, NEW b \in BillKey, NEW doc \in BillRecord,
         bill' = [bill EXCEPT ![b] = doc], UNCHANGED <<store, remote, storepay, node, tried>>,
         doc.creation = "none" => bill[b].creation = "none",
         doc.status = "settled" => remote[b].status = "settled",
         \/ clerk' = clerk
         \/ \E p \in Clerk, r \in ClerkRecord :
              Harmless(r.at) /\ clerk' = [clerk EXCEPT ![p] = r]
  PROVE  BtcpayInv'
<1>1. BtcpayTypeOK'
  BY DEF BtcpayInv, BtcpayTypeOK
<1>2. \A a \in BillKey : bill'[a] = IF a = b THEN doc ELSE bill[a]
  BY DEF BtcpayInv, BtcpayTypeOK
<1>3. \A q \in Clerk : clerk'[q] = clerk[q] \/ Harmless(clerk'[q].at)
  BY ClerkTyped
<1>4. BillersSound'
  BY <1>2, <1>3, ClerkTyped DEF BtcpayInv, BillersSound, Harmless
<1>5. SendersSound'
  BY <1>3 DEF BtcpayInv, SendersSound, Harmless, Answered
<1> QED BY <1>1, <1>2, <1>4, <1>5 DEF BtcpayInv, BilledOnce, SettledBillIsPaid, StorePaysOnce

\* The server creates an invoice it was asked for, or one of its invoices moves on;
\* what it has settled stays settled.
LEMMA RemoteWritten ==
  ASSUME BtcpayInv, NEW b \in BillKey, NEW there \in RemoteRecord,
         remote' = [remote EXCEPT ![b] = there],
         UNCHANGED <<store, bill, storepay, node, tried, clerk>>,
         there.mail + there.count = remote[b].mail + remote[b].count,
         remote[b].status = "settled" => there.status = "settled"
  PROVE  BtcpayInv'
<1>1. BtcpayTypeOK'
  BY DEF BtcpayInv, BtcpayTypeOK
<1>2. \A a \in BillKey : remote'[a] = IF a = b THEN there ELSE remote[a]
  BY DEF BtcpayInv, BtcpayTypeOK
<1>3. \A a \in BillKey : /\ remote'[a].mail + remote'[a].count = remote[a].mail + remote[a].count
                         /\ remote[a].status = "settled" => remote'[a].status = "settled"
  BY <1>2
<1>4. BillersSound'
  BY <1>3, ClerkTyped DEF BtcpayInv, BillersSound
<1>5. SendersSound'
  BY DEF BtcpayInv, SendersSound, Answered
<1> QED BY <1>1, <1>3, <1>4, <1>5 DEF BtcpayInv, BilledOnce, SettledBillIsPaid, StorePaysOnce

\* A payment document that is written by a request that is done with it, or whose
\* lease lapses.
LEMMA StorepayWritten ==
  ASSUME BtcpayInv, NEW h \in Bolt11, NEW doc \in StorepayRecord,
         storepay' = [storepay EXCEPT ![h] = doc], UNCHANGED <<store, bill, remote, node, tried>>,
         doc.status = "none" => storepay[h].status = "none",
         doc.status = "succeeded" => node[h] = "paid",
         doc.status = "failed" => node[h] = "refused",
         clerk' = clerk \/ \E p \in Clerk : ClerkDone(p)
  PROVE  BtcpayInv'
<1>1. BtcpayTypeOK'
  BY IdleClerkTyped DEF BtcpayInv, BtcpayTypeOK, ClerkDone
<1>2. \A g \in Bolt11 : storepay'[g] = IF g = h THEN doc ELSE storepay[g]
  BY DEF BtcpayInv, BtcpayTypeOK
<1>3. \A q \in Clerk : clerk'[q] = clerk[q] \/ clerk'[q].at = "idle"
  BY ClerkTyped, IdleClerkTyped DEF ClerkDone
<1>4. BillersSound'
  BY <1>3 DEF BtcpayInv, BillersSound, Holding
<1>5. SendersSound'
  BY <1>2, <1>3, ClerkTyped DEF BtcpayInv, SendersSound, Sending, Answered
<1> QED BY <1>1, <1>2, <1>4, <1>5 DEF BtcpayInv, BilledOnce, SettledBillIsPaid, StorePaysOnce

\* Reserving the local id: the unique key leaves the request alone with an invoice
\* the server was never asked for.
LEMMA ReserveBillKeeps ==
  ASSUME BtcpayInv, NEW p \in Clerk, ReserveBill(p), bill[clerk[p].b].creation = "none"
  PROVE  BtcpayInv'
<1> DEFINE b == clerk[p].b
           doc == [bill[b] EXCEPT !.creation = "creating", !.leased = TRUE]
           r == [clerk[p] EXCEPT !.at = "post"]
<1>1. /\ b \in BillKey /\ doc \in BillRecord /\ doc.creation = "creating"
      /\ doc.status = bill[b].status /\ bill' = [bill EXCEPT ![b] = doc]
  BY ClerkTyped DEF BtcpayInv, BtcpayTypeOK, BillRecord, ReserveBill
<1>2. r \in ClerkRecord /\ r.at = "post" /\ r.b = b /\ clerk' = [clerk EXCEPT ![p] = r]
  BY ClerkTyped DEF ClerkRecord, ReserveBill, ClerkAt
<1>3. UNCHANGED <<store, remote, storepay, node, tried>>
  BY DEF ReserveBill
<1>4. bill[b].creation = "none"
  OBVIOUS
<1> HIDE DEF doc, r, b
<1>5. /\ \A a \in BillKey : bill'[a] = IF a = b THEN doc ELSE bill[a]
      /\ \A q \in Clerk : clerk'[q] = IF q = p THEN r ELSE clerk[q]
  BY <1>1, <1>2, ClerkTyped DEF BtcpayInv, BtcpayTypeOK
<1>6. /\ remote[b].mail + remote[b].count = 0
      /\ \A q \in Clerk : clerk[q].at = "post" => clerk[q].b # b
  BY <1>1, <1>4 DEF BtcpayInv, BillersSound
<1>7. BtcpayTypeOK'
  BY <1>1, <1>2, <1>3 DEF BtcpayInv, BtcpayTypeOK
<1>8. BillersSound'
  <2>1. \A q \in Clerk : clerk'[q].at = "post" =>
          /\ bill'[clerk'[q].b].creation # "none"
          /\ remote'[clerk'[q].b].mail + remote'[clerk'[q].b].count = 0
    BY <1>1, <1>2, <1>3, <1>5, <1>6, ClerkTyped DEF BtcpayInv, BillersSound
  <2>2. \A q, s \in Clerk :
          clerk'[q].at = "post" /\ clerk'[s].at = "post" /\ clerk'[q].b = clerk'[s].b => q = s
    BY <1>2, <1>5, <1>6 DEF BtcpayInv, BillersSound
  <2>3. \A q \in Clerk : clerk'[q].at \in Holding =>
          /\ clerk'[q].seen \in BillStatus
          /\ clerk'[q].seen = "settled" => remote'[clerk'[q].b].status = "settled"
    BY <1>2, <1>3, <1>5 DEF BtcpayInv, BillersSound, Holding
  <2> QED BY <2>1, <2>2, <2>3 DEF BillersSound
<1>9. SendersSound'
  BY <1>2, <1>3, <1>5 DEF BtcpayInv, SendersSound, Sending, Answered
<1> QED BY <1>1, <1>3, <1>5, <1>7, <1>8, <1>9
           DEF BtcpayInv, BilledOnce, SettledBillIsPaid, StorePaysOnce

\* The create request goes out, once: the request leaves the section it was alone in.
LEMMA PostBillKeeps ==
  ASSUME BtcpayInv, NEW p \in Clerk, PostBill(p)
  PROVE  BtcpayInv'
<1> DEFINE b == clerk[p].b
           there == [remote[b] EXCEPT !.mail = Saturated(remote[b].mail)]
           r == [clerk[p] EXCEPT !.at = "posted"]
<1>1. clerk[p].at = "post" /\ UNCHANGED <<store, bill, storepay, node, tried>> /\ b \in BillKey
  BY ClerkTyped DEF PostBill
<1>2. CASE UNCHANGED remote /\ ClerkAt(p, "doubt")
  BY <1>1, <1>2, ClerkGoes
<1>3. CASE remote' = [remote EXCEPT ![b].mail = Saturated(@)] /\ ClerkAt(p, "posted")
  <2>1. remote[b] \in RemoteRecord /\ remote[b].mail + remote[b].count = 0
    BY <1>1 DEF BtcpayInv, BtcpayTypeOK, BillersSound
  <2>2. remote[b].mail = 0 /\ remote[b].count = 0
    BY <2>1 DEF RemoteRecord
  <2>3. /\ there \in RemoteRecord /\ there.mail = 1 /\ there.count = 0
        /\ there.status = remote[b].status
    BY <2>1, <2>2 DEF RemoteRecord, Saturated
  <2>4. remote' = [remote EXCEPT ![b] = there]
    BY <1>1, <1>3, <2>1 DEF BtcpayInv, BtcpayTypeOK, RemoteRecord
  <2>5. r \in ClerkRecord /\ r.at = "posted" /\ clerk' = [clerk EXCEPT ![p] = r]
    BY <1>3, ClerkTyped DEF ClerkRecord, ClerkAt
  <2>6. \A q \in Clerk \ {p} : clerk[q].at = "post" => clerk[q].b # b
    BY <1>1 DEF BtcpayInv, BillersSound
  <2>7. bill[b].creation # "none"
    BY <1>1 DEF BtcpayInv, BillersSound
  <2> HIDE DEF there, r, b
  <2>8. /\ \A a \in BillKey : remote'[a] = IF a = b THEN there ELSE remote[a]
        /\ \A q \in Clerk : clerk'[q] = IF q = p THEN r ELSE clerk[q]
    BY <2>4, <2>5, ClerkTyped DEF BtcpayInv, BtcpayTypeOK
  <2>9. BtcpayTypeOK'
    BY <1>1, <2>3, <2>4, <2>5 DEF BtcpayInv, BtcpayTypeOK
  <2>10. \A a \in BillKey : remote'[a].status = remote[a].status
    BY <2>3, <2>8
  <2>11. \A a \in BillKey : /\ bill'[a].creation = "none" => remote'[a].mail + remote'[a].count = 0
                            /\ remote'[a].mail + remote'[a].count <= 1
    BY <1>1, <2>3, <2>7, <2>8 DEF BtcpayInv, BilledOnce
  <2>12. BillersSound'
    <3>1. \A q \in Clerk : clerk'[q].at = "post" =>
            /\ bill'[clerk'[q].b].creation # "none"
            /\ remote'[clerk'[q].b].mail + remote'[clerk'[q].b].count = 0
      BY <1>1, <2>5, <2>6, <2>8, ClerkTyped DEF BtcpayInv, BillersSound
    <3>2. \A q, s \in Clerk :
            clerk'[q].at = "post" /\ clerk'[s].at = "post" /\ clerk'[q].b = clerk'[s].b => q = s
      BY <2>5, <2>8 DEF BtcpayInv, BillersSound
    <3>3. \A q \in Clerk : clerk'[q].at \in Holding =>
            /\ clerk'[q].seen \in BillStatus
            /\ clerk'[q].seen = "settled" => remote'[clerk'[q].b].status = "settled"
      BY <2>5, <2>8, <2>10, ClerkTyped DEF BtcpayInv, BillersSound, Holding
    <3> QED BY <3>1, <3>2, <3>3 DEF BillersSound
  <2>13. SendersSound'
    BY <1>1, <2>5, <2>8 DEF BtcpayInv, SendersSound, Sending, Answered
  <2> QED BY <1>1, <2>9, <2>10, <2>11, <2>12, <2>13
             DEF BtcpayInv, BilledOnce, SettledBillIsPaid, StorePaysOnce
<1> QED BY <1>2, <1>3 DEF PostBill

\* The beginnings of a request for an invoice, and what it reads of the server.
LEMMA BillReadKeeps ==
  ASSUME BtcpayInv, NEW p \in Clerk,
         \/ \E b \in BillKey : CreateBtcpayInvoice(p, b) \/ GetBtcpayInvoice(p, b)
         \/ SeekBill(p) \/ ReadPosted(p) \/ RecoverBill(p) \/ FetchBill(p)
         \/ ReserveBill(p) /\ bill[clerk[p].b].creation # "none"
  PROVE  BtcpayInv'
<1>1. UNCHANGED <<store, bill, remote, storepay, node, tried>>
  BY DEF CreateBtcpayInvoice, GetBtcpayInvoice, SeekBill, ReadPosted, RecoverBill, FetchBill,
         ReserveBill
<1>2. ASSUME NEW b \in BillKey, NEW at \in {"seek", "fetch"},
             clerk' = [clerk EXCEPT ![p].at = at, ![p].b = b]
      PROVE  BtcpayInv'
  <2> DEFINE r == [clerk[p] EXCEPT !.at = at, !.b = b]
  <2>1. r \in ClerkRecord /\ r.at = at /\ clerk' = [clerk EXCEPT ![p] = r]
    BY <1>2, ClerkTyped DEF ClerkRecord
  <2> HIDE DEF r
  <2> QED BY <1>1, <2>1, ClerkMoves DEF Holding, Sending
<1>3. ASSUME NEW at \in Holding,
             clerk' = [clerk EXCEPT ![p].at = at, ![p].seen = remote[clerk[p].b].status]
      PROVE  BtcpayInv'
  <2> DEFINE s == remote[clerk[p].b].status
             r == [clerk[p] EXCEPT !.at = at, !.seen = s]
  <2>1. s \in BillStatus
    BY ClerkTyped DEF BtcpayInv, BtcpayTypeOK, RemoteRecord
  <2>2. /\ r \in ClerkRecord /\ r.at = at /\ r.seen = s /\ r.b = clerk[p].b
        /\ clerk' = [clerk EXCEPT ![p] = r]
    BY <1>3, <2>1, ClerkTyped DEF ClerkRecord, Holding
  <2> HIDE DEF r
  <2> QED BY <1>1, <1>3, <2>1, <2>2, ClerkMoves DEF Holding, Sending
<1>4. ASSUME Recovering(p) PROVE BtcpayInv'
  <2> DEFINE ready == bill[clerk[p].b].linked /\ bill[clerk[p].b].creation = "ready"
             busy == bill[clerk[p].b].creation = "creating" /\ bill[clerk[p].b].leased
             r == [clerk[p] EXCEPT !.at = "recover", !.ready = ready, !.busy = busy]
  <2>1. ready \in BOOLEAN /\ busy \in BOOLEAN
    BY ClerkTyped DEF BtcpayInv, BtcpayTypeOK, BillRecord
  <2>2. clerk' = [clerk EXCEPT ![p] = r]
    BY <1>4, ClerkTyped DEF Recovering
  <2> HIDE DEF ready, busy
  <2>3. r \in ClerkRecord /\ r.at = "recover"
    BY <2>1, ClerkTyped, ZenonT(30) DEF ClerkRecord
  <2> HIDE DEF r
  <2> QED BY <1>1, <2>2, <2>3, ClerkMoves DEF Holding, Sending
<1>5. CASE RecoverBill(p)
  <2> DEFINE there == remote[clerk[p].b]
  <2>1. \/ ClerkDone(p) \/ ClerkAt(p, "fetch") \/ ClerkAt(p, "cloud")
        \/ clerk' = [clerk EXCEPT ![p].at = "finish", ![p].seen = there.status]
    BY <1>5 DEF RecoverBill, ClerkDone, ClerkAt
  <2> QED BY <1>1, <1>3, <2>1, ClerkGoes DEF Holding
<1>6. CASE \E b \in BillKey : CreateBtcpayInvoice(p, b) \/ GetBtcpayInvoice(p, b)
  BY <1>2, <1>6 DEF CreateBtcpayInvoice, GetBtcpayInvoice
<1>7. CASE SeekBill(p)
  BY <1>1, <1>4, <1>7, ClerkGoes DEF SeekBill
<1>8. CASE ReadPosted(p) \/ FetchBill(p)
  BY <1>1, <1>3, <1>8, ClerkGoes DEF ReadPosted, FetchBill, Holding
<1>9. ASSUME ReserveBill(p), bill[clerk[p].b].creation # "none" PROVE BtcpayInv'
  BY <1>1, <1>4, <1>9 DEF ReserveBill
<1> QED BY <1>5, <1>6, <1>7, <1>8, <1>9

\* The steps that write an invoice document.
LEMMA BillWriteKeeps ==
  ASSUME BtcpayInv, NEW p \in Clerk,
         DoubtBill(p) \/ FinishBill(p) \/ CloudBill(p) \/ KeepBill(p)
  PROVE  BtcpayInv'
<1> DEFINE b == clerk[p].b
<1>1. b \in BillKey /\ bill \in [BillKey -> BillRecord] /\ bill[b] \in BillRecord
  BY ClerkTyped DEF BtcpayInv, BtcpayTypeOK
<1>2. UNCHANGED <<store, remote, storepay, node, tried>>
  BY DEF DoubtBill, FinishBill, CloudBill, KeepBill
<1>3. bill[b].status = "settled" => remote[b].status = "settled"
  BY <1>1 DEF BtcpayInv, SettledBillIsPaid
<1>4. ClerkDone(p) => \E q \in Clerk, r \in ClerkRecord :
                        Harmless(r.at) /\ clerk' = [clerk EXCEPT ![q] = r]
  BY IdleClerkTyped DEF ClerkDone, Harmless, Holding, Sending
<1>5. CASE /\ bill' = [bill EXCEPT ![b].creation = "uncertain", ![b].leased = FALSE]
           /\ ClerkDone(p)
  <2> DEFINE doc == [bill[b] EXCEPT !.creation = "uncertain", !.leased = FALSE]
  <2>1. /\ doc \in BillRecord /\ doc.creation = "uncertain" /\ doc.status = bill[b].status
        /\ bill' = [bill EXCEPT ![b] = doc]
    BY <1>1, <1>5 DEF BillRecord
  <2> HIDE DEF doc, b
  <2> QED BY <1>1, <1>2, <1>3, <1>4, <1>5, <2>1, BillWritten
<1>6. CASE FinishBill(p)
  <2> DEFINE doc == [creation |-> "ready", linked |-> TRUE, leased |-> FALSE,
                     status |-> clerk[p].seen]
             r == [clerk[p] EXCEPT !.at = "fetch", !.seen = "new"]
  <2>1. /\ clerk[p].seen \in BillStatus
        /\ clerk[p].seen = "settled" => remote[b].status = "settled"
    BY <1>6 DEF FinishBill, BtcpayInv, BillersSound, Holding
  <2>2. /\ doc \in BillRecord /\ doc.creation = "ready" /\ doc.status = clerk[p].seen
        /\ bill' = [bill EXCEPT ![b] = doc]
    BY <1>6, <2>1 DEF FinishBill, BillRecord
  <2>3. r \in ClerkRecord /\ Harmless(r.at) /\ clerk' = [clerk EXCEPT ![p] = r]
    BY <1>6, ClerkTyped DEF FinishBill, ClerkRecord, BillStatus, Harmless, Holding, Sending
  <2> HIDE DEF doc, r, b
  <2> QED BY <1>1, <1>2, <2>1, <2>2, <2>3, BillWritten
<1>7. CASE KeepBill(p)
  <2> DEFINE doc == [bill[b] EXCEPT !.status = clerk[p].seen]
  <2>1. /\ clerk[p].seen \in BillStatus
        /\ clerk[p].seen = "settled" => remote[b].status = "settled"
    BY <1>7 DEF KeepBill, BtcpayInv, BillersSound, Holding
  <2>2. /\ doc \in BillRecord /\ doc.creation = bill[b].creation /\ doc.status = clerk[p].seen
        /\ bill' = [bill EXCEPT ![b] = doc]
    BY <1>1, <1>7, <2>1 DEF KeepBill, BillRecord
  <2>3. ClerkDone(p)
    BY <1>7 DEF KeepBill
  <2> HIDE DEF doc, b
  <2> QED BY <1>1, <1>2, <1>4, <2>1, <2>2, <2>3, BillWritten
<1>8. CASE DoubtBill(p)
  BY <1>5, <1>8 DEF DoubtBill
<1>9. CASE CloudBill(p)
  BY <1>2, <1>5, <1>9, ClerkGoes DEF CloudBill
<1> QED BY <1>6, <1>7, <1>8, <1>9

\* The server's own steps.
LEMMA RemoteKeeps ==
  ASSUME BtcpayInv, NEW b \in BillKey, RemoteCreates(b) \/ RemoteMoves(b)
  PROVE  BtcpayInv'
<1>1. remote \in [BillKey -> RemoteRecord] /\ remote[b] \in RemoteRecord
  BY DEF BtcpayInv, BtcpayTypeOK
<1>2. UNCHANGED <<store, bill, storepay, node, tried, clerk>>
  BY DEF RemoteCreates, RemoteMoves
<1>3. CASE RemoteCreates(b)
  <2> DEFINE there == [remote[b] EXCEPT !.mail = 0, !.count = 1]
  <2>1. remote[b].mail = 1 /\ remote[b].count = 0
    BY <1>1, <1>3 DEF RemoteCreates, RemoteRecord, BtcpayInv, BilledOnce
  <2>2. /\ there \in RemoteRecord /\ there.mail = 0 /\ there.count = 1
        /\ there.status = remote[b].status
    <3>1. 0 \in 0..2 /\ 1 \in 0..2
      OBVIOUS
    <3> QED BY <1>1, <3>1 DEF RemoteRecord
  <2>3. remote[b].mail - 1 = 0 /\ Saturated(remote[b].count) = 1
    BY <2>1 DEF Saturated
  <2>4. remote' = [remote EXCEPT ![b] = there]
    BY <1>1, <1>3, <2>3 DEF RemoteCreates, RemoteRecord
  <2> HIDE DEF there
  <2>5. there.mail + there.count = remote[b].mail + remote[b].count
    BY <2>1, <2>2
  <2> QED BY <1>2, <2>2, <2>4, <2>5, RemoteWritten
<1>4. ASSUME NEW s \in BillStatus, remote' = [remote EXCEPT ![b].status = s],
             remote[b].status # "settled"
      PROVE  BtcpayInv'
  <2> DEFINE there == [remote[b] EXCEPT !.status = s]
  <2>1. /\ there \in RemoteRecord /\ there.mail = remote[b].mail /\ there.count = remote[b].count
        /\ remote' = [remote EXCEPT ![b] = there]
    BY <1>1, <1>4 DEF RemoteRecord
  <2> HIDE DEF there
  <2> QED BY <1>2, <1>4, <2>1, RemoteWritten
<1>5. ASSUME remote' = [remote EXCEPT ![b].lapsed = TRUE] PROVE BtcpayInv'
  <2> DEFINE there == [remote[b] EXCEPT !.lapsed = TRUE]
  <2>1. /\ there \in RemoteRecord /\ there.mail = remote[b].mail /\ there.count = remote[b].count
        /\ there.status = remote[b].status /\ remote' = [remote EXCEPT ![b] = there]
    BY <1>1, <1>5 DEF RemoteRecord
  <2> HIDE DEF there
  <2> QED BY <1>2, <2>1, RemoteWritten
<1>6. CASE RemoteMoves(b)
  BY <1>4, <1>5, <1>6 DEF RemoteMoves, BillStatus
<1> QED BY <1>3, <1>6

\* Creating the payment: the unique index on the payment hash leaves the request
\* alone with an invoice that the node was never asked to pay.
LEMMA CreateStoreKeeps ==
  ASSUME BtcpayInv, NEW p \in Clerk, CreateStorePayment(p)
  PROVE  BtcpayInv'
<1> DEFINE h == clerk[p].h
           doc == [status |-> "pending", k |-> clerk[p].k, leased |-> TRUE]
           r == [clerk[p] EXCEPT !.at = "quote"]
<1>1. UNCHANGED <<store, bill, remote, node, tried>> /\ h \in Bolt11
  BY ClerkTyped DEF CreateStorePayment
<1>2. CASE StoreMatches(p) # {}
  <2>1. UNCHANGED storepay /\ (ClerkDone(p) \/ ClerkAt(p, "lookup"))
    BY <1>2 DEF CreateStorePayment
  <2> QED BY <1>1, <2>1, ClerkGoes
<1>3. CASE StoreMatches(p) = {}
  <2>1. doc \in StorepayRecord /\ doc.status = "pending"
    BY ClerkTyped DEF StorepayRecord
  <2>2. r \in ClerkRecord /\ r.at = "quote" /\ r.h = h
    BY ClerkTyped DEF ClerkRecord
  <2>3. storepay' = [storepay EXCEPT ![h] = doc] /\ clerk' = [clerk EXCEPT ![p] = r]
    BY <1>3 DEF CreateStorePayment, ClerkAt
  <2>4. storepay[h].status = "none"
    BY <1>1, <1>3 DEF StoreMatches
  <2>5. /\ tried[h] = 0
        /\ \A q \in Clerk : clerk[q].at \in Sending => clerk[q].h # h
    BY <1>1, <2>4 DEF BtcpayInv, SendersSound
  <2> HIDE DEF doc, r, h
  <2>6. /\ \A g \in Bolt11 : storepay'[g] = IF g = h THEN doc ELSE storepay[g]
        /\ \A q \in Clerk : clerk'[q] = IF q = p THEN r ELSE clerk[q]
    BY <2>3, ClerkTyped DEF BtcpayInv, BtcpayTypeOK
  <2>7. BtcpayTypeOK'
    BY <1>1, <2>1, <2>2, <2>3 DEF BtcpayInv, BtcpayTypeOK
  <2>8. BillersSound'
    BY <1>1, <2>2, <2>6 DEF BtcpayInv, BillersSound, Holding
  <2>9. SendersSound'
    <3>1. \A q \in Clerk : clerk'[q].at \in Sending =>
            storepay'[clerk'[q].h].status # "none" /\ tried'[clerk'[q].h] = 0
      BY <1>1, <2>1, <2>2, <2>5, <2>6, ClerkTyped DEF BtcpayInv, SendersSound
    <3>2. \A q, s \in Clerk : clerk'[q].at \in Sending /\ clerk'[s].at \in Sending
                                /\ clerk'[q].h = clerk'[s].h => q = s
      BY <2>2, <2>5, <2>6 DEF BtcpayInv, SendersSound
    <3> QED BY <1>1, <2>2, <2>6, <3>1, <3>2 DEF BtcpayInv, SendersSound, Answered
  <2> QED BY <1>1, <2>1, <2>6, <2>7, <2>8, <2>9
             DEF BtcpayInv, BilledOnce, SettledBillIsPaid, StorePaysOnce
<1> QED BY <1>2, <1>3

\* The node is asked to pay, or its answer is lost: the request leaves the section
\* it was alone in.
LEMMA SendStoreKeeps ==
  ASSUME BtcpayInv, NEW p \in Clerk, SendStorePayment(p)
  PROVE  BtcpayInv'
<1> DEFINE h == clerk[p].h
           r == [clerk[p] EXCEPT !.at = "wait"]
<1>1. /\ clerk[p].at = "send" /\ UNCHANGED <<store, bill, remote, storepay>> /\ h \in Bolt11
      /\ tried \in [Bolt11 -> 0..2] /\ node \in [Bolt11 -> {"none", "asked", "paid", "refused"}]
  BY ClerkTyped DEF SendStorePayment, BtcpayInv, BtcpayTypeOK
<1>2. CASE UNCHANGED <<tried, node>> /\ ClerkAt(p, "unsure")
  BY <1>1, <1>2, ClerkGoes
<1>3. CASE /\ tried' = [tried EXCEPT ![h] = Saturated(@)]
           /\ node' = [node EXCEPT ![h] = IF @ = "none" THEN "asked" ELSE @]
           /\ ClerkAt(p, "wait")
  <2>1. tried[h] = 0 /\ storepay[h].status # "none"
    BY <1>1 DEF BtcpayInv, SendersSound, Sending
  <2>2. tried'[h] = 1 /\ \A g \in Bolt11 \ {h} : tried'[g] = tried[g]
    BY <1>1, <1>3, <2>1 DEF Saturated
  <2>3. /\ \A g \in Bolt11 : /\ node[g] = "paid" => node'[g] = "paid"
                             /\ node[g] = "refused" => node'[g] = "refused"
        /\ node' \in [Bolt11 -> {"none", "asked", "paid", "refused"}]
    BY <1>1, <1>3
  <2>4. tried' \in [Bolt11 -> 0..2]
    BY <1>1, <1>3 DEF Saturated
  <2>5. r \in ClerkRecord /\ r.at = "wait" /\ clerk' = [clerk EXCEPT ![p] = r]
    BY <1>3, ClerkTyped DEF ClerkAt, ClerkRecord
  <2>6. \A q \in Clerk \ {p} : clerk[q].at \in Sending => clerk[q].h # h
    BY <1>1 DEF BtcpayInv, SendersSound, Sending
  <2> HIDE DEF r, h
  <2>7. \A q \in Clerk : clerk'[q] = IF q = p THEN r ELSE clerk[q]
    BY <2>5, ClerkTyped
  <2>8. BtcpayTypeOK'
    BY <1>1, <2>3, <2>4, <2>5 DEF BtcpayInv, BtcpayTypeOK
  <2>9. BillersSound'
    BY <1>1, <2>5, <2>7 DEF BtcpayInv, BillersSound, Holding
  <2>10. SendersSound'
    BY <1>1, <2>2, <2>3, <2>5, <2>6, <2>7, ClerkTyped
       DEF BtcpayInv, SendersSound, Sending, Answered
  <2> QED BY <1>1, <2>1, <2>2, <2>3, <2>8, <2>9, <2>10
             DEF BtcpayInv, BilledOnce, SettledBillIsPaid, StorePaysOnce
<1> QED BY <1>2, <1>3 DEF SendStorePayment

\* The node decides once, and only what was asked of it.
LEMMA NodeKeeps ==
  ASSUME BtcpayInv, NEW h \in Bolt11, NodeActs(h)
  PROVE  BtcpayInv'
<1>1. /\ UNCHANGED <<store, bill, remote, storepay, tried, clerk>>
      /\ \A g \in Bolt11 : /\ node[g] = "paid" => node'[g] = "paid"
                           /\ node[g] = "refused" => node'[g] = "refused"
      /\ node' \in [Bolt11 -> {"none", "asked", "paid", "refused"}]
  BY DEF NodeActs, BtcpayInv, BtcpayTypeOK
<1>2. BtcpayTypeOK'
  BY <1>1 DEF BtcpayInv, BtcpayTypeOK
<1>3. BillersSound' /\ SendersSound'
  BY <1>1, ClerkTyped DEF BtcpayInv, BillersSound, SendersSound, Answered
<1> QED BY <1>1, <1>2, <1>3 DEF BtcpayInv, BilledOnce, SettledBillIsPaid, StorePaysOnce

\* The beginnings of a payment, and the answers it reads.
LEMMA StoreReadKeeps ==
  ASSUME BtcpayInv, NEW p \in Clerk,
         \/ \E h \in Bolt11 : \/ \E k \in StoreKey : PayBtcpayLightning(p, h, k)
                              \/ GetBtcpayPayment(p, h)
         \/ FindStorePayment(p) \/ QuoteStorePayment(p) \/ ReadStoreAnswer(p)
         \/ LookUpStorePayment(p) \/ CrashClerk(p)
  PROVE  BtcpayInv'
<1>1. UNCHANGED <<store, bill, remote, storepay, node, tried>>
  BY DEF PayBtcpayLightning, GetBtcpayPayment, FindStorePayment, QuoteStorePayment,
         ReadStoreAnswer, LookUpStorePayment, CrashClerk
<1>2. ASSUME NEW h \in Bolt11, NEW k \in StoreKey, NEW at \in {"find", "lookup"},
             clerk' = [clerk EXCEPT ![p].at = at, ![p].h = h, ![p].k = k]
      PROVE  BtcpayInv'
  <2> DEFINE r == [clerk[p] EXCEPT !.at = at, !.h = h, !.k = k]
  <2>1. r \in ClerkRecord /\ r.at = at /\ clerk' = [clerk EXCEPT ![p] = r]
    BY <1>2, ClerkTyped DEF ClerkRecord
  <2> HIDE DEF r
  <2> QED BY <1>1, <2>1, ClerkMoves DEF Holding, Sending
<1>3. ASSUME NEW s \in StatusResult(clerk[p].h),
             clerk' = [clerk EXCEPT ![p].at = "record", ![p].seen = s]
      PROVE  BtcpayInv'
  <2> DEFINE r == [clerk[p] EXCEPT !.at = "record", !.seen = s]
  <2>1. Answered(clerk[p].h, s)
    BY <1>3 DEF StatusResult, Answered, Open
  <2>2. /\ r \in ClerkRecord /\ r.at = "record" /\ r.seen = s /\ r.h = clerk[p].h
        /\ clerk' = [clerk EXCEPT ![p] = r]
    BY <1>3, <2>1, ClerkTyped DEF ClerkRecord, Answered, Open
  <2> HIDE DEF r
  <2> QED BY <1>1, <2>1, <2>2, ClerkMoves DEF Holding, Sending
<1>4. ASSUME NEW h \in Bolt11, GetBtcpayPayment(p, h) PROVE BtcpayInv'
  <2>1. storepay[h].k \in StoreKey
    BY DEF BtcpayInv, BtcpayTypeOK, StorepayRecord
  <2> QED BY <1>2, <1>4, <2>1 DEF GetBtcpayPayment
<1>5. ASSUME NEW h \in Bolt11, NEW k \in StoreKey, PayBtcpayLightning(p, h, k) PROVE BtcpayInv'
  BY <1>2, <1>5 DEF PayBtcpayLightning
<1>6. CASE FindStorePayment(p)
  <2>1. ClerkDone(p) \/ ClerkAt(p, "create") \/ ClerkAt(p, "lookup")
    BY <1>6 DEF FindStorePayment
  <2> QED BY <1>1, <2>1, ClerkGoes
<1>7. CASE QuoteStorePayment(p) \/ CrashClerk(p)
  BY <1>1, <1>7, ClerkGoes DEF QuoteStorePayment, CrashClerk
<1>8. CASE ReadStoreAnswer(p) \/ LookUpStorePayment(p)
  BY <1>1, <1>3, <1>8, ClerkGoes DEF ReadStoreAnswer, LookUpStorePayment
<1> QED BY <1>4, <1>5, <1>6, <1>7, <1>8

\* The steps that store an outcome, while it is open.
LEMMA OutcomeKeeps ==
  ASSUME BtcpayInv, NEW p \in Clerk, PersistPaymentResult(p) \/ MarkPaymentUncertain(p)
  PROVE  BtcpayInv'
<1> DEFINE h == clerk[p].h
<1>1. h \in Bolt11 /\ storepay \in [Bolt11 -> StorepayRecord] /\ storepay[h] \in StorepayRecord
  BY ClerkTyped DEF BtcpayInv, BtcpayTypeOK
<1>2. ClerkDone(p) /\ UNCHANGED <<store, bill, remote, node, tried>>
  BY DEF PersistPaymentResult, MarkPaymentUncertain
<1>3. PICK s \in Open : SetOpen(p, s) /\ Answered(h, s)
  <2>1. CASE PersistPaymentResult(p)
    BY <2>1 DEF PersistPaymentResult, BtcpayInv, SendersSound, Answered
  <2>2. CASE MarkPaymentUncertain(p)
    BY <2>2 DEF MarkPaymentUncertain, Open, Answered
  <2> QED BY <2>1, <2>2
<1>4. CASE storepay' = storepay
  BY <1>2, <1>4, ClerkGoes
<1>5. CASE storepay' = [storepay EXCEPT ![h].status = s, ![h].leased = FALSE]
  <2> DEFINE doc == [storepay[h] EXCEPT !.status = s, !.leased = FALSE]
  <2>1. /\ doc \in StorepayRecord /\ doc.status = s /\ s # "none"
        /\ storepay' = [storepay EXCEPT ![h] = doc]
    BY <1>1, <1>5 DEF StorepayRecord, Open
  <2> HIDE DEF doc, h
  <2> QED BY <1>1, <1>2, <1>3, <2>1, StorepayWritten DEF Answered
<1> QED BY <1>3, <1>4, <1>5 DEF SetOpen

\* The owner pairs or disconnects the store; a lease lapses.
LEMMA StoreAroundKeeps ==
  ASSUME BtcpayInv, PairBtcpayConnection \/ DisconnectBtcpayConnection \/ LeasesLapse
  PROVE  BtcpayInv'
<1>1. CASE PairBtcpayConnection \/ DisconnectBtcpayConnection
  <2>1. /\ store' \in {"none", "active", "revoked"}
        /\ UNCHANGED <<bill, remote, storepay, node, tried, clerk>>
    BY <1>1 DEF PairBtcpayConnection, DisconnectBtcpayConnection
  <2> QED BY <2>1 DEF BtcpayInv, BtcpayTypeOK, BilledOnce, SettledBillIsPaid, StorePaysOnce,
                      BillersSound, SendersSound, Answered
<1>2. ASSUME NEW b \in BillKey, bill' = [bill EXCEPT ![b].leased = FALSE],
             UNCHANGED <<store, remote, storepay, node, tried, clerk>>
      PROVE  BtcpayInv'
  <2> DEFINE doc == [bill[b] EXCEPT !.leased = FALSE]
  <2>1. /\ doc \in BillRecord /\ doc.creation = bill[b].creation /\ doc.status = bill[b].status
        /\ bill' = [bill EXCEPT ![b] = doc]
    BY <1>2 DEF BtcpayInv, BtcpayTypeOK, BillRecord
  <2>2. doc.status = "settled" => remote[b].status = "settled"
    BY <2>1 DEF BtcpayInv, SettledBillIsPaid
  <2> HIDE DEF doc
  <2> QED BY <1>2, <2>1, <2>2, BillWritten
<1>3. ASSUME NEW h \in Bolt11, storepay' = [storepay EXCEPT ![h].leased = FALSE],
             UNCHANGED <<store, bill, remote, node, tried, clerk>>
      PROVE  BtcpayInv'
  <2> DEFINE doc == [storepay[h] EXCEPT !.leased = FALSE]
  <2>1. /\ doc \in StorepayRecord /\ doc.status = storepay[h].status
        /\ storepay' = [storepay EXCEPT ![h] = doc]
    BY <1>3 DEF BtcpayInv, BtcpayTypeOK, StorepayRecord
  <2>2. /\ doc.status = "succeeded" => node[h] = "paid"
        /\ doc.status = "failed" => node[h] = "refused"
    BY <2>1 DEF BtcpayInv, StorePaysOnce
  <2> HIDE DEF doc
  <2> QED BY <1>3, <2>1, <2>2, StorepayWritten
<1> QED BY <1>1, <1>2, <1>3 DEF LeasesLapse

\* Every step of the store keeps the invariant.
LEMMA BtcpayStepKeeps == BtcpayInv /\ [BtcpayNext]_btcpayVars => BtcpayInv'
<1> SUFFICES ASSUME BtcpayInv, [BtcpayNext]_btcpayVars PROVE BtcpayInv'
  OBVIOUS
<1>1. CASE UNCHANGED btcpayVars
  BY <1>1 DEF btcpayVars, BtcpayInv, BtcpayTypeOK, BilledOnce, SettledBillIsPaid, StorePaysOnce,
              BillersSound, SendersSound, Answered
<1>2. ASSUME NEW p \in Clerk, ReserveBill(p) PROVE BtcpayInv'
  BY <1>2, ReserveBillKeeps, BillReadKeeps
<1>3. CASE BillNext
  BY <1>2, <1>3, PostBillKeeps, BillReadKeeps, BillWriteKeeps, RemoteKeeps DEF BillNext
<1>4. CASE StorePaymentNext
  BY <1>4, CreateStoreKeeps, SendStoreKeeps, NodeKeeps, StoreReadKeeps, OutcomeKeeps
     DEF StorePaymentNext
<1>5. CASE StoreNext
  BY <1>5, StoreAroundKeeps, StoreReadKeeps DEF StoreNext
<1> QED BY <1>1, <1>3, <1>4, <1>5 DEF BtcpayNext

\* Whatever answers are lost, leases expire and requests race or crash, the server is
\* asked for an invoice once per key and the node for a payment once per invoice, and
\* a document says settled, succeeded or failed only if that happened.
THEOREM BtcpayCorrect ==
  BtcpaySpec => [](BtcpayTypeOK /\ BilledOnce /\ SettledBillIsPaid /\ StorePaysOnce)
<1>1. BtcpayInv => BtcpayTypeOK /\ BilledOnce /\ SettledBillIsPaid /\ StorePaysOnce
  BY DEF BtcpayInv
<1> QED BY <1>1, BtcpayInitial, BtcpayStepKeeps, PTL DEF BtcpaySpec
-----------------------------------------------------------------------------
\* The statuses of a payment whose transaction may be on the network.
Claimed == Seen \cup {"confirmed", "replaced"}

\* A transaction that is buried as deep as its policy asks is never undone.
Buried(q) == tx[q].at = "mined" /\ tx[q].depth = Deep

\* A reviewed plan: its coin pays amount, fee and change, and it pays more than the
\* payment it replaces.
PlanOf(q) ==
  /\ Worth[psbt[q].coin] = Amount + psbt[q].fee + psbt[q].change
  /\ psbt[q].fee <= MaxFee
  /\ psbt[q].change = 0 \/ psbt[q].change >= Dust
  /\ psbt[q].replaces # NoPsbt => /\ psbt[psbt[q].replaces].status # "none"
                                  /\ psbt[psbt[q].replaces].fee < psbt[q].fee
                                  /\ psbt[psbt[q].replaces].coin = psbt[q].coin

\* The plan of a payment that is not created yet.
Planned(t) ==
  /\ t.coin \in Coin /\ t.rate \in Rates /\ Affordable(Worth[t.coin], t.rate)
  /\ t.replaces # NoPsbt => /\ psbt[t.replaces].status # "none"
                            /\ psbt[t.replaces].fee < FeePlan(Worth[t.coin], t.rate).fee
                            /\ psbt[t.replaces].coin = t.coin

\* What a request may rely on at each of its steps.
TellerSound(t) ==
  /\ t.at \in {"conflict", "insert"} => Planned(t)
  /\ t.at \in {"send", "again"} => psbt[t.q].status \in Claimed
  /\ t.at = "supersede" \/ t.seen => tx[t.q].at # "none"
  /\ t.depth = Deep => Buried(t.q)

\* The chain spends a coin once.
MinedOnce ==
  \A q, r \in Psbt : tx[q].at = "mined" /\ tx[r].at = "mined" /\ psbt[q].coin = psbt[r].coin
                     => q = r

\* The inductive invariant of the on-chain payments.
PsbtInv ==
  /\ PsbtTypeOK
  /\ \A q \in Psbt : psbt[q].status # "none" => PlanOf(q)
  /\ SentIsClaimed
  /\ \A q \in Psbt : tx[q].at # "mined" => tx[q].depth = 0
  /\ MinedOnce
  /\ \A q \in Psbt : psbt[q].status = "confirmed" => Buried(q)
  /\ ReplacedHasReplacement
  /\ \A p \in Teller : TellerSound(teller[p])

\* What no step takes back: the terms of a payment that exists, a claim, that a
\* transaction was sent, a block that is deep enough.
Lasting ==
  \A q \in Psbt :
    /\ psbt[q].status # "none" =>
         /\ psbt'[q].status # "none" /\ psbt'[q].coin = psbt[q].coin
         /\ psbt'[q].fee = psbt[q].fee /\ psbt'[q].change = psbt[q].change
         /\ psbt'[q].replaces = psbt[q].replaces
    /\ psbt[q].status \in Claimed => psbt'[q].status \in Claimed
    /\ tx[q].at # "none" => tx'[q].at # "none"
    /\ Buried(q) => tx'[q].at = "mined" /\ tx'[q].depth = Deep

\* The requests after a step of one of them, or of none.
TellersMove ==
  \/ teller' = teller
  \/ \E p \in Teller, t \in TellerRecord : TellerSound(t)' /\ teller' = [teller EXCEPT ![p] = t]

\* A coin is paid out in full: amount, fee within the reviewed maximum, and a change
\* that is not dust.
LEMMA FeePlanBalances ==
  ASSUME NEW worth \in Nat, NEW rate \in Rates, Affordable(worth, rate)
  PROVE  LET plan == FeePlan(worth, rate)
         IN /\ plan.fee \in Nat /\ plan.change \in Nat
            /\ worth = Amount + plan.fee + plan.change
            /\ plan.fee <= MaxFee
            /\ plan.change = 0 \/ plan.change >= Dust
<1> DEFINE size == FullSize * rate
           least == ShortSize * rate
<1>1. /\ Amount \in Nat /\ Dust \in Nat /\ MaxFee \in Nat /\ rate \in Nat /\ FullSize \in Nat
      /\ ShortSize \in Nat
  BY PsbtAssumption
<1>2. size \in Nat /\ least \in Nat
  BY <1>1
<1>3. /\ worth >= Amount + size
      /\ FeePlan(worth, rate).fee <= MaxFee
      /\ FeePlan(worth, rate) = IF worth - Amount - size < Dust
                                THEN [fee |-> worth - Amount, change |-> 0]
                                ELSE [fee |-> size, change |-> worth - Amount - size]
  BY DEF Affordable, FeePlan
<1> HIDE DEF size, least
<1>4. CASE worth - Amount - size < Dust
  <2>1. FeePlan(worth, rate).fee = worth - Amount /\ FeePlan(worth, rate).change = 0
    BY <1>3, <1>4
  <2> QED BY <1>1, <1>2, <1>3, <2>1
<1>5. CASE ~(worth - Amount - size < Dust)
  <2>1. FeePlan(worth, rate).fee = size /\ FeePlan(worth, rate).change = worth - Amount - size
    BY <1>3, <1>5
  <2> QED BY <1>1, <1>2, <1>3, <1>5, <2>1
<1> QED BY <1>4, <1>5

\* An idle request relies on nothing.
LEMMA IdleTellerSound ==
  /\ IdleTeller \in TellerRecord /\ IdleTeller.at = "idle" /\ IdleTeller.depth = 0
  /\ IdleTeller.seen = FALSE
  /\ TellerSound(IdleTeller) /\ TellerSound(IdleTeller)'
<1>1. AnyPsbt \in Psbt /\ Deep \in Nat /\ Deep # 0
  BY PsbtAssumption DEF AnyPsbt
<1>2. /\ IdleTeller \in TellerRecord /\ IdleTeller.at = "idle" /\ IdleTeller.depth = 0
      /\ IdleTeller.seen = FALSE
  BY <1>1 DEF IdleTeller, TellerRecord
<1> QED BY <1>1, <1>2 DEF TellerSound

\* Initially nothing was paid.
LEMMA PsbtInitial == PsbtInit => PsbtInv
<1> SUFFICES ASSUME PsbtInit PROVE PsbtInv
  OBVIOUS
<1>1. Deep \in Nat
  BY PsbtAssumption
<1>2. PsbtTypeOK
  BY <1>1, IdleTellerSound DEF PsbtInit, PsbtTypeOK, PsbtDocument, TxRecord
<1>3. \A q \in Psbt : psbt[q].status = "none" /\ tx[q].at = "none" /\ tx[q].depth = 0
  BY DEF PsbtInit
<1>4. \A p \in Teller : TellerSound(teller[p])
  BY IdleTellerSound DEF PsbtInit
<1> QED BY <1>2, <1>3, <1>4 DEF PsbtInv, SentIsClaimed, MinedOnce, ReplacedHasReplacement

\* What a request relies on lasts.
LEMMA SoundLasts ==
  ASSUME NEW t \in TellerRecord, TellerSound(t), Lasting
  PROVE  TellerSound(t)'
<1>1. t.q \in Psbt /\ (t.replaces # NoPsbt => t.replaces \in Psbt)
  BY DEF TellerRecord
<1>2. Planned(t) => Planned(t)'
  BY <1>1 DEF Planned, Lasting
<1> QED BY <1>1, <1>2 DEF TellerSound, Lasting, Buried

\* A step that takes nothing back keeps what every request relies on.
LEMMA TellersStaySound ==
  ASSUME PsbtInv, Lasting, TellersMove
  PROVE  /\ teller' \in [Teller -> TellerRecord]
         /\ \A p \in Teller : TellerSound(teller[p])'
<1>1. teller \in [Teller -> TellerRecord] /\ \A p \in Teller : TellerSound(teller[p])
  BY DEF PsbtInv, PsbtTypeOK
<1>2. \A p \in Teller : teller[p] \in TellerRecord /\ TellerSound(teller[p])
  BY <1>1
<1>3. \A t \in TellerRecord : TellerSound(t) => TellerSound(t)'
  BY SoundLasts
<1>4. CASE teller' = teller
  <2> SUFFICES ASSUME NEW p \in Teller PROVE TellerSound(teller[p])'
    BY <1>1, <1>4
  <2>1. PICK u \in TellerRecord : u = teller[p] /\ TellerSound(u)'
    BY <1>2, <1>3
  <2> QED BY <1>4, <2>1 DEF TellerSound, Planned, Buried
<1>5. ASSUME NEW p \in Teller, NEW t \in TellerRecord, TellerSound(t)',
             teller' = [teller EXCEPT ![p] = t]
      PROVE  /\ teller' \in [Teller -> TellerRecord]
             /\ \A q \in Teller : TellerSound(teller[q])'
  <2> SUFFICES ASSUME NEW q \in Teller PROVE TellerSound(teller[q])'
    BY <1>1, <1>5
  <2>1. PICK u \in TellerRecord : u = teller'[q] /\ TellerSound(u)'
    <3>1. CASE q = p
      BY <1>1, <1>5, <3>1
    <3>2. CASE q # p
      <4>1. teller'[q] = teller[q]
        BY <1>1, <1>5, <3>2
      <4> QED BY <1>2, <1>3, <4>1
    <3> QED BY <3>1, <3>2
  <2> QED BY <2>1 DEF TellerSound, Planned, Buried
<1> QED BY <1>4, <1>5 DEF TellersMove

\* A step of a request that writes nothing.
LEMMA TellerMoves ==
  ASSUME PsbtInv, UNCHANGED <<psbt, tx>>,
         NEW p \in Teller, NEW t \in TellerRecord, TellerSound(t),
         teller' = [teller EXCEPT ![p] = t]
  PROVE  PsbtInv'
<1>1. Lasting
  BY DEF Lasting, Buried
<1>2. TellerSound(t)'
  BY DEF TellerSound, Planned, Buried
<1>3. /\ teller' \in [Teller -> TellerRecord]
      /\ \A q \in Teller : TellerSound(teller[q])'
  BY <1>1, <1>2, TellersStaySound DEF TellersMove
<1> QED BY <1>3 DEF PsbtInv, PsbtTypeOK, PlanOf, SentIsClaimed, MinedOnce, Buried,
                    ReplacedHasReplacement

\* A step that changes the status of a payment that exists.
LEMMA StatusMoves ==
  ASSUME PsbtInv, NEW q \in Psbt, NEW s \in PsbtActive \cup Claimed \cup {"abandoned", "failed"},
         psbt' = [psbt EXCEPT ![q].status = s], UNCHANGED tx, TellersMove,
         psbt[q].status # "none",
         psbt[q].status \in Claimed => s \in Claimed,
         s = "confirmed" => Buried(q),
         s = "replaced" => \E r \in Psbt : psbt[r].replaces = q /\ tx[r].at # "none"
  PROVE  PsbtInv'
<1> DEFINE doc == [psbt[q] EXCEPT !.status = s]
<1>1. psbt \in [Psbt -> PsbtDocument] /\ tx \in [Psbt -> TxRecord]
  BY DEF PsbtInv, PsbtTypeOK
<1>2. /\ doc \in PsbtDocument /\ doc.status = s /\ doc.coin = psbt[q].coin
      /\ doc.fee = psbt[q].fee /\ doc.change = psbt[q].change /\ doc.replaces = psbt[q].replaces
      /\ s # "none"
  BY <1>1 DEF PsbtDocument, Claimed, Seen, PsbtActive
<1>3. psbt' = [psbt EXCEPT ![q] = doc]
  BY <1>1
<1> HIDE DEF doc
<1>4. psbt' \in [Psbt -> PsbtDocument] /\ \A r \in Psbt : psbt'[r] = IF r = q THEN doc ELSE psbt[r]
  BY <1>1, <1>2, <1>3
<1>5. \A r \in Psbt : /\ psbt'[r].coin = psbt[r].coin /\ psbt'[r].fee = psbt[r].fee
                      /\ psbt'[r].change = psbt[r].change /\ psbt'[r].replaces = psbt[r].replaces
                      /\ psbt'[r].status = IF r = q THEN s ELSE psbt[r].status
  BY <1>2, <1>4
<1>6. Lasting
  BY <1>2, <1>5 DEF Lasting, Buried
<1>7. /\ teller' \in [Teller -> TellerRecord]
      /\ \A p \in Teller : TellerSound(teller[p])'
  BY <1>6, TellersStaySound
<1>8. \A r \in Psbt : psbt[r].replaces # NoPsbt => psbt[r].replaces \in Psbt
  BY <1>1 DEF PsbtDocument
<1>9. \A r \in Psbt : psbt'[r].status # "none" => PlanOf(r)'
  BY <1>2, <1>5, <1>8 DEF PsbtInv, PlanOf
<1>10. SentIsClaimed' /\ MinedOnce'
  BY <1>5 DEF PsbtInv, SentIsClaimed, MinedOnce, Claimed
<1>11. \A r \in Psbt : psbt'[r].status = "confirmed" => Buried(r)'
  BY <1>5 DEF PsbtInv, Buried
<1>12. ReplacedHasReplacement'
  BY <1>5 DEF PsbtInv, ReplacedHasReplacement
<1> QED BY <1>1, <1>4, <1>7, <1>9, <1>10, <1>11, <1>12 DEF PsbtInv, PsbtTypeOK

\* A step of the network.
LEMMA TxMoves ==
  ASSUME PsbtInv, UNCHANGED psbt, TellersMove, tx' \in [Psbt -> TxRecord],
         \A q \in Psbt :
           /\ tx[q].at # "none" => tx'[q].at # "none"
           /\ tx'[q].at # "none" => tx[q].at # "none" \/ psbt[q].status \in Claimed
           /\ tx'[q].at # "mined" => tx'[q].depth = 0
           /\ Buried(q) => tx'[q].at = "mined" /\ tx'[q].depth = Deep,
         MinedOnce'
  PROVE  PsbtInv'
<1>1. Lasting
  BY DEF Lasting
<1>2. /\ teller' \in [Teller -> TellerRecord]
      /\ \A p \in Teller : TellerSound(teller[p])'
  BY <1>1, TellersStaySound
<1>3. \A q \in Psbt : psbt'[q].status # "none" => PlanOf(q)'
  BY DEF PsbtInv, PlanOf
<1>4. SentIsClaimed'
  BY DEF PsbtInv, SentIsClaimed, Claimed
<1>5. \A q \in Psbt : psbt'[q].status = "confirmed" => Buried(q)'
  BY DEF PsbtInv, Buried
<1>6. ReplacedHasReplacement'
  BY DEF PsbtInv, ReplacedHasReplacement
<1> QED BY <1>2, <1>3, <1>4, <1>5, <1>6 DEF PsbtInv, PsbtTypeOK

\* A transaction that Core accepts displaces only transactions of its mempool.
LEMMA BroadcastEffect ==
  ASSUME PsbtInv, NEW q \in Psbt, Acceptable(q), tx[q].at # "mined", Broadcasts(q),
         UNCHANGED psbt
  PROVE  /\ tx' \in [Psbt -> TxRecord] /\ tx'[q].at = "mempool"
         /\ \A r \in Psbt :
              /\ tx[r].at # "none" => tx'[r].at # "none"
              /\ tx'[r].at # "none" => tx[r].at # "none" \/ r = q
              /\ tx'[r].at # "mined" => tx'[r].depth = 0
              /\ Buried(r) => tx'[r].at = "mined" /\ tx'[r].depth = Deep
         /\ MinedOnce'
<1>1. tx \in [Psbt -> TxRecord] /\ Deep \in Nat
  BY PsbtAssumption DEF PsbtInv, PsbtTypeOK
<1>2. \A r \in Psbt : r \in Rival(q) => tx[r].at = "mempool" /\ tx[r].depth = 0
  BY DEF Acceptable, PsbtInv
<1>3. /\ tx'[q].at = "mempool" /\ tx'[q].depth = 0 /\ tx'[q] \in TxRecord
      /\ \A r \in Psbt \ {q} : r \in Rival(q) =>
           tx'[r].at = "out" /\ tx'[r].depth = 0 /\ tx'[r] \in TxRecord
      /\ \A r \in Psbt \ {q} : r \notin Rival(q) => tx'[r] = tx[r]
  <2>1. \A r \in Psbt : tx'[r] = IF r = q THEN [at |-> "mempool", depth |-> 0]
                                 ELSE IF r \in Rival(q) THEN [tx[r] EXCEPT !.at = "out"] ELSE tx[r]
    BY DEF Broadcasts
  <2>2. [at |-> "mempool", depth |-> 0] \in TxRecord
    BY <1>1 DEF TxRecord
  <2>3. ASSUME NEW r \in Psbt \ {q}, r \in Rival(q)
        PROVE  tx'[r].at = "out" /\ tx'[r].depth = 0 /\ tx'[r] \in TxRecord
    <3>1. tx'[r] = [tx[r] EXCEPT !.at = "out"]
      BY <2>1, <2>3
    <3>2. tx[r] \in TxRecord /\ tx[r].depth = 0
      BY <1>1, <1>2, <2>3
    <3> QED BY <3>1, <3>2 DEF TxRecord
  <2>4. tx'[q] = [at |-> "mempool", depth |-> 0]
    BY <2>1
  <2>5. \A r \in Psbt \ {q} : r \notin Rival(q) => tx'[r] = tx[r]
    BY <2>1
  <2> QED BY <2>2, <2>3, <2>4, <2>5
<1>4. tx' \in [Psbt -> TxRecord]
  <2>1. \A r \in Psbt : tx'[r] \in TxRecord
    BY <1>1, <1>3
  <2> QED BY <2>1 DEF Broadcasts
<1>5. \A r \in Psbt : tx'[r].at = "mined" => tx[r].at = "mined"
  BY <1>3
<1>6. MinedOnce'
  BY <1>5 DEF PsbtInv, MinedOnce
<1> QED BY <1>2, <1>3, <1>4, <1>6 DEF PsbtInv, Buried

\* The transaction is sent, or sent again, by a request that found it claimed.
LEMMA SendKeeps ==
  ASSUME PsbtInv, NEW p \in Teller, SendRawTransaction(p) \/ BroadcastAgain(p)
  PROVE  PsbtInv'
<1> DEFINE q == teller[p].q
<1>1. /\ teller[p] \in TellerRecord /\ q \in Psbt /\ TellerSound(teller[p])
      /\ teller \in [Teller -> TellerRecord]
  BY DEF PsbtInv, PsbtTypeOK, TellerRecord
<1>2. UNCHANGED psbt /\ psbt[q].status \in Claimed
  BY <1>1 DEF SendRawTransaction, BroadcastAgain, TellerSound
<1>3. \/ Acceptable(q) /\ tx[q].at # "mined" /\ Broadcasts(q)
      \/ UNCHANGED tx
  BY DEF SendRawTransaction, BroadcastAgain
<1>4. \/ teller' = [teller EXCEPT ![p] = IdleTeller]
      \/ \E t \in TellerRecord :
           /\ teller' = [teller EXCEPT ![p] = t] /\ t.q = q /\ t.depth = teller[p].depth
           /\ t.at \in {"supersede", "record"}
           /\ t.at = "supersede" \/ t.seen =>
                \/ Acceptable(q) /\ tx[q].at # "mined" /\ Broadcasts(q)
                \/ tx[q].at # "none"
  <2>1. CASE SendRawTransaction(p)
    <3> DEFINE t == [teller[p] EXCEPT !.at = "supersede"]
    <3>1. t \in TellerRecord /\ t.at = "supersede" /\ t.q = q /\ t.depth = teller[p].depth
      BY <1>1 DEF TellerRecord
    <3>2. TellerAt(p, "supersede") => teller' = [teller EXCEPT ![p] = t] /\ teller'[p] = t
      BY <1>1 DEF TellerAt
    <3> HIDE DEF t
    <3>3. CASE TellerDone(p)
      BY <3>3 DEF TellerDone
    <3>4. CASE TellerAt(p, "supersede")
      <4>1. teller'[p].at # "idle"
        BY <3>1, <3>2, <3>4
      <4>2. \/ Acceptable(q) /\ tx[q].at # "mined" /\ Broadcasts(q)
            \/ tx[q].at = "mempool"
        BY <2>1, <4>1 DEF SendRawTransaction
      <4> QED BY <3>1, <3>2, <3>4, <4>2
    <3> QED BY <2>1, <3>3, <3>4 DEF SendRawTransaction
  <2>2. CASE BroadcastAgain(p)
    <3> DEFINE t == [teller[p] EXCEPT !.at = "record"]
               u == [teller[p] EXCEPT !.at = "record", !.seen = TRUE]
    <3>1. /\ t \in TellerRecord /\ t.at = "record" /\ t.q = q /\ t.depth = teller[p].depth
          /\ t.seen = teller[p].seen
      BY <1>1 DEF TellerRecord
    <3>2. u \in TellerRecord /\ u.at = "record" /\ u.q = q /\ u.depth = teller[p].depth
      BY <1>1 DEF TellerRecord
    <3>3. teller[p].seen => tx[q].at # "none"
      BY <1>1 DEF TellerSound
    <3>4. CASE TellerAt(p, "record")
      <4>1. teller' = [teller EXCEPT ![p] = t]
        BY <3>4 DEF TellerAt
      <4> HIDE DEF t, u
      <4> QED BY <3>1, <3>3, <4>1
    <3>5. CASE /\ Acceptable(q) /\ tx[q].at # "mined" /\ Broadcasts(q)
               /\ teller' = [teller EXCEPT ![p].at = "record", ![p].seen = TRUE]
      <4>1. teller' = [teller EXCEPT ![p] = u]
        BY <1>1, <3>5
      <4> HIDE DEF t, u
      <4> QED BY <3>2, <3>5, <4>1
    <3> QED BY <2>2, <3>4, <3>5 DEF BroadcastAgain
  <2> QED BY <2>1, <2>2
<1> HIDE DEF q
<1>5. CASE Acceptable(q) /\ tx[q].at # "mined" /\ Broadcasts(q)
  <2>1. /\ tx' \in [Psbt -> TxRecord] /\ tx'[q].at = "mempool"
        /\ \A r \in Psbt :
             /\ tx[r].at # "none" => tx'[r].at # "none"
             /\ tx'[r].at # "none" => tx[r].at # "none" \/ psbt[r].status \in Claimed
             /\ tx'[r].at # "mined" => tx'[r].depth = 0
             /\ Buried(r) => tx'[r].at = "mined" /\ tx'[r].depth = Deep
        /\ MinedOnce'
    BY <1>1, <1>2, <1>5, BroadcastEffect
  <2>2. \A t \in TellerRecord : t.q = q /\ t.depth = teller[p].depth
                                  /\ t.at \in {"supersede", "record"} => TellerSound(t)'
    <3>1. teller[p].depth = Deep => Buried(q)
      BY <1>1 DEF TellerSound, q
    <3> QED BY <1>1, <2>1, <3>1 DEF TellerSound, Buried
  <2>3. TellersMove
    BY <1>4, <2>2, IdleTellerSound DEF TellersMove
  <2> QED BY <1>2, <2>1, <2>3, TxMoves
<1>6. CASE UNCHANGED tx /\ ~(Acceptable(q) /\ tx[q].at # "mined" /\ Broadcasts(q))
  <2>1. \A t \in TellerRecord : /\ t.q = q /\ t.depth = teller[p].depth
                                /\ t.at \in {"supersede", "record"}
                                /\ t.at = "supersede" \/ t.seen => tx[q].at # "none"
                                => TellerSound(t)
    <3>1. teller[p].depth = Deep => Buried(q)
      BY <1>1 DEF TellerSound, q
    <3> QED BY <1>1, <3>1 DEF TellerSound, Buried
  <2>2. \E t \in TellerRecord : TellerSound(t) /\ teller' = [teller EXCEPT ![p] = t]
    BY <1>4, <1>6, <2>1, IdleTellerSound
  <2> QED BY <1>2, <1>6, <2>2, TellerMoves
<1> QED BY <1>3, <1>5, <1>6

\* A request that goes on to a step that relies on nothing new, or gives up.
LEMMA TellerGoes ==
  ASSUME PsbtInv, NEW p \in Teller, UNCHANGED <<psbt, tx>>,
         \/ TellerDone(p)
         \/ TellerAt(p, "insert") /\ teller[p].at = "conflict"
         \/ TellerAt(p, "again") /\ psbt[teller[p].q].status \in Seen
         \/ \E at \in {"claim", "observe", "record"} : TellerAt(p, at)
  PROVE  PsbtInv'
<1>1. /\ teller[p] \in TellerRecord /\ TellerSound(teller[p]) /\ teller \in [Teller -> TellerRecord]
  BY DEF PsbtInv, PsbtTypeOK
<1>2. CASE TellerDone(p)
  BY <1>2, IdleTellerSound, TellerMoves DEF TellerDone
<1>3. ASSUME NEW at \in {"insert", "again", "claim", "observe", "record"}, TellerAt(p, at),
             at = "insert" => teller[p].at = "conflict",
             at = "again" => psbt[teller[p].q].status \in Seen
      PROVE  PsbtInv'
  <2> DEFINE t == [teller[p] EXCEPT !.at = at]
  <2>1. /\ t \in TellerRecord /\ t.at = at /\ t.q = teller[p].q /\ t.depth = teller[p].depth
        /\ t.seen = teller[p].seen /\ t.coin = teller[p].coin /\ t.rate = teller[p].rate
        /\ t.replaces = teller[p].replaces /\ teller' = [teller EXCEPT ![p] = t]
    BY <1>1, <1>3 DEF TellerRecord, TellerAt
  <2> HIDE DEF t
  <2>2. TellerSound(t)
    BY <1>1, <1>3, <2>1 DEF TellerSound, Planned, Buried, Claimed
  <2> QED BY <2>1, <2>2, TellerMoves
<1> QED BY <1>2, <1>3

\* A request begins: to create, to submit or to look after a payment.
LEMMA TellerBegins ==
  ASSUME PsbtInv, NEW p \in Teller, NEW q \in Psbt,
         \/ \E c \in Coin, rate \in Rates, r \in Psbt \cup {NoPsbt} :
              CreateBitcoinPsbt(p, q, c, rate, r)
         \/ SubmitSigned(p, q) \/ ReconcileBitcoinPsbt(p, q)
  PROVE  PsbtInv'
<1>1. UNCHANGED <<psbt, tx>> /\ teller \in [Teller -> TellerRecord] /\ Deep \in Nat /\ Deep # 0
  BY PsbtAssumption DEF CreateBitcoinPsbt, SubmitSigned, ReconcileBitcoinPsbt, PsbtInv, PsbtTypeOK
<1>2. ASSUME NEW c \in Coin, NEW rate \in Rates, NEW r \in Psbt \cup {NoPsbt},
             CreateBitcoinPsbt(p, q, c, rate, r)
      PROVE  PsbtInv'
  <2> DEFINE t == [IdleTeller EXCEPT !.at = "conflict", !.q = q, !.coin = c, !.rate = rate,
                                     !.replaces = r]
  <2>1. /\ t \in TellerRecord /\ t.at = "conflict" /\ t.q = q /\ t.depth = 0 /\ t.seen = FALSE
        /\ t.coin = c /\ t.rate = rate /\ t.replaces = r /\ teller' = [teller EXCEPT ![p] = t]
    BY <1>2, IdleTellerSound DEF TellerRecord, CreateBitcoinPsbt
  <2> HIDE DEF t
  <2>2. r # NoPsbt => /\ r \in Psbt /\ psbt[r].status \in Seen /\ psbt[r].coin = c
                      /\ FeePlan(Worth[c], rate).fee > psbt[r].fee
    BY <1>2 DEF CreateBitcoinPsbt
  <2>3. r # NoPsbt => psbt[r].fee < FeePlan(Worth[c], rate).fee
    BY <2>2
  <2>4. Planned(t)
    BY <1>2, <2>1, <2>2, <2>3 DEF Planned, CreateBitcoinPsbt, Seen
  <2>5. TellerSound(t)
    BY <1>1, <2>1, <2>4 DEF TellerSound
  <2> QED BY <1>1, <2>1, <2>5, TellerMoves
<1>3. CASE SubmitSigned(p, q) \/ ReconcileBitcoinPsbt(p, q)
  <2>1. PICK at \in {"accept", "observe"} :
          teller' = [teller EXCEPT ![p] = [IdleTeller EXCEPT !.at = at, !.q = q]]
    BY <1>3 DEF SubmitSigned, ReconcileBitcoinPsbt
  <2> DEFINE t == [IdleTeller EXCEPT !.at = at, !.q = q]
  <2>2. t \in TellerRecord /\ t.at = at /\ t.depth = 0 /\ t.seen = FALSE
    BY IdleTellerSound DEF TellerRecord
  <2>3. teller' = [teller EXCEPT ![p] = t]
    BY <2>1
  <2> HIDE DEF t
  <2>4. TellerSound(t)
    BY <1>1, <2>2 DEF TellerSound
  <2> QED BY <1>1, <2>2, <2>3, <2>4, TellerMoves
<1> QED BY <1>2, <1>3

\* A payment is created with the plan that was reviewed, unless its key is taken.
LEMMA InsertKeeps ==
  ASSUME PsbtInv, NEW p \in Teller, InsertPsbt(p)
  PROVE  PsbtInv'
<1> PICK t \in TellerRecord : t = teller[p]
  BY DEF PsbtInv, PsbtTypeOK
<1> PICK q \in Psbt : q = t.q
  BY DEF TellerRecord
<1> DEFINE plan == FeePlan(Worth[t.coin], t.rate)
           doc == [status |-> "awaiting", coin |-> t.coin, rate |-> t.rate, fee |-> plan.fee,
                   change |-> plan.change, replaces |-> t.replaces]
<1>1. /\ psbt \in [Psbt -> PsbtDocument] /\ tx \in [Psbt -> TxRecord]
      /\ t \in TellerRecord /\ q \in Psbt /\ Planned(t)
      /\ (t.replaces # NoPsbt => t.replaces \in Psbt)
  BY DEF InsertPsbt, PsbtInv, PsbtTypeOK, TellerSound, TellerRecord
<1>2. TellerDone(p) /\ UNCHANGED tx
  BY DEF InsertPsbt
<1>3. TellersMove
  BY <1>2, IdleTellerSound DEF TellersMove, TellerDone
<1>4. CASE psbt[q].status # "none"
  <2>1. UNCHANGED psbt
    BY <1>4 DEF InsertPsbt
  <2> QED BY <1>2, <2>1, TellerGoes
<1>5. CASE psbt[q].status = "none"
  <2>1. psbt' = [psbt EXCEPT ![q] = doc]
    BY <1>5 DEF InsertPsbt
  <2>2. Worth[t.coin] \in Nat /\ t.rate \in Rates /\ t.coin \in Coin
    BY <1>1, PsbtAssumption DEF Planned
  <2>3. /\ plan.fee \in Nat /\ plan.change \in Nat
        /\ Worth[t.coin] = Amount + plan.fee + plan.change
        /\ plan.fee <= MaxFee
        /\ plan.change = 0 \/ plan.change >= Dust
    BY <1>1, <2>2, FeePlanBalances DEF Planned
  <2>4. t.replaces # NoPsbt => /\ psbt[t.replaces].status # "none"
                               /\ psbt[t.replaces].fee < plan.fee
                               /\ psbt[t.replaces].coin = t.coin /\ t.replaces # q
    BY <1>1, <1>5 DEF Planned
  <2> HIDE DEF plan
  <2>5. /\ doc \in PsbtDocument /\ doc.status = "awaiting" /\ doc.coin = t.coin
        /\ doc.fee = plan.fee /\ doc.change = plan.change /\ doc.replaces = t.replaces
    BY <1>1, <2>2, <2>3 DEF PsbtDocument, PsbtActive, TellerRecord
  <2> HIDE DEF doc
  <2>6. /\ psbt' \in [Psbt -> PsbtDocument]
        /\ \A r \in Psbt : psbt'[r] = IF r = q THEN doc ELSE psbt[r]
    BY <1>1, <2>1, <2>5
  <2>7. Lasting
    BY <1>2, <1>5, <2>6 DEF Lasting, Buried, Claimed, Seen
  <2>8. /\ teller' \in [Teller -> TellerRecord]
        /\ \A r \in Teller : TellerSound(teller[r])'
    BY <1>3, <2>7, TellersStaySound
  <2>9. PlanOf(q)'
    BY <1>1, <2>3, <2>4, <2>5, <2>6 DEF PlanOf
  <2>10. \A r \in Psbt : psbt'[r].status # "none" => PlanOf(r)'
    <3> SUFFICES ASSUME NEW r \in Psbt, r # q, psbt[r].status # "none" PROVE PlanOf(r)'
      BY <2>6, <2>9
    <3>1. psbt'[r] = psbt[r] /\ PlanOf(r)
      BY <2>6 DEF PsbtInv
    <3>2. psbt[r].replaces # NoPsbt => psbt[r].replaces \in Psbt
      BY <1>1 DEF PsbtDocument
    <3>3. psbt[r].replaces # NoPsbt => psbt'[psbt[r].replaces] = psbt[psbt[r].replaces]
      BY <1>5, <2>6, <3>1, <3>2 DEF PlanOf
    <3> QED BY <3>1, <3>3 DEF PlanOf
  <2>11. tx[q].at = "none"
    BY <1>1, <1>5 DEF PsbtInv, SentIsClaimed, Seen
  <2>12. SentIsClaimed' /\ MinedOnce'
    BY <1>2, <2>6, <2>11 DEF PsbtInv, SentIsClaimed, MinedOnce
  <2>13. \A r \in Psbt : psbt'[r].status = "confirmed" => Buried(r)'
    BY <1>2, <2>5, <2>6 DEF PsbtInv, Buried
  <2>14. ReplacedHasReplacement'
    BY <1>2, <2>5, <2>6, <2>11 DEF PsbtInv, ReplacedHasReplacement
  <2> QED BY <1>1, <1>2, <2>6, <2>8, <2>10, <2>12, <2>13, <2>14 DEF PsbtInv, PsbtTypeOK
<1> QED BY <1>4, <1>5

\* A payment that is still awaited is abandoned, rejected or claimed.
LEMMA AwaitedMoves ==
  ASSUME PsbtInv, NEW q \in Psbt, NEW s \in {"abandoned", "failed", "broadcast"},
         psbt[q].status = "awaiting", psbt' = [psbt EXCEPT ![q].status = s], UNCHANGED tx,
         TellersMove
  PROVE  PsbtInv'
<1>1. /\ s \in PsbtActive \cup Claimed \cup {"abandoned", "failed"}
      /\ s # "confirmed" /\ s # "replaced"
      /\ psbt[q].status \notin Claimed /\ psbt[q].status # "none"
  BY DEF PsbtActive, Claimed, Seen
<1> QED BY <1>1, StatusMoves

\* The owner abandons a payment that was not submitted.
LEMMA AbandonKeeps ==
  ASSUME PsbtInv, NEW q \in Psbt, AbandonBitcoinPsbt(q)
  PROVE  PsbtInv'
<1>1. /\ psbt[q].status = "awaiting" /\ psbt' = [psbt EXCEPT ![q].status = "abandoned"]
      /\ UNCHANGED tx /\ TellersMove
  BY DEF AbandonBitcoinPsbt, TellersMove
<1> QED BY <1>1, AwaitedMoves

\* Core refuses the transaction: only a payment that is still awaited fails.
LEMMA TestKeeps ==
  ASSUME PsbtInv, NEW p \in Teller, TestMempoolAccept(p)
  PROVE  PsbtInv'
<1> DEFINE q == teller[p].q
<1>1. q \in Psbt /\ UNCHANGED tx /\ psbt \in [Psbt -> PsbtDocument]
  BY DEF TestMempoolAccept, PsbtInv, PsbtTypeOK, TellerRecord
<1>2. CASE UNCHANGED psbt /\ (TellerAt(p, "claim") \/ TellerDone(p))
  BY <1>1, <1>2, TellerGoes
<1>3. CASE /\ psbt' = [psbt EXCEPT ![q].status = IF @ = "awaiting" THEN "failed" ELSE @]
           /\ TellerDone(p)
  <2>1. TellersMove
    BY <1>3, IdleTellerSound DEF TellersMove, TellerDone
  <2>2. CASE psbt[q].status = "awaiting"
    <3>1. psbt' = [psbt EXCEPT ![q].status = "failed"]
      BY <1>3, <2>2
    <3> HIDE DEF q
    <3> QED BY <1>1, <2>1, <2>2, <3>1, AwaitedMoves
  <2>3. CASE psbt[q].status # "awaiting"
    <3>1. psbt' = psbt
      BY <1>1, <1>3, <2>3 DEF PsbtDocument
    <3> QED BY <1>1, <1>3, <3>1, TellerGoes
  <2> QED BY <2>2, <2>3
<1> QED BY <1>2, <1>3 DEF TestMempoolAccept

\* The raw transaction is stored while the payment is still awaited.
LEMMA ClaimKeeps ==
  ASSUME PsbtInv, NEW p \in Teller, ClaimBroadcast(p)
  PROVE  PsbtInv'
<1> DEFINE q == teller[p].q
<1>1. /\ q \in Psbt /\ UNCHANGED tx /\ teller[p] \in TellerRecord /\ TellerSound(teller[p])
      /\ psbt \in [Psbt -> PsbtDocument]
  BY DEF ClaimBroadcast, PsbtInv, PsbtTypeOK, TellerRecord
<1>2. CASE UNCHANGED psbt /\ TellerAt(p, "observe")
  BY <1>1, <1>2, TellerGoes
<1>3. CASE /\ psbt[q].status = "awaiting" /\ TellerAt(p, "send")
           /\ psbt' = [psbt EXCEPT ![q].status = "broadcast"]
  <2>1. PICK t \in TellerRecord :
          /\ t.at = "send" /\ t.q = q /\ t.depth = teller[p].depth
          /\ t.seen = teller[p].seen /\ teller' = [teller EXCEPT ![p] = t]
    <3> DEFINE u == [teller[p] EXCEPT !.at = "send"]
    <3>1. /\ u \in TellerRecord /\ u.at = "send" /\ u.q = q /\ u.depth = teller[p].depth
          /\ u.seen = teller[p].seen /\ teller' = [teller EXCEPT ![p] = u]
      BY <1>1, <1>3 DEF TellerAt, TellerRecord
    <3> HIDE DEF u
    <3> QED BY <3>1
  <2>2. psbt'[q].status = "broadcast"
    BY <1>1, <1>3 DEF PsbtDocument
  <2>3. TellerSound(t)'
    BY <1>1, <2>1, <2>2 DEF TellerSound, Buried, Claimed, Seen
  <2>4. TellersMove
    BY <2>1, <2>3 DEF TellersMove
  <2> HIDE DEF q
  <2> QED BY <1>1, <1>3, <2>4, AwaitedMoves
<1> QED BY <1>2, <1>3 DEF ClaimBroadcast

\* A sent replacement marks what it replaces.
LEMMA SupersedeKeeps ==
  ASSUME PsbtInv, NEW p \in Teller, Supersede(p)
  PROVE  PsbtInv'
<1> DEFINE q == teller[p].q
           r == psbt[q].replaces
<1>1. /\ q \in Psbt /\ UNCHANGED tx /\ TellerDone(p) /\ tx[q].at # "none"
      /\ (r # NoPsbt => r \in Psbt)
  BY DEF Supersede, PsbtInv, PsbtTypeOK, TellerRecord, TellerSound, PsbtDocument
<1>2. TellersMove
  BY <1>1, IdleTellerSound DEF TellersMove, TellerDone
<1>3. CASE psbt' = psbt
  BY <1>1, <1>3, TellerGoes
<1>4. CASE /\ r # NoPsbt /\ psbt[r].status \in Seen
           /\ psbt' = [psbt EXCEPT ![r].status = "replaced"]
  <2>1. \E a \in Psbt : psbt[a].replaces = r /\ tx[a].at # "none"
    BY <1>1
  <2>2. r \in Psbt /\ psbt[r].status # "none"
    BY <1>1, <1>4 DEF Seen
  <2>3. "replaced" \in Claimed
    BY DEF Claimed
  <2> HIDE DEF r
  <2> QED BY <1>1, <1>2, <1>4, <2>1, <2>2, <2>3, StatusMoves
<1> QED BY <1>3, <1>4 DEF Supersede

\* What was observed of a transaction becomes the payment's status: confirmed only
\* at the depth its policy asks.
LEMMA RecordKeeps ==
  ASSUME PsbtInv, NEW p \in Teller, RecordDepth(p)
  PROVE  PsbtInv'
<1> DEFINE q == teller[p].q
           d == teller[p].depth
<1>1. /\ q \in Psbt /\ UNCHANGED tx /\ teller[p] \in TellerRecord /\ TellerSound(teller[p])
      /\ d \in 0..Deep /\ Deep \in Nat
  BY PsbtAssumption DEF RecordDepth, PsbtInv, PsbtTypeOK, TellerRecord
<1>2. CASE psbt[q].status \notin Seen
  BY <1>1, <1>2, TellerGoes DEF RecordDepth
<1>3. CASE psbt[q].status \in Seen
  <2> DEFINE s == CASE d >= Deep -> "confirmed" [] d \in 1..(Deep - 1) -> "confirming"
                    [] OTHER -> "broadcast"
  <2>1. psbt' = [psbt EXCEPT ![q].status = s]
    BY <1>3 DEF RecordDepth
  <2>2. s \in {"confirmed", "confirming", "broadcast"} /\ (s = "confirmed" => d = Deep)
    BY <1>1
  <2>3. s = "confirmed" => Buried(q)
    BY <1>1, <2>2 DEF TellerSound
  <2> HIDE DEF s
  <2>4. TellersMove
    <3>1. CASE TellerDone(p)
      BY <3>1, IdleTellerSound DEF TellersMove, TellerDone
    <3>2. CASE teller[p].seen /\ TellerAt(p, "supersede")
      <4>1. PICK t \in TellerRecord :
              /\ t.at = "supersede" /\ t.q = q /\ t.depth = d
              /\ t.seen = teller[p].seen /\ teller' = [teller EXCEPT ![p] = t]
        <5> DEFINE u == [teller[p] EXCEPT !.at = "supersede"]
        <5>1. /\ u \in TellerRecord /\ u.at = "supersede" /\ u.q = q /\ u.depth = d
              /\ u.seen = teller[p].seen /\ teller' = [teller EXCEPT ![p] = u]
          BY <1>1, <3>2 DEF TellerAt, TellerRecord
        <5> HIDE DEF u
        <5> QED BY <5>1
      <4>2. TellerSound(t)'
        BY <1>1, <3>2, <4>1 DEF TellerSound, Buried
      <4> QED BY <4>1, <4>2 DEF TellersMove
    <3> QED BY <1>3, <3>1, <3>2 DEF RecordDepth
  <2>5. s \in Claimed /\ s # "replaced" /\ psbt[q].status # "none"
    BY <1>3, <2>2 DEF Claimed, Seen
  <2> QED BY <1>1, <2>1, <2>3, <2>4, <2>5, StatusMoves
<1> QED BY <1>2, <1>3

\* A request that looks at the chain and the mempool keeps what it saw.
LEMMA ObserveKeeps ==
  ASSUME PsbtInv, NEW p \in Teller, ObserveTransaction(p)
  PROVE  PsbtInv'
<1> DEFINE q == teller[p].q
           t == [teller[p] EXCEPT !.at = "record", !.seen = TRUE, !.depth = tx[q].depth]
<1>1. /\ q \in Psbt /\ UNCHANGED <<psbt, tx>> /\ teller[p] \in TellerRecord
      /\ tx[q] \in TxRecord /\ tx[q].depth \in 0..Deep /\ teller \in [Teller -> TellerRecord]
      /\ Deep # 0
  BY PsbtAssumption DEF ObserveTransaction, PsbtInv, PsbtTypeOK, TellerRecord, TxRecord
<1>2. CASE \/ TellerDone(p) \/ TellerAt(p, "record")
           \/ TellerAt(p, "again") /\ psbt[q].status \in Seen
  BY <1>1, <1>2, TellerGoes
<1>3. CASE /\ tx[q].at \in {"mempool", "mined"}
           /\ teller' = [teller EXCEPT ![p].at = "record", ![p].seen = TRUE,
                                       ![p].depth = tx[q].depth]
  <2>1. /\ t \in TellerRecord /\ t.at = "record" /\ t.q = q /\ t.depth = tx[q].depth
        /\ t.seen = TRUE /\ teller' = [teller EXCEPT ![p] = t]
    BY <1>1, <1>3 DEF TellerRecord
  <2> HIDE DEF t
  <2>2. TellerSound(t)
    BY <1>1, <1>3, <2>1 DEF TellerSound, Buried, PsbtInv
  <2> QED BY <1>1, <2>1, <2>2, TellerMoves
<1> QED BY <1>2, <1>3 DEF ObserveTransaction

\* Miners take a transaction whose coin is unspent.
LEMMA MineKeeps ==
  ASSUME PsbtInv, NEW q \in Psbt, Mine(q)
  PROVE  PsbtInv'
<1>1. tx \in [Psbt -> TxRecord] /\ Deep \in Nat /\ Deep # 0
  BY PsbtAssumption DEF PsbtInv, PsbtTypeOK
<1>2. UNCHANGED <<psbt, teller>> /\ tx[q].at \in {"mempool", "out"}
  BY DEF Mine
<1>3. \A r \in Rival(q) : r \in Psbt /\ tx[r].at = "mempool" /\ tx[r].depth = 0
  BY DEF Mine, Rival, PsbtInv
<1>4. /\ tx'[q].at = "mined" /\ tx'[q] \in TxRecord
      /\ \A r \in Psbt \ {q} : r \in Rival(q) =>
           tx'[r].at = "out" /\ tx'[r].depth = 0 /\ tx'[r] \in TxRecord
      /\ \A r \in Psbt \ {q} : r \notin Rival(q) => tx'[r] = tx[r]
  <2>1. \A r \in Psbt : tx'[r] = IF r = q THEN [at |-> "mined", depth |-> 1]
                                 ELSE IF r \in Rival(q) THEN [tx[r] EXCEPT !.at = "out"] ELSE tx[r]
    BY DEF Mine
  <2>2. [at |-> "mined", depth |-> 1] \in TxRecord
    BY <1>1 DEF TxRecord
  <2>3. ASSUME NEW r \in Psbt \ {q}, r \in Rival(q)
        PROVE  tx'[r].at = "out" /\ tx'[r].depth = 0 /\ tx'[r] \in TxRecord
    <3>1. tx'[r] = [tx[r] EXCEPT !.at = "out"]
      BY <2>1, <2>3
    <3>2. tx[r] \in TxRecord /\ tx[r].depth = 0
      BY <1>1, <1>3, <2>3
    <3> QED BY <3>1, <3>2 DEF TxRecord
  <2>4. tx'[q] = [at |-> "mined", depth |-> 1]
    BY <2>1
  <2>5. \A r \in Psbt \ {q} : r \notin Rival(q) => tx'[r] = tx[r]
    BY <2>1
  <2> QED BY <2>2, <2>3, <2>4, <2>5
<1>5. tx' \in [Psbt -> TxRecord]
  <2>1. \A r \in Psbt : tx'[r] \in TxRecord
    BY <1>1, <1>4
  <2> QED BY <2>1 DEF Mine
<1>6. \A r \in Psbt \ {q} : tx'[r].at = "mined" =>
        tx[r].at = "mined" /\ psbt[r].coin # psbt[q].coin
  <2>1. \A r \in Psbt \ {q} : tx'[r].at = "mined" => tx[r].at = "mined" /\ r \notin Rival(q)
    BY <1>4
  <2> QED BY <2>1 DEF Rival
<1>7. MinedOnce'
  BY <1>2, <1>6 DEF PsbtInv, MinedOnce
<1>8. \A r \in Psbt : /\ tx[r].at # "none" => tx'[r].at # "none"
                      /\ tx'[r].at # "none" => tx[r].at # "none"
                      /\ tx'[r].at # "mined" => tx'[r].depth = 0
                      /\ Buried(r) => tx'[r].at = "mined" /\ tx'[r].depth = Deep
  BY <1>2, <1>3, <1>4 DEF PsbtInv, Buried
<1> QED BY <1>2, <1>5, <1>7, <1>8, TxMoves DEF TellersMove

\* A block is buried, a shallow one undone, a transaction forgotten.
LEMMA ChainKeeps ==
  ASSUME PsbtInv, NEW q \in Psbt, ChainMoves(q)
  PROVE  PsbtInv'
<1>1. tx \in [Psbt -> TxRecord] /\ Deep \in Nat /\ tx[q] \in TxRecord
  BY PsbtAssumption DEF PsbtInv, PsbtTypeOK
<1>2. UNCHANGED <<psbt, teller>>
  BY DEF ChainMoves
<1>3. ASSUME NEW t \in TxRecord, tx' = [tx EXCEPT ![q] = t], tx[q].at # "none", t.at # "none",
             t.at = "mined" => tx[q].at = "mined", t.at # "mined" => t.depth = 0, ~Buried(q)
      PROVE  PsbtInv'
  <2>1. tx' \in [Psbt -> TxRecord] /\ \A r \in Psbt : tx'[r] = IF r = q THEN t ELSE tx[r]
    BY <1>1, <1>3
  <2>2. MinedOnce'
    BY <1>2, <1>3, <2>1 DEF PsbtInv, MinedOnce
  <2>3. \A r \in Psbt : /\ tx[r].at # "none" => tx'[r].at # "none"
                        /\ tx'[r].at # "none" => tx[r].at # "none"
                        /\ tx'[r].at # "mined" => tx'[r].depth = 0
                        /\ Buried(r) => tx'[r].at = "mined" /\ tx'[r].depth = Deep
    BY <1>3, <2>1 DEF PsbtInv, Buried
  <2> QED BY <1>2, <2>1, <2>2, <2>3, TxMoves DEF TellersMove
<1>4. CASE tx[q].at = "mined" /\ tx[q].depth < Deep /\ tx' = [tx EXCEPT ![q].depth = @ + 1]
  <2> DEFINE t == [tx[q] EXCEPT !.depth = tx[q].depth + 1]
  <2>1. tx[q].depth + 1 \in 0..Deep /\ tx[q].depth # Deep
    BY <1>1, <1>4 DEF TxRecord
  <2>2. t \in TxRecord /\ t.at = "mined" /\ tx' = [tx EXCEPT ![q] = t]
    BY <1>1, <1>4, <2>1 DEF TxRecord
  <2> HIDE DEF t
  <2> QED BY <1>3, <1>4, <2>1, <2>2 DEF Buried
<1>5. CASE /\ tx[q].at = "mined" /\ tx[q].depth < Deep
           /\ tx' = [tx EXCEPT ![q] = [at |-> "mempool", depth |-> 0]]
  <2> DEFINE t == [at |-> "mempool", depth |-> 0]
  <2>1. t \in TxRecord /\ t.at = "mempool" /\ t.depth = 0 /\ tx' = [tx EXCEPT ![q] = t]
    BY <1>1, <1>5 DEF TxRecord
  <2>2. tx[q].depth # Deep
    BY <1>1, <1>5 DEF TxRecord
  <2> HIDE DEF t
  <2> QED BY <1>3, <1>5, <2>1, <2>2 DEF Buried
<1>6. CASE tx[q].at = "mempool" /\ tx' = [tx EXCEPT ![q].at = "out"]
  <2> DEFINE t == [tx[q] EXCEPT !.at = "out"]
  <2>1. t \in TxRecord /\ t.at = "out" /\ t.depth = tx[q].depth /\ tx' = [tx EXCEPT ![q] = t]
    BY <1>1, <1>6 DEF TxRecord
  <2> HIDE DEF t
  <2> QED BY <1>3, <1>6, <2>1 DEF Buried, PsbtInv
<1> QED BY <1>4, <1>5, <1>6 DEF ChainMoves

\* Every step of the on-chain payments keeps the invariant.
LEMMA PsbtStepKeeps == PsbtInv /\ [PsbtNext]_psbtVars => PsbtInv'
<1> SUFFICES ASSUME PsbtInv, [PsbtNext]_psbtVars PROVE PsbtInv'
  OBVIOUS
<1>1. CASE UNCHANGED psbtVars
  <2>1. UNCHANGED <<psbt, tx>> /\ teller' = teller
    BY <1>1 DEF psbtVars
  <2>2. /\ teller' \in [Teller -> TellerRecord]
        /\ \A q \in Teller : TellerSound(teller[q])'
    BY <2>1, TellersStaySound DEF TellersMove, Lasting, Buried
  <2> QED BY <2>1, <2>2 DEF PsbtInv, PsbtTypeOK, PlanOf, SentIsClaimed, MinedOnce, Buried,
                            ReplacedHasReplacement
<1>2. ASSUME NEW p \in Teller, CheckConflict(p) \/ CrashTeller(p) PROVE PsbtInv'
  BY <1>2, TellerGoes DEF CheckConflict, CrashTeller
<1> QED BY <1>1, <1>2, TellerBegins, InsertKeeps, AbandonKeeps, TestKeeps, ClaimKeeps,
           SupersedeKeeps, RecordKeeps, ObserveKeeps, SendKeeps, MineKeeps, ChainKeeps DEF PsbtNext

\* The invariant says what the run checks.
LEMMA PsbtInvSound == PsbtInv => PsbtTypeOK /\ PsbtSound
<1> SUFFICES ASSUME PsbtInv PROVE PsbtTypeOK /\ PsbtSound
  OBVIOUS
<1>1. PlanBalances
  BY DEF PsbtInv, PlanOf, PlanBalances
<1>2. ConfirmedOnce
  BY DEF PsbtInv, Buried, MinedOnce, ConfirmedOnce
<1> QED BY <1>1, <1>2 DEF PsbtInv, PsbtSound

\* Of the payments that compete for a coin, through replacements, reorganisations,
\* lost answers and crashes: each balances to the last unit, none is sent before it is
\* claimed, one at most is confirmed, at the required depth, and a replaced one has a
\* replacement that was sent.
THEOREM PsbtCorrect == PsbtSpec => [](PsbtTypeOK /\ PsbtSound)
BY PsbtInitial, PsbtStepKeeps, PsbtInvSound, PTL DEF PsbtSpec
-----------------------------------------------------------------------------
(* The CKB vault.                                                          *)
\* The outputs of one committed transaction.
Outputs(i, t) == {<<i, k>> : k \in DOMAIN t.outs}

\* An out point is an output of a committed transaction, and a pair of numbers.
LEMMA PointsTyped ==
  ASSUME WalletFundingTypeOK
  PROVE  /\ \A p : p \in OutPoints
                     <=> \E i \in DOMAIN chain : \E k \in DOMAIN chain[i].outs : p = <<i, k>>
         /\ \A p \in OutPoints : /\ p \in Point /\ p[1] \in DOMAIN chain
                                 /\ p[2] \in DOMAIN chain[p[1]].outs /\ Capacity(p) \in Nat
<1>1. \A p : p \in OutPoints
               <=> \E i \in DOMAIN chain : \E k \in DOMAIN chain[i].outs : p = <<i, k>>
  BY DEF OutPoints
<1>2. ASSUME NEW i \in DOMAIN chain, NEW k \in DOMAIN chain[i].outs
      PROVE  i \in Nat /\ k \in Nat /\ chain[i].outs[k] \in Nat
  <2>1. i \in Nat /\ chain[i] \in TransactionRecord
    BY DEF WalletFundingTypeOK
  <2>2. chain[i].outs \in Seq(Nat)
    BY <2>1 DEF TransactionRecord
  <2> QED BY <2>1, <2>2
<1>3. ASSUME NEW p \in OutPoints
      PROVE  /\ p \in Point /\ p[1] \in DOMAIN chain
             /\ p[2] \in DOMAIN chain[p[1]].outs /\ Capacity(p) \in Nat
  <2>0. PICK i \in DOMAIN chain : \E k \in DOMAIN chain[i].outs : p = <<i, k>>
    BY <1>1
  <2>1. PICK k \in DOMAIN chain[i].outs : p = <<i, k>>
    BY <2>0
  <2>2. p[1] = i /\ p[2] = k
    BY <2>1
  <2> QED BY <1>2, <2>1, <2>2 DEF Point, Capacity
<1> QED BY <1>1, <1>3

\* A transaction has finitely many outputs.
LEMMA OutputsFinite ==
  ASSUME NEW i, NEW t \in TransactionRecord
  PROVE  IsFiniteSet(Outputs(i, t))
<1> DEFINE g == [k \in DOMAIN t.outs |-> <<i, k>>]
<1>1. t.outs \in Seq(Nat)
  BY DEF TransactionRecord
<1>2. Len(t.outs) \in Nat /\ DOMAIN t.outs = 1..Len(t.outs)
  BY <1>1
<1>3. IsFiniteSet(DOMAIN t.outs)
  BY <1>2, FS_Interval
<1>4. g \in Surjection(DOMAIN t.outs, Outputs(i, t))
  BY DEF Surjection, Outputs
<1> QED BY <1>3, <1>4, FS_Surjection DEF ExistsSurjection

\* There are finitely many out points.
LEMMA PointsFinite ==
  ASSUME WalletFundingTypeOK
  PROVE  IsFiniteSet(OutPoints)
<1> DEFINE T == {Outputs(i, chain[i]) : i \in DOMAIN chain}
           g == [i \in DOMAIN chain |-> Outputs(i, chain[i])]
<1>1. Len(chain) \in Nat /\ DOMAIN chain = 1..Len(chain)
  BY DEF WalletFundingTypeOK
<1>2. IsFiniteSet(DOMAIN chain)
  BY <1>1, FS_Interval
<1>3. g \in Surjection(DOMAIN chain, T)
  BY DEF Surjection
<1>4. IsFiniteSet(T)
  BY <1>2, <1>3, FS_Surjection DEF ExistsSurjection
<1>5. ASSUME NEW i \in DOMAIN chain PROVE IsFiniteSet(Outputs(i, chain[i]))
  <2>1. chain[i] \in TransactionRecord
    BY DEF WalletFundingTypeOK
  <2> QED BY <2>1, OutputsFinite
<1>6. IsFiniteSet(UNION T)
  BY <1>4, <1>5, FS_UNION
<1> QED BY <1>6 DEF OutPoints, Outputs

\* A committed transaction adds its outputs to the out points and its inputs to the
\* spent ones; what was on the chain stays as it was.
LEMMA ChainGrows ==
  ASSUME WalletFundingTypeOK, NEW t \in TransactionRecord, chain' = Append(chain, t)
  PROVE  /\ chain' \in Seq(TransactionRecord) /\ DOMAIN chain' = DOMAIN chain \cup {Len(chain) + 1}
         /\ Len(chain) + 1 \notin DOMAIN chain /\ chain'[Len(chain) + 1] = t
         /\ \A i \in DOMAIN chain : chain'[i] = chain[i]
         /\ OutPoints' = OutPoints \cup Outputs(Len(chain) + 1, t)
         /\ OutPoints \cap Outputs(Len(chain) + 1, t) = {}
         /\ \A p \in OutPoints : Capacity(p)' = Capacity(p)
         /\ SpentPoints' = SpentPoints \cup t.inputs
<1> DEFINE n == Len(chain) + 1
<1>1. /\ chain \in Seq(TransactionRecord) /\ Len(chain) \in Nat /\ DOMAIN chain = 1..Len(chain)
  BY DEF WalletFundingTypeOK
<1>2. /\ chain' \in Seq(TransactionRecord) /\ Len(chain') = n
      /\ DOMAIN chain' = 1..n /\ chain'[n] = t
      /\ \A i \in 1..Len(chain) : chain'[i] = chain[i]
  BY <1>1
<1>3. DOMAIN chain' = DOMAIN chain \cup {n} /\ n \notin DOMAIN chain
  BY <1>1, <1>2
<1>4. \A i \in DOMAIN chain : chain'[i] = chain[i]
  BY <1>1, <1>2
<1> HIDE DEF n
<1>5. OutPoints' = OutPoints \cup Outputs(n, t)
  BY <1>2, <1>3, <1>4 DEF OutPoints, Outputs
<1>6. OutPoints \cap Outputs(n, t) = {}
  BY <1>3, PointsTyped DEF Outputs
<1>7. ASSUME NEW p \in OutPoints PROVE Capacity(p)' = Capacity(p)
  <2>1. chain'[p[1]] = chain[p[1]]
    BY <1>4, PointsTyped
  <2> QED BY <2>1 DEF Capacity
<1>8. SpentPoints' = SpentPoints \cup t.inputs
  BY <1>2, <1>3, <1>4 DEF SpentPoints
<1> QED BY <1>2, <1>3, <1>4, <1>5, <1>6, <1>7, <1>8 DEF n

\* The total of the entries of c over a part of its domain.
SumOver(c, A) == Total([p \in A |-> c[p]])

\* Of the transactions that were sent each consumes live cells of its own, and pays out
\* what it does not return to the vault.
PoolSound ==
  /\ \A t \in pool :
       /\ t.inputs # {} /\ t.inputs \subseteq OutPoints \ SpentPoints
       /\ \/ t.outs = <<>> /\ CapacityOf(t.inputs) = t.paid
          \/ \E c \in Nat : t.outs = <<c>> /\ CapacityOf(t.inputs) = t.paid + c
  /\ \A t, other \in pool : t # other => t.inputs \cap other.inputs = {}

\* A request has listed cells that were on the chain, and credits records that exist.
DeskSound ==
  \A d \in Desk :
    /\ desk[d].cells \subseteq OutPoints
    /\ desk[d].pc \in {"recovered", "confirm"} => desk[d].at \in DOMAIN fund
    /\ \A r \in desk[d].pending : r.id \in DOMAIN fund

\* The inductive invariant of the vault.
VaultInv ==
  /\ WalletFundingTypeOK
  /\ SpentPoints \subseteq OutPoints
  /\ PoolSound /\ VaultConserves
  /\ DepositCreditedOnce /\ DeskSound

\* What the committed transactions paid out grows by what the next one pays.
LEMMA PaidGrows ==
  ASSUME WalletFundingTypeOK, NEW t \in TransactionRecord, chain' = Append(chain, t)
  PROVE  PaidOut \in Nat /\ PaidOut' = PaidOut + t.paid
<1> DEFINE n == Len(chain) + 1
<1>1. /\ DOMAIN chain' = DOMAIN chain \cup {n} /\ n \notin DOMAIN chain /\ chain'[n] = t
      /\ \A i \in DOMAIN chain : chain'[i] = chain[i]
  BY ChainGrows
<1>2. IsFiniteSet(DOMAIN chain) /\ IsFiniteSet({n})
  <2>1. Len(chain) \in Nat /\ DOMAIN chain = 1..Len(chain)
    BY DEF WalletFundingTypeOK
  <2>2. IsFiniteSet(DOMAIN chain)
    BY <2>1, FS_Interval
  <2> QED BY <2>2, FS_Singleton
<1>3. \A i \in DOMAIN chain : chain[i].paid \in Nat
  <2>1. \A i \in DOMAIN chain : chain[i] \in TransactionRecord
    BY DEF WalletFundingTypeOK
  <2> QED BY <2>1 DEF TransactionRecord
<1>4. t.paid \in Nat
  BY DEF TransactionRecord
<1> HIDE DEF n
<1>5. PICK f \in [DOMAIN chain -> Nat] : f = [i \in DOMAIN chain |-> chain[i].paid]
  BY <1>3
<1>6. PICK g \in [{n} -> Nat] : g = [i \in {n} |-> t.paid]
  BY <1>4
<1>7. PICK h \in [DOMAIN chain \cup {n} -> Nat] :
        h = [i \in DOMAIN chain \cup {n} |-> chain'[i].paid]
  BY <1>1, <1>3, <1>4
<1>8. (\A i \in DOMAIN chain : h[i] = f[i]) /\ (\A i \in {n} : h[i] = g[i])
  BY <1>1, <1>5, <1>6, <1>7
<1>9. Total(h) = Total(f) + Total(g)
  <2>1. PICK A, B : A = DOMAIN chain /\ B = {n}
    OBVIOUS
  <2>2. /\ A \cap B = {} /\ IsFiniteSet(A) /\ IsFiniteSet(B)
        /\ f \in [A -> Nat] /\ g \in [B -> Nat] /\ h \in [A \cup B -> Nat]
        /\ (\A x \in A : h[x] = f[x]) /\ (\A x \in B : h[x] = g[x])
    BY <1>1, <1>2, <1>8, <2>1
  <2> QED BY ONLY <2>2, TotalUnion
<1>10. Total(g) = t.paid
  BY <1>6, TotalOne
<1>11. PaidOut = Total(f)
  BY <1>5 DEF PaidOut
<1>12. PaidOut' = Total(h)
  BY <1>1, <1>7 DEF PaidOut
<1> QED BY <1>2, <1>9, <1>10, <1>11, <1>12, UnitsFinite

\* A transaction that a user or the service commits keeps the vault's balance: its
\* inputs were live, and they are worth its outputs and what it pays.
LEMMA BalanceKeeps ==
  ASSUME VaultInv, NEW t \in TransactionRecord, chain' = Append(chain, t),
         (t.inputs = {} /\ t.paid = 0) \/ t \in pool
  PROVE  /\ SpentPoints' \subseteq OutPoints' /\ VaultConserves'
         /\ \A A \in SUBSET OutPoints : CapacityOf(A)' = CapacityOf(A)
<1>1. PICK n, New :
        /\ n = Len(chain) + 1 /\ New = Outputs(n, t)
        /\ chain' \in Seq(TransactionRecord) /\ DOMAIN chain' = DOMAIN chain \cup {n}
        /\ n \notin DOMAIN chain /\ chain'[n] = t
        /\ \A i \in DOMAIN chain : chain'[i] = chain[i]
        /\ OutPoints' = OutPoints \cup New
        /\ OutPoints \cap New = {}
        /\ \A p \in OutPoints : Capacity(p)' = Capacity(p)
        /\ SpentPoints' = SpentPoints \cup t.inputs
  BY ChainGrows DEF VaultInv
<1>2. t.inputs \subseteq OutPoints \ SpentPoints /\ SpentPoints \subseteq OutPoints
  BY DEF VaultInv, PoolSound
<1>3. IsFiniteSet(OutPoints \cup New)
  BY <1>1, PointsFinite, OutputsFinite, FS_Union DEF VaultInv
<1>4. \A p \in OutPoints : /\ Capacity(p) \in Nat /\ p[1] \in DOMAIN chain
  BY PointsTyped DEF VaultInv
<1>5. ASSUME NEW p \in New
      PROVE  /\ p[1] = n /\ p[2] \in DOMAIN t.outs
             /\ Capacity(p)' = t.outs[p[2]] /\ Capacity(p)' \in Nat
  <2>1. PICK k \in DOMAIN t.outs : p = <<n, k>>
    BY <1>1 DEF Outputs
  <2>2. p[1] = n /\ p[2] = k
    BY <2>1
  <2>3. Capacity(p)' = t.outs[k]
    BY <1>1, <2>2 DEF Capacity
  <2>4. t.outs \in Seq(Nat)
    BY DEF TransactionRecord
  <2> QED BY <2>2, <2>3, <2>4
<1>6. PICK c \in [OutPoints \cup New -> Nat] : c = [p \in OutPoints \cup New |-> Capacity(p)']
  <2>1. \A p \in OutPoints \cup New : Capacity(p)' \in Nat
    BY <1>1, <1>4, <1>5
  <2>2. [p \in OutPoints \cup New |-> Capacity(p)'] \in [OutPoints \cup New -> Nat]
    BY <2>1
  <2> QED BY <2>2
<1>7. ASSUME NEW A \in SUBSET OutPoints
      PROVE  SumOver(c, A) = CapacityOf(A) /\ CapacityOf(A)' = CapacityOf(A)
  <2>1. [p \in A |-> c[p]] = [p \in A |-> Capacity(p)]
    BY <1>1, <1>6
  <2>2. [p \in A |-> Capacity(p)'] = [p \in A |-> Capacity(p)]
    BY <1>1
  <2> QED BY <2>1, <2>2 DEF CapacityOf, SumOver
<1>8. ASSUME NEW A \in SUBSET (OutPoints \cup New), NEW B \in SUBSET (OutPoints \cup New),
             A \cap B = {}, NEW U, U = A \cup B
      PROVE  /\ SumOver(c, A) \in Nat /\ SumOver(c, B) \in Nat
             /\ SumOver(c, U) = SumOver(c, A) + SumOver(c, B)
  <2>1. IsFiniteSet(A) /\ IsFiniteSet(B)
    BY <1>3, FS_Subset
  <2> DEFINE f == [p \in A |-> c[p]]
             g == [p \in B |-> c[p]]
             h == [p \in A \cup B |-> c[p]]
  <2>2. f \in [A -> Nat] /\ g \in [B -> Nat] /\ h \in [A \cup B -> Nat]
    OBVIOUS
  <2>3. (\A p \in A : h[p] = f[p]) /\ (\A p \in B : h[p] = g[p])
    OBVIOUS
  <2>4. A \cap B = {}
    BY <1>8
  <2> HIDE DEF f, g, h
  <2>5. Total(f) \in Nat /\ Total(g) \in Nat
    BY <2>1, <2>2, UnitsFinite
  <2>6. Total(h) = Total(f) + Total(g)
    BY ONLY <2>1, <2>2, <2>3, <2>4, TotalUnion
  <2>7. U = A \cup B
    BY <1>8
  <2> QED BY <2>7, <2>5, <2>6 DEF SumOver, f, g, h
<1>9. PICK D, L, m : D = Deposited /\ L = OutPoints \ SpentPoints /\ m = PaidOut
  OBVIOUS
<1>10. D \in SUBSET OutPoints /\ L \in SUBSET OutPoints
  BY <1>9 DEF Deposited
<1>11. SumOver(c, D) = SumOver(c, L) + m /\ m \in Nat /\ PaidOut' = m + t.paid /\ t.paid \in Nat
  <2>1. CapacityOf(D) = CapacityOf(L) + m
    BY <1>9 DEF VaultInv, VaultConserves, LiveCapacity, ListLiveVaultCells
  <2>2. SumOver(c, D) = CapacityOf(D) /\ SumOver(c, L) = CapacityOf(L)
    BY <1>7, <1>10
  <2>3. m \in Nat /\ PaidOut' = m + t.paid
    BY <1>9, PaidGrows DEF VaultInv
  <2>4. t.paid \in Nat
    BY DEF TransactionRecord
  <2> QED BY <2>1, <2>2, <2>3, <2>4
<1>12. ASSUME NEW A \in SUBSET (OutPoints \cup New)
       PROVE  Total([p \in A |-> Capacity(p)']) = SumOver(c, A)
  <2>1. [p \in A |-> Capacity(p)'] = [p \in A |-> c[p]]
    BY <1>6
  <2> QED BY <2>1 DEF SumOver
<1>13. \A p \in OutPoints : IsInternal(chain'[p[1]]) <=> IsInternal(chain[p[1]])
  BY <1>1, <1>4
<1>14. \A p \in New : IsInternal(chain'[p[1]]) <=> t.inputs # {}
  BY <1>1, <1>5 DEF IsInternal
<1>15. SumOver(c, Deposited') = SumOver(c, (OutPoints \ SpentPoints)') + PaidOut'
  <2>1. CASE t.inputs = {} /\ t.paid = 0
    <3>1. Deposited' = D \cup New
      BY <1>1, <1>9, <1>13, <1>14, <2>1 DEF Deposited
    <3>2. (OutPoints \ SpentPoints)' = L \cup New
      BY <1>1, <1>2, <1>9, <2>1
    <3>3. /\ SumOver(c, Deposited') = SumOver(c, D) + SumOver(c, New)
          /\ SumOver(c, (OutPoints \ SpentPoints)') = SumOver(c, L) + SumOver(c, New)
          /\ SumOver(c, D) \in Nat /\ SumOver(c, L) \in Nat /\ SumOver(c, New) \in Nat
      <4>1. /\ D \in SUBSET (OutPoints \cup New) /\ L \in SUBSET (OutPoints \cup New)
            /\ New \in SUBSET (OutPoints \cup New) /\ D \cap New = {} /\ L \cap New = {}
        BY <1>1, <1>10
      <4> QED BY <1>8, <3>1, <3>2, <4>1
    <3> QED BY <1>11, <2>1, <3>3
  <2>2. CASE t \in pool
    <3>1. Deposited' = D
      BY <1>1, <1>9, <1>13, <1>14, <2>2 DEF Deposited, VaultInv, PoolSound
    <3>2. PICK X, R : X = t.inputs /\ R = L \ X
      OBVIOUS
    <3>3. X \in SUBSET OutPoints /\ R \in SUBSET OutPoints /\ L = R \cup X /\ R \cap X = {}
      BY <1>2, <1>9, <3>2
    <3>4. (OutPoints \ SpentPoints)' = R \cup New
      BY <1>1, <1>2, <1>9, <3>2
    <3>5. /\ SumOver(c, L) = SumOver(c, R) + SumOver(c, X)
          /\ SumOver(c, (OutPoints \ SpentPoints)') = SumOver(c, R) + SumOver(c, New)
          /\ SumOver(c, R) \in Nat /\ SumOver(c, X) \in Nat /\ SumOver(c, New) \in Nat
      <4>1. /\ X \in SUBSET (OutPoints \cup New) /\ R \in SUBSET (OutPoints \cup New)
            /\ New \in SUBSET (OutPoints \cup New) /\ R \cap New = {} /\ R \cap X = {}
        BY <1>1, <3>3
      <4> QED BY <1>8, <3>3, <3>4, <4>1
    <3>6. SumOver(c, X) = t.paid + SumOver(c, New)
      <4>1. SumOver(c, X) = CapacityOf(t.inputs)
        BY <1>7, <3>2, <3>3
      <4>2. CASE t.outs = <<>> /\ CapacityOf(t.inputs) = t.paid
        <5>1. New = {}
          BY <1>1, <4>2 DEF Outputs
        <5>2. SumOver(c, New) = 0
          <6>1. [p \in New |-> c[p]] \in [New -> Nat] /\ \A p \in New : FALSE
            BY <5>1
          <6> QED BY <6>1, TotalZero DEF SumOver
        <5> QED BY <1>11, <4>1, <4>2, <5>2
      <4>3. ASSUME NEW v \in Nat, t.outs = <<v>>, CapacityOf(t.inputs) = t.paid + v
            PROVE  SumOver(c, X) = t.paid + SumOver(c, New)
        <5>1. PICK o : o = <<n, 1>>
          OBVIOUS
        <5>2. New = {o}
          BY <1>1, <4>3, <5>1 DEF Outputs
        <5>3. c[o] = v
          <6>1. o \in New /\ o[2] = 1
            BY <5>1, <5>2
          <6> QED BY <1>5, <1>6, <4>3, <6>1
        <5>4. [p \in New |-> c[p]] \in [{o} -> Nat] /\ [p \in New |-> c[p]][o] = v
          BY <4>3, <5>2, <5>3
        <5>5. SumOver(c, New) = v
          BY <5>4, TotalOne DEF SumOver
        <5> QED BY <4>1, <4>3, <5>5
      <4>4. \/ t.outs = <<>> /\ CapacityOf(t.inputs) = t.paid
            \/ \E v \in Nat : t.outs = <<v>> /\ CapacityOf(t.inputs) = t.paid + v
        <5>1. PoolSound
          BY DEF VaultInv
        <5> QED BY ONLY <2>2, <5>1 DEF PoolSound
      <4>5. ASSUME \E v \in Nat : t.outs = <<v>> /\ CapacityOf(t.inputs) = t.paid + v
            PROVE  SumOver(c, X) = t.paid + SumOver(c, New)
        <5>1. PICK v \in Nat : t.outs = <<v>> /\ CapacityOf(t.inputs) = t.paid + v
          BY <4>5
        <5> QED BY <4>3, <5>1
      <4> QED BY <4>2, <4>4, <4>5
    <3> QED BY <1>11, <3>1, <3>5, <3>6
  <2> QED BY <2>1, <2>2
<1>16. VaultConserves'
  <2>1. /\ Deposited' \in SUBSET (OutPoints \cup New)
        /\ (OutPoints \ SpentPoints)' \in SUBSET (OutPoints \cup New)
    BY <1>1 DEF Deposited
  <2>2. /\ CapacityOf(Deposited)' = SumOver(c, Deposited')
        /\ CapacityOf(OutPoints \ SpentPoints)' = SumOver(c, (OutPoints \ SpentPoints)')
    BY <1>12, <2>1 DEF CapacityOf
  <2> QED BY <1>15, <2>2 DEF VaultConserves, LiveCapacity, ListLiveVaultCells
<1>17. SpentPoints' \subseteq OutPoints'
  BY <1>1, <1>2
<1> QED BY <1>7, <1>16, <1>17

\* A set of credited records that a longer chain does not disturb.
LEMMA CreditsStay ==
  ASSUME VaultInv, UNCHANGED fund, OutPoints \subseteq OutPoints',
         \A p \in OutPoints : Capacity(p)' = Capacity(p)
  PROVE  DepositCreditedOnce'
<1>1. Confirmed' = Confirmed
  BY DEF Confirmed
<1>2. ASSUME NEW f \in Confirmed, NEW p, p = fund[f].outPoint
      PROVE  /\ p \in OutPoints' /\ fund[f].amount = Capacity(p)'
             /\ \A g \in Confirmed : fund[g].outPoint = fund[f].outPoint => g = f
  <2>1. /\ p \in OutPoints /\ fund[f].amount = Capacity(p)
        /\ \A g \in Confirmed : fund[g].outPoint = fund[f].outPoint => g = f
    BY <1>2 DEF VaultInv, DepositCreditedOnce
  <2>2. Capacity(p)' = Capacity(p)
    BY <2>1
  <2> QED BY <2>1, <2>2
<1> QED BY <1>1, <1>2 DEF DepositCreditedOnce, Capacity

\* A transaction commits: the chain grows, and nothing else but the pool changes.
LEMMA CommitKeeps ==
  ASSUME VaultInv, NEW t \in TransactionRecord, chain' = Append(chain, t),
         \/ t.inputs = {} /\ t.paid = 0 /\ pool' = pool
         \/ t \in pool /\ pool' = pool \ {t},
         UNCHANGED <<fund, balance, source, spent, desk>>
  PROVE  VaultInv'
<1>1. /\ SpentPoints' \subseteq OutPoints' /\ VaultConserves'
      /\ \A A \in SUBSET OutPoints : CapacityOf(A)' = CapacityOf(A)
  BY BalanceKeeps
<1>2. /\ chain' \in Seq(TransactionRecord) /\ OutPoints \subseteq OutPoints'
      /\ SpentPoints' = SpentPoints \cup t.inputs
      /\ \A p \in OutPoints : Capacity(p)' = Capacity(p)
  BY ChainGrows DEF VaultInv
<1>3. WalletFundingTypeOK'
  BY <1>2 DEF VaultInv, WalletFundingTypeOK
<1>4. DepositCreditedOnce' /\ DeskSound'
  BY <1>2, CreditsStay DEF VaultInv, DeskSound
<1>5. PoolSound'
  <2>1. \A pooled, other \in pool' : pooled # other => pooled.inputs \cap other.inputs = {}
    BY DEF VaultInv, PoolSound
  <2>2. ASSUME NEW pooled \in pool'
        PROVE  /\ pooled.inputs # {} /\ pooled.inputs \subseteq (OutPoints \ SpentPoints)'
               /\ CapacityOf(pooled.inputs)' = CapacityOf(pooled.inputs)
               /\ \/ pooled.outs = <<>> /\ CapacityOf(pooled.inputs) = pooled.paid
                  \/ \E c \in Nat : /\ pooled.outs = <<c>>
                                   /\ CapacityOf(pooled.inputs) = pooled.paid + c
    <3>1. /\ pooled \in pool /\ pooled.inputs \cap t.inputs = {}
          /\ pooled.inputs # {} /\ pooled.inputs \subseteq OutPoints \ SpentPoints
          /\ \/ pooled.outs = <<>> /\ CapacityOf(pooled.inputs) = pooled.paid
             \/ \E c \in Nat : pooled.outs = <<c>> /\ CapacityOf(pooled.inputs) = pooled.paid + c
      BY DEF VaultInv, PoolSound
    <3> QED BY <1>1, <1>2, <3>1
  <2> QED BY <2>1, <2>2 DEF PoolSound
<1> QED BY <1>1, <1>3, <1>4, <1>5 DEF VaultInv

\* What a step may do to the funding records: nothing, a new pending one, or the
\* credit of an out point to a pending one.
FundingStep ==
  \/ fund' = fund
  \/ \E amount \in Nat : fund' = Append(fund, PendingFunding(amount))
  \/ \E f \in DOMAIN fund, p \in OutPoints :
       /\ AppliesTo(f, p)
       /\ fund' = [fund EXCEPT ![f] = [status |-> "confirmed", amount |-> Capacity(p),
                                       proof |-> p[1], outPoint |-> p]]

\* Such a step credits an out point once, for its capacity, and never changes a record
\* that is confirmed.
LEMMA FundingKeeps ==
  ASSUME VaultInv, UNCHANGED chain, FundingStep
  PROVE  /\ fund' \in Seq(FundingRecord) /\ DOMAIN fund \subseteq DOMAIN fund'
         /\ DepositCreditedOnce'
         /\ \A f \in Confirmed : fund'[f] = fund[f]
<1> DEFINE Goal == /\ fund' \in Seq(FundingRecord) /\ DOMAIN fund \subseteq DOMAIN fund'
                   /\ DepositCreditedOnce'
                   /\ \A f \in Confirmed : fund'[f] = fund[f]
<1>1. OutPoints' = OutPoints /\ \A p : Capacity(p)' = Capacity(p)
  BY DEF OutPoints, Capacity
<1>2. /\ fund \in Seq(FundingRecord) /\ Len(fund) \in Nat /\ DOMAIN fund = 1..Len(fund)
      /\ \A f \in DOMAIN fund : fund[f] \in FundingRecord
  BY DEF VaultInv, WalletFundingTypeOK
<1>3. \A f \in Confirmed :
        /\ f \in DOMAIN fund /\ fund[f].status = "confirmed"
        /\ fund[f].outPoint \in OutPoints /\ fund[f].amount = Capacity(fund[f].outPoint)
        /\ \A g \in Confirmed : fund[g].outPoint = fund[f].outPoint => g = f
  BY DEF VaultInv, DepositCreditedOnce, Confirmed
<1>4. CASE fund' = fund
  BY <1>1, <1>2, <1>4, CreditsStay
<1>5. ASSUME NEW amount \in Nat, fund' = Append(fund, PendingFunding(amount)) PROVE Goal
  <2>1. PendingFunding(amount) \in FundingRecord /\ PendingFunding(amount).status = "pending"
    BY DEF PendingFunding, FundingRecord, NoOutPoint, Point
  <2>2. /\ fund' \in Seq(FundingRecord) /\ DOMAIN fund' = DOMAIN fund \cup {Len(fund) + 1}
        /\ Len(fund) + 1 \notin DOMAIN fund /\ fund'[Len(fund) + 1] = PendingFunding(amount)
        /\ \A f \in DOMAIN fund : fund'[f] = fund[f]
    BY <1>2, <1>5, <2>1
  <2>3. Confirmed' = Confirmed
    BY <2>1, <2>2 DEF Confirmed
  <2>4. \A f \in Confirmed : fund'[f] = fund[f]
    BY <1>3, <2>2
  <2>5. DepositCreditedOnce'
    BY <1>1, <1>3, <2>3, <2>4 DEF DepositCreditedOnce
  <2> QED BY <2>2, <2>4, <2>5
<1>6. ASSUME NEW f \in DOMAIN fund, NEW p \in OutPoints, AppliesTo(f, p),
             fund' = [fund EXCEPT ![f] = [status |-> "confirmed", amount |-> Capacity(p),
                                          proof |-> p[1], outPoint |-> p]]
      PROVE  Goal
  <2>1. PICK r : /\ r = [status |-> "confirmed", amount |-> Capacity(p),
                         proof |-> p[1], outPoint |-> p]
    OBVIOUS
  <2>2. /\ r \in FundingRecord /\ r.status = "confirmed" /\ r.outPoint = p
        /\ r.amount = Capacity(p)
    <3>1. p \in Point /\ p[1] \in Nat /\ Capacity(p) \in Nat
      BY PointsTyped DEF VaultInv, Point
    <3> QED BY <2>1, <3>1 DEF FundingRecord
  <2>3. fund' = [fund EXCEPT ![f] = r]
    BY <1>6, <2>1
  <2>4. /\ fund' \in Seq(FundingRecord) /\ DOMAIN fund' = DOMAIN fund /\ fund'[f] = r
        /\ \A g \in DOMAIN fund : g # f => fund'[g] = fund[g]
    BY <1>2, <2>2, <2>3
  <2>5. f \notin Confirmed /\ \A g \in Confirmed : fund[g].outPoint # p
    BY <1>6 DEF AppliesTo, IndexesAdmit, Confirmed
  <2>6. Confirmed' = Confirmed \cup {f}
    BY <2>2, <2>4 DEF Confirmed
  <2>7. \A g \in Confirmed : fund'[g] = fund[g]
    BY <1>3, <2>4, <2>5
  <2>8. ASSUME NEW g \in Confirmed \cup {f}
        PROVE  /\ fund'[g].outPoint \in OutPoints /\ fund'[g].amount = Capacity(fund'[g].outPoint)
               /\ \A h \in Confirmed \cup {f} : fund'[h].outPoint = fund'[g].outPoint => h = g
    <3>1. CASE g = f
      BY <2>2, <2>4, <2>5, <2>7, <3>1
    <3>2. CASE g \in Confirmed
      BY <1>3, <2>2, <2>4, <2>5, <2>7, <3>2
    <3> QED BY <3>1, <3>2
  <2>9. DepositCreditedOnce'
    BY <1>1, <2>6, <2>8 DEF DepositCreditedOnce
  <2> QED BY <2>4, <2>7, <2>9
<1> QED BY <1>4, <1>5, <1>6 DEF FundingStep

\* What the record of a request may be while the funding records are known.
Servable(r, known) ==
  /\ r \in DeskRecord /\ r.cells \subseteq OutPoints
  /\ r.pc \in {"recovered", "confirm"} => r.at \in known
  /\ \A q \in r.pending : q.id \in known

\* A request may keep its record when more funding records are known.
LEMMA DeskServable ==
  ASSUME VaultInv, NEW d \in Desk, NEW known, DOMAIN fund \subseteq known
  PROVE  Servable(desk[d], known)
  BY DEF VaultInv, WalletFundingTypeOK, DeskSound, Servable

\* An idle request, and one that begins.
LEMMA IdleServable ==
  ASSUME NEW known
  PROVE  /\ IdleDesk \in DeskRecord /\ Servable(IdleDesk, known)
         /\ Servable([IdleDesk EXCEPT !.pc = "overview"], known)
<1>1. IdleDesk \in DeskRecord
  BY DEF IdleDesk, DeskRecord
<1> QED BY <1>1 DEF IdleDesk, DeskRecord, Servable

\* A request does something that leaves the chain and the pool alone.
LEMMA OffChainKeeps ==
  ASSUME VaultInv, UNCHANGED <<chain, pool>>, FundingStep,
         balance' \in Nat, spent' \in Nat, source' \in [exists : BOOLEAN, locked : Nat],
         \/ UNCHANGED desk
         \/ \E d \in Desk, r \in DeskRecord :
              desk' = [desk EXCEPT ![d] = r] /\ Servable(r, DOMAIN fund')
  PROVE  VaultInv' /\ \A f \in Confirmed : fund'[f] = fund[f]
<1>1. /\ fund' \in Seq(FundingRecord) /\ DOMAIN fund \subseteq DOMAIN fund'
      /\ DepositCreditedOnce'
      /\ \A f \in Confirmed : fund'[f] = fund[f]
  BY FundingKeeps
<1>2. OutPoints' = OutPoints /\ SpentPoints' = SpentPoints /\ \A p : Capacity(p)' = Capacity(p)
  BY DEF OutPoints, SpentPoints, Capacity
<1>3. PoolSound' /\ VaultConserves' /\ SpentPoints' \subseteq OutPoints'
  BY <1>2 DEF VaultInv, PoolSound, VaultConserves, Deposited, LiveCapacity, ListLiveVaultCells,
    PaidOut, CapacityOf, Capacity
<1>4. desk' \in [Desk -> DeskRecord] /\ DeskSound'
  <2>1. desk \in [Desk -> DeskRecord]
    BY DEF VaultInv, WalletFundingTypeOK
  <2>2. CASE UNCHANGED desk
    BY <1>1, <1>2, <2>1, <2>2 DEF VaultInv, DeskSound
  <2>3. ASSUME NEW d \in Desk, NEW r \in DeskRecord, desk' = [desk EXCEPT ![d] = r],
               Servable(r, DOMAIN fund')
        PROVE  desk' \in [Desk -> DeskRecord] /\ DeskSound'
    <3>1. desk' \in [Desk -> DeskRecord] /\ \A e \in Desk : desk'[e] = IF e = d THEN r ELSE desk[e]
      BY <2>1, <2>3
    <3>2. ASSUME NEW e \in Desk PROVE Servable(desk'[e], DOMAIN fund')
      <4>1. Servable(desk[e], DOMAIN fund')
        BY <1>1, DeskServable
      <4> QED BY <2>3, <3>1, <4>1
    <3> QED BY <1>2, <3>1, <3>2 DEF Servable, DeskSound
  <2> QED BY <2>2, <2>3
<1>5. WalletFundingTypeOK'
  BY <1>1, <1>4 DEF VaultInv, WalletFundingTypeOK
<1> QED BY <1>1, <1>3, <1>4, <1>5 DEF VaultInv

\* Crediting a record that exists is a funding step and keeps the amounts natural.
LEMMA ApplyTyped ==
  ASSUME VaultInv, NEW f \in DOMAIN fund, NEW p \in OutPoints, ApplyConfirmedFunding(f, p)
  PROVE  /\ FundingStep /\ DOMAIN fund' = DOMAIN fund
         /\ balance' \in Nat /\ source' \in [exists : BOOLEAN, locked : Nat]
<1>1. Capacity(p) \in Nat
  BY PointsTyped DEF VaultInv
<1>2. balance \in Nat /\ source \in [exists : BOOLEAN, locked : Nat] /\ fund \in Seq(FundingRecord)
  BY DEF VaultInv, WalletFundingTypeOK
<1>3. CASE AppliesTo(f, p)
  <2>1. /\ fund' = [fund EXCEPT ![f] = [status |-> "confirmed", amount |-> Capacity(p),
                                        proof |-> p[1], outPoint |-> p]]
        /\ balance' = balance + Capacity(p)
        /\ source' = RecordSecuredFundingProof(Capacity(p))
    BY <1>3 DEF ApplyConfirmedFunding
  <2>2. FundingStep
    BY <1>3, <2>1 DEF FundingStep
  <2>3. source' \in [exists : BOOLEAN, locked : Nat]
    BY <1>1, <1>2, <2>1 DEF RecordSecuredFundingProof
  <2> QED BY <1>1, <1>2, <2>1, <2>2, <2>3
<1>4. CASE ~AppliesTo(f, p)
  BY <1>2, <1>4 DEF ApplyConfirmedFunding, FundingStep
<1> QED BY <1>3, <1>4

\* What live cells hold and what was credited are natural numbers.
LEMMA AmountsTyped ==
  ASSUME VaultInv
  PROVE  /\ FundedMinor \in Nat /\ LiveCapacity \in Nat
         /\ \A A \in SUBSET OutPoints : CapacityOf(A) \in Nat
<1>1. ASSUME NEW A \in SUBSET OutPoints PROVE CapacityOf(A) \in Nat
  <2>1. IsFiniteSet(A)
    BY PointsFinite, FS_Subset DEF VaultInv
  <2>2. [p \in A |-> Capacity(p)] \in [A -> Nat]
    BY PointsTyped DEF VaultInv
  <2> QED BY <2>1, <2>2, UnitsFinite DEF CapacityOf
<1>2. LiveCapacity \in Nat
  BY <1>1 DEF LiveCapacity, ListLiveVaultCells
<1>3. FundedMinor \in Nat
  <2>1. /\ Len(fund) \in Nat /\ DOMAIN fund = 1..Len(fund)
        /\ \A f \in DOMAIN fund : fund[f] \in FundingRecord
    BY DEF VaultInv, WalletFundingTypeOK
  <2>2. IsFiniteSet(DOMAIN fund)
    BY <2>1, FS_Interval
  <2>3. IsFiniteSet(Confirmed)
    BY <2>2, FS_Subset DEF Confirmed
  <2>4. [f \in Confirmed |-> AmountOf(f)] \in [Confirmed -> Nat]
    BY <2>1 DEF Confirmed, AmountOf, FundingRecord
  <2> QED BY <2>3, <2>4, UnitsFinite DEF FundedMinor
<1> QED BY <1>1, <1>2, <1>3

\* The balance that a refresh writes is never below zero.
LEMMA RefreshTyped ==
  ASSUME VaultInv, NEW d \in Desk
  PROVE  LedgerBalance(d) \in Nat /\ RefreshedBalance(d) \in Nat
<1>1. desk[d].funded \in Nat /\ desk[d].spent \in Nat /\ desk[d].amount \in Nat /\ balance \in Nat
  BY DEF VaultInv, WalletFundingTypeOK, DeskRecord
<1>2. \A n \in Int : Clamp(n) \in Nat
  BY DEF Clamp
<1>3. LedgerBalance(d) \in Nat
  BY <1>1, <1>2 DEF LedgerBalance
<1>4. \A a, b \in Nat : Min({a, b}) \in Nat
  <2> SUFFICES ASSUME NEW a \in Nat, NEW b \in Nat PROVE Min({a, b}) \in Nat
    OBVIOUS
  <2>1. \E x \in {a, b} : \A y \in {a, b} : x <= y
    <3>1. CASE a <= b
      BY <3>1
    <3>2. CASE b <= a
      BY <3>2
    <3> QED BY <3>1, <3>2
  <2> QED BY <2>1 DEF Min
<1> QED BY <1>1, <1>3, <1>4 DEF RefreshedBalance

\* The record of a request may change as long as it stays servable.
LEMMA DeskStep ==
  ASSUME VaultInv, NEW d \in Desk, NEW r, Desks(d, r),
         Servable(r, DOMAIN fund'), UNCHANGED <<chain, pool>>, FundingStep,
         balance' \in Nat, spent' \in Nat, source' \in [exists : BOOLEAN, locked : Nat]
  PROVE  VaultInv' /\ \A f \in Confirmed : fund'[f] = fund[f]
<1>1. r \in DeskRecord /\ desk' = [desk EXCEPT ![d] = r]
  BY DEF Servable, Desks
<1> QED BY <1>1, OffChainKeeps

\* The same when only the request's record changes.
LEMMA DeskOnly ==
  ASSUME VaultInv, NEW d \in Desk, NEW r, Desks(d, r), Servable(r, DOMAIN fund),
         UNCHANGED <<chain, pool, fund, balance, source, spent>>
  PROVE  VaultInv' /\ \A f \in Confirmed : fund'[f] = fund[f]
<1>1. /\ balance' \in Nat /\ spent' \in Nat /\ source' \in [exists : BOOLEAN, locked : Nat]
      /\ FundingStep /\ Servable(r, DOMAIN fund')
  BY DEF VaultInv, WalletFundingTypeOK, FundingStep
<1> QED BY <1>1, DeskStep

\* A sync reads the records and lists the live cells.
LEMMA SyncReadKeeps ==
  ASSUME VaultInv, NEW d \in Desk, SyncReadsRecords(d) \/ SyncListsCells(d) \/ SyncEnds(d)
  PROVE  VaultInv' /\ \A f \in Confirmed : fund'[f] = fund[f]
<1>1. CASE SyncReadsRecords(d)
  <2> DEFINE r == [IdleDesk EXCEPT !.pc = "list", !.pending = PendingRequests,
                                   !.used = UsedVaultOutPoints,
                                   !.recover = Confirmed = {} /\ PendingRequests = {}]
  <2>1. \A f \in DOMAIN fund : f \in Nat /\ fund[f] \in FundingRecord
    BY DEF VaultInv, WalletFundingTypeOK
  <2>2. \A q \in PendingRequests : q \in [id : Nat, amount : Nat] /\ q.id \in DOMAIN fund
    BY <2>1 DEF PendingRequests, FundingRecord
  <2>3. UsedVaultOutPoints \subseteq Point
    BY <2>1 DEF UsedVaultOutPoints, Confirmed, FundingRecord
  <2>4. Servable(r, DOMAIN fund)
    BY <2>2, <2>3, IdleServable DEF Servable, DeskRecord, IdleDesk
  <2>5. Desks(d, r) /\ UNCHANGED <<chain, pool, fund, balance, source, spent>>
    BY <1>1 DEF SyncReadsRecords
  <2> HIDE DEF r
  <2> QED BY <2>4, <2>5, DeskOnly
<1>2. CASE SyncListsCells(d)
  <2> DEFINE r == [desk[d] EXCEPT !.pc = "match", !.cells = ListLiveVaultCells]
  <2>1. Servable(desk[d], DOMAIN fund)
    BY DeskServable
  <2>2. ListLiveVaultCells \subseteq OutPoints /\ OutPoints \subseteq Point
    BY PointsTyped DEF ListLiveVaultCells, VaultInv
  <2>3. Servable(r, DOMAIN fund)
    BY <2>1, <2>2 DEF Servable, DeskRecord
  <2>4. Desks(d, r) /\ UNCHANGED <<chain, pool, fund, balance, source, spent>>
    BY <1>2 DEF SyncListsCells
  <2> HIDE DEF r
  <2> QED BY <2>3, <2>4, DeskOnly
<1>3. CASE SyncEnds(d)
  BY <1>3, DeskOnly, IdleServable DEF SyncEnds
<1> QED BY <1>1, <1>2, <1>3

\* A sync credits a listed cell to a pending request, or finds none.
LEMMA SyncMatchKeeps ==
  ASSUME VaultInv, NEW d \in Desk, SyncMatchesPending(d)
  PROVE  VaultInv' /\ \A f \in Confirmed : fund'[f] = fund[f]
<1>1. PICK q \in desk[d].pending :
        \/ /\ Desks(d, [desk[d] EXCEPT !.pending = @ \ {q}])
           /\ UNCHANGED <<fund, balance, source>>
        \/ \E p \in CellsFor(d, q.amount) :
             /\ ApplyConfirmedFunding(q.id, p)
             /\ Desks(d, IF ApplyThrows(q.id, p) THEN IdleDesk
                         ELSE [desk[d] EXCEPT !.pending = @ \ {q}, !.used = @ \cup {p}])
  BY DEF SyncMatchesPending
<1>2. UNCHANGED <<chain, pool, spent>> /\ At(d, "match")
  BY DEF SyncMatchesPending
<1>3. Servable(desk[d], DOMAIN fund) /\ spent \in Nat
  BY DeskServable DEF VaultInv, WalletFundingTypeOK
<1>4. q.id \in DOMAIN fund
  BY <1>3 DEF Servable
<1>5. CASE /\ Desks(d, [desk[d] EXCEPT !.pending = @ \ {q}])
           /\ UNCHANGED <<fund, balance, source>>
  <2> DEFINE r == [desk[d] EXCEPT !.pending = @ \ {q}]
  <2>1. Servable(r, DOMAIN fund)
    BY <1>3 DEF Servable, DeskRecord
  <2>2. Desks(d, r) /\ UNCHANGED <<chain, pool, fund, balance, source, spent>>
    BY <1>2, <1>5
  <2> HIDE DEF r
  <2> QED BY <2>1, <2>2, DeskOnly
<1>6. ASSUME NEW p \in CellsFor(d, q.amount), ApplyConfirmedFunding(q.id, p),
             Desks(d, IF ApplyThrows(q.id, p) THEN IdleDesk
                      ELSE [desk[d] EXCEPT !.pending = @ \ {q}, !.used = @ \cup {p}])
      PROVE  VaultInv' /\ \A f \in Confirmed : fund'[f] = fund[f]
  <2>1. p \in OutPoints /\ p \in Point
    BY <1>3, PointsTyped DEF CellsFor, Servable, VaultInv
  <2>2. /\ FundingStep /\ DOMAIN fund' = DOMAIN fund
        /\ balance' \in Nat /\ source' \in [exists : BOOLEAN, locked : Nat]
    BY <1>4, <1>6, <2>1, ApplyTyped
  <2> DEFINE r == [desk[d] EXCEPT !.pending = @ \ {q}, !.used = @ \cup {p}]
  <2>3. Servable(r, DOMAIN fund)
    BY <1>3, <2>1 DEF Servable, DeskRecord
  <2>4. Desks(d, IdleDesk) \/ Desks(d, r)
    BY <1>6
  <2>5. Servable(IdleDesk, DOMAIN fund)
    BY IdleServable
  <2> HIDE DEF r
  <2>6. Servable(r, DOMAIN fund') /\ Servable(IdleDesk, DOMAIN fund')
    BY <2>2, <2>3, <2>5
  <2>7. spent' \in Nat /\ UNCHANGED <<chain, pool>>
    BY <1>2, <1>3
  <2> QED BY <2>2, <2>4, <2>6, <2>7, DeskStep
<1> QED BY <1>1, <1>5, <1>6

\* A sync records a cell that nobody asked for, and credits it.
LEMMA SyncRecoverKeeps ==
  ASSUME VaultInv, NEW d \in Desk,
         SyncCreditsRecovered(d) \/ \E lookupFails \in BOOLEAN : SyncRecoversCell(d, lookupFails)
  PROVE  VaultInv' /\ \A f \in Confirmed : fund'[f] = fund[f]
<1>1. /\ Servable(desk[d], DOMAIN fund) /\ balance \in Nat /\ spent \in Nat
      /\ source \in [exists : BOOLEAN, locked : Nat]
  BY DeskServable DEF VaultInv, WalletFundingTypeOK
<1>2. desk[d].cells \subseteq OutPoints /\ \A p \in OutPoints : p \in Point /\ Capacity(p) \in Nat
  BY <1>1, PointsTyped DEF Servable, VaultInv
<1>3. ASSUME NEW lookupFails \in BOOLEAN, SyncRecoversCell(d, lookupFails)
      PROVE  VaultInv' /\ \A f \in Confirmed : fund'[f] = fund[f]
  <2>1. PICK p \in desk[d].cells :
          \/ Desks(d, [desk[d] EXCEPT !.cells = @ \ {p}]) /\ UNCHANGED fund
          \/ /\ fund' = Append(fund, PendingFunding(Capacity(p)))
             /\ Desks(d, [desk[d] EXCEPT !.pc = "recovered", !.at = Len(fund) + 1])
    BY <1>3 DEF SyncRecoversCell
  <2>2. UNCHANGED <<chain, pool, balance, source, spent>> /\ desk[d].pending = {}
    BY <1>3 DEF SyncRecoversCell
  <2>3. CASE Desks(d, [desk[d] EXCEPT !.cells = @ \ {p}]) /\ UNCHANGED fund
    <3> DEFINE r == [desk[d] EXCEPT !.cells = @ \ {p}]
    <3>1. Servable(r, DOMAIN fund)
      BY <1>1 DEF Servable, DeskRecord
    <3>2. Desks(d, r) /\ UNCHANGED <<chain, pool, fund, balance, source, spent>>
      BY <2>2, <2>3
    <3> HIDE DEF r
    <3> QED BY <3>1, <3>2, DeskOnly
  <2>4. CASE /\ fund' = Append(fund, PendingFunding(Capacity(p)))
             /\ Desks(d, [desk[d] EXCEPT !.pc = "recovered", !.at = Len(fund) + 1])
    <3> DEFINE r == [desk[d] EXCEPT !.pc = "recovered", !.at = Len(fund) + 1]
    <3>1. FundingStep
      BY <1>2, <2>4 DEF FundingStep
    <3>2. Len(fund) + 1 \in Nat /\ Len(fund) + 1 \in DOMAIN fund'
      <4>1. fund \in Seq(FundingRecord)
        BY DEF VaultInv, WalletFundingTypeOK
      <4> QED BY <2>4, <4>1
    <3>3. Servable(r, DOMAIN fund')
      BY <1>1, <2>2, <3>2 DEF Servable, DeskRecord
    <3>4. /\ balance' \in Nat /\ spent' \in Nat /\ source' \in [exists : BOOLEAN, locked : Nat]
          /\ Desks(d, r) /\ UNCHANGED <<chain, pool>>
      BY <1>1, <2>2, <2>4
    <3> HIDE DEF r
    <3> QED BY <3>1, <3>3, <3>4, DeskStep
  <2> QED BY <2>1, <2>3, <2>4
<1>4. CASE SyncCreditsRecovered(d)
  <2>1. PICK p \in desk[d].cells :
          /\ ApplyConfirmedFunding(desk[d].at, p)
          /\ Desks(d, IF ApplyThrows(desk[d].at, p) THEN IdleDesk
                      ELSE [desk[d] EXCEPT !.pc = "match", !.cells = @ \ {p}, !.at = 0,
                                           !.used = @ \cup {p}])
    BY <1>4 DEF SyncCreditsRecovered
  <2>2. UNCHANGED <<chain, pool, spent>> /\ desk[d].at \in DOMAIN fund
    BY <1>1, <1>4 DEF SyncCreditsRecovered, At, Servable
  <2>3. /\ FundingStep /\ DOMAIN fund' = DOMAIN fund
        /\ balance' \in Nat /\ source' \in [exists : BOOLEAN, locked : Nat]
    BY <1>2, <2>1, <2>2, ApplyTyped
  <2> DEFINE r == [desk[d] EXCEPT !.pc = "match", !.cells = @ \ {p}, !.at = 0,
                                  !.used = @ \cup {p}]
  <2>4. Servable(r, DOMAIN fund)
    BY <1>1, <1>2, <2>1 DEF Servable, DeskRecord
  <2>5. Desks(d, IdleDesk) \/ Desks(d, r)
    BY <2>1
  <2>6. Servable(IdleDesk, DOMAIN fund)
    BY IdleServable
  <2> HIDE DEF r
  <2>7. Servable(r, DOMAIN fund') /\ Servable(IdleDesk, DOMAIN fund')
    BY <2>3, <2>4, <2>6
  <2>8. spent' \in Nat /\ UNCHANGED <<chain, pool>>
    BY <1>1, <2>2
  <2> QED BY <2>3, <2>5, <2>7, <2>8, DeskStep
<1> QED BY <1>3, <1>4

\* A confirmation finds the deposit in the given transaction and credits it.
LEMMA ConfirmKeeps ==
  ASSUME VaultInv, NEW d \in Desk, ConfirmNext(d)
  PROVE  VaultInv' /\ \A f \in Confirmed : fund'[f] = fund[f]
<1>1. /\ Servable(desk[d], DOMAIN fund) /\ spent \in Nat
      /\ \A f \in DOMAIN fund : f \in Nat
  BY DeskServable DEF VaultInv, WalletFundingTypeOK
<1>2. \A p \in OutPoints : p \in Point
  BY PointsTyped DEF VaultInv
<1>3. ASSUME NEW f \in DOMAIN fund, NEW t \in DOMAIN chain, ConfirmFindsDeposit(d, f, t)
      PROVE  VaultInv' /\ \A g \in Confirmed : fund'[g] = fund[g]
  <2>1. PICK p \in OutPoints :
          Desks(d, [IdleDesk EXCEPT !.pc = "confirm", !.at = f, !.cells = {p}])
    BY <1>3 DEF ConfirmFindsDeposit
  <2> DEFINE r == [IdleDesk EXCEPT !.pc = "confirm", !.at = f, !.cells = {p}]
  <2>2. Servable(r, DOMAIN fund)
    BY <1>1, <1>2 DEF Servable, DeskRecord, IdleDesk
  <2>3. Desks(d, r) /\ UNCHANGED <<chain, pool, fund, balance, source, spent>>
    BY <1>3, <2>1 DEF ConfirmFindsDeposit
  <2> HIDE DEF r
  <2> QED BY <2>2, <2>3, DeskOnly
<1>4. CASE ConfirmCredits(d)
  <2>1. PICK p \in desk[d].cells :
          /\ ApplyConfirmedFunding(desk[d].at, p)
          /\ Desks(d, IF ApplyThrows(desk[d].at, p) THEN IdleDesk
                      ELSE [IdleDesk EXCEPT !.pc = "overview"])
    BY <1>4 DEF ConfirmCredits
  <2>2. UNCHANGED <<chain, pool, spent>> /\ desk[d].at \in DOMAIN fund /\ p \in OutPoints
    BY <1>1, <1>4 DEF ConfirmCredits, At, Servable
  <2>3. /\ FundingStep /\ balance' \in Nat /\ source' \in [exists : BOOLEAN, locked : Nat]
    BY <2>1, <2>2, ApplyTyped
  <2>4. Desks(d, IdleDesk) \/ Desks(d, [IdleDesk EXCEPT !.pc = "overview"])
    BY <2>1
  <2>5. spent' \in Nat
    BY <1>1, <2>2
  <2> QED BY <2>2, <2>3, <2>4, <2>5, IdleServable, DeskStep
<1> QED BY <1>3, <1>4 DEF ConfirmNext

\* An overview reads the sums and refreshes the balance and the secured source.
LEMMA OverviewKeeps ==
  ASSUME VaultInv, NEW d \in Desk, OverviewNext(d)
  PROVE  VaultInv' /\ \A f \in Confirmed : fund'[f] = fund[f]
<1>1. /\ desk[d] \in DeskRecord /\ desk[d].amount \in Nat
      /\ spent \in Nat /\ source \in [exists : BOOLEAN, locked : Nat]
  BY DEF VaultInv, WalletFundingTypeOK, DeskRecord
<1>2. CASE OpenOverview(d)
  BY <1>2, DeskOnly, IdleServable DEF OpenOverview
<1>3. CASE OverviewReads(d)
  <2> DEFINE r == [IdleDesk EXCEPT !.pc = "refresh", !.funded = FundedMinor, !.spent = spent,
                                   !.amount = LiveCapacity]
  <2>1. Servable(r, DOMAIN fund)
    BY <1>1, AmountsTyped DEF Servable, DeskRecord, IdleDesk
  <2>2. Desks(d, r) /\ UNCHANGED <<chain, pool, fund, balance, source, spent>>
    BY <1>3 DEF OverviewReads
  <2> HIDE DEF r
  <2> QED BY <2>1, <2>2, DeskOnly
<1>4. CASE OverviewWrites(d) \/ OverviewWithoutIndexer(d)
  <2>1. /\ UNCHANGED <<chain, pool, fund, spent>> /\ Desks(d, IdleDesk)
        /\ balance' \in {LedgerBalance(d), RefreshedBalance(d)}
        /\ source' = source \/ RecordSecuredFundingBalance(desk[d].amount)
    BY <1>4 DEF OverviewWrites, OverviewWithoutIndexer
  <2>2. source' \in [exists : BOOLEAN, locked : Nat]
    BY <1>1, <2>1 DEF RecordSecuredFundingBalance
  <2>3. FundingStep /\ balance' \in Nat /\ spent' \in Nat
    BY <1>1, <2>1, RefreshTyped DEF FundingStep
  <2> QED BY <2>1, <2>2, <2>3, IdleServable, DeskStep
<1> QED BY <1>2, <1>3, <1>4 DEF OverviewNext

\* The transfer that a request sends is sound: its inputs are live, nobody else's, and
\* worth what it pays and returns.
LEMMA SendTransferKeeps ==
  ASSUME VaultInv, NEW d \in Desk, SendTransfer(d)
  PROVE  VaultInv' /\ \A f \in Confirmed : fund'[f] = fund[f]
<1>1. /\ desk[d] \in DeskRecord /\ desk[d].cells \subseteq OutPoints /\ desk[d].amount \in Nat
      /\ MinCell \in Nat \ {0}
  BY VaultAssumption DEF VaultInv, WalletFundingTypeOK, DeskSound, DeskRecord
<1>2. PICK X \in SelectVaultCells(desk[d].cells, desk[d].amount) :
        /\ NodeAccepts(X)
        /\ pool' = pool \cup {Transaction(ChangeOutputs(CapacityOf(X), desk[d].amount),
                                          X, desk[d].amount)}
  BY DEF SendTransfer
<1>3. PICK p \in desk[d].cells : X = UpTo(p, desk[d].cells) /\ Enough(X, desk[d].amount)
  BY DEF SelectVaultCells
<1>4. X # {} /\ X \subseteq OutPoints
  <2>1. p \in Point
    BY <1>1, <1>3, PointsTyped DEF VaultInv
  <2>2. ~Before(p, p)
    BY <2>1 DEF Before, Point
  <2> QED BY <1>1, <1>3, <2>2 DEF UpTo
<1>5. /\ X \cap SpentPoints = {}
      /\ \A t \in pool : X \cap t.inputs = {}
  BY <1>2 DEF NodeAccepts
<1>6. PICK total : total = CapacityOf(X) /\ total \in Nat
  BY <1>4, AmountsTyped
<1>7. PICK paid : paid = desk[d].amount /\ paid \in Nat
  BY <1>1
<1>8. PICK t : t = Transaction(ChangeOutputs(total, paid), X, paid)
  OBVIOUS
<1>9. total = paid \/ (total - paid \in Nat /\ total > paid)
  BY <1>1, <1>3, <1>6, <1>7 DEF Enough
<1>10. ChangeOutputs(total, paid) \in Seq(Nat)
  BY <1>6, <1>7, <1>9 DEF ChangeOutputs
<1>11. /\ t \in TransactionRecord /\ t.inputs = X /\ t.paid = paid
       /\ t.outs = ChangeOutputs(total, paid)
  <2>1. X \in SUBSET Point
    BY <1>4, PointsTyped DEF VaultInv
  <2> QED BY <1>7, <1>8, <1>10, <2>1 DEF Transaction, TransactionRecord
<1>12. \/ t.outs = <<>> /\ CapacityOf(t.inputs) = t.paid
       \/ \E c \in Nat : t.outs = <<c>> /\ CapacityOf(t.inputs) = t.paid + c
  <2>1. CASE total = paid
    BY <1>6, <1>7, <1>11, <2>1 DEF ChangeOutputs
  <2>2. CASE total - paid \in Nat /\ total > paid
    <3>1. t.outs = <<total - paid>> /\ total = paid + (total - paid)
      BY <1>6, <1>7, <1>11, <2>2 DEF ChangeOutputs
    <3> QED BY <1>6, <1>11, <2>2, <3>1
  <2> QED BY <1>9, <2>1, <2>2
<1>13. pool' = pool \cup {t}
  BY <1>2, <1>6, <1>7, <1>8
<1>14. UNCHANGED <<chain, fund, balance, source, spent>>
  BY DEF SendTransfer
<1>15. /\ OutPoints' = OutPoints /\ SpentPoints' = SpentPoints
       /\ \A A : CapacityOf(A)' = CapacityOf(A)
  BY <1>14 DEF OutPoints, SpentPoints, CapacityOf, Capacity
<1>16. PoolSound'
  <2>1. \A pooled \in pool' :
          /\ pooled.inputs # {} /\ pooled.inputs \subseteq OutPoints \ SpentPoints
          /\ \/ pooled.outs = <<>> /\ CapacityOf(pooled.inputs) = pooled.paid
             \/ \E c \in Nat : pooled.outs = <<c>> /\ CapacityOf(pooled.inputs) = pooled.paid + c
    BY <1>4, <1>5, <1>11, <1>12, <1>13 DEF VaultInv, PoolSound
  <2>2. \A pooled, other \in pool' : pooled # other => pooled.inputs \cap other.inputs = {}
    BY <1>5, <1>11, <1>13 DEF VaultInv, PoolSound
  <2> QED BY <1>15, <2>1, <2>2 DEF PoolSound
<1>17. VaultConserves' /\ DepositCreditedOnce' /\ SpentPoints' \subseteq OutPoints'
  BY <1>14, <1>15 DEF VaultInv, VaultConserves, DepositCreditedOnce, Confirmed, Deposited,
    LiveCapacity, ListLiveVaultCells, PaidOut, Capacity
<1>18. WalletFundingTypeOK' /\ DeskSound'
  <2> DEFINE r == [IdleDesk EXCEPT !.pc = "sent", !.amount = desk[d].amount]
  <2>1. r \in DeskRecord /\ r.cells = {} /\ r.pending = {} /\ r.pc = "sent"
    BY <1>1 DEF IdleDesk, DeskRecord
  <2>2. desk' = [desk EXCEPT ![d] = r]
    BY DEF SendTransfer, Desks
  <2> HIDE DEF r
  <2>3. desk \in [Desk -> DeskRecord]
    BY DEF VaultInv, WalletFundingTypeOK
  <2>4. desk' \in [Desk -> DeskRecord] /\ \A e \in Desk : desk'[e] = IF e = d THEN r ELSE desk[e]
    BY <2>1, <2>2, <2>3
  <2>5. WalletFundingTypeOK'
    BY <1>11, <1>13, <1>14, <2>4 DEF VaultInv, WalletFundingTypeOK
  <2>6. DeskSound'
    BY <1>14, <1>15, <2>1, <2>4 DEF VaultInv, DeskSound
  <2> QED BY <2>5, <2>6
<1> QED BY <1>14, <1>16, <1>17, <1>18 DEF VaultInv

\* A transfer lists its cells, is sent, and is charged to the pass.
LEMMA TransferKeeps ==
  ASSUME VaultInv, NEW d \in Desk, TransferNext(d) \/ RequestFails(d)
  PROVE  VaultInv' /\ \A f \in Confirmed : fund'[f] = fund[f]
<1>1. ASSUME NEW amount \in PayoutAmounts, StartTransfer(d, amount)
      PROVE  VaultInv' /\ \A f \in Confirmed : fund'[f] = fund[f]
  <2> DEFINE r == [IdleDesk EXCEPT !.pc = "transfer", !.amount = amount,
                                   !.cells = ListLiveVaultCells]
  <2>1. ListLiveVaultCells \subseteq OutPoints /\ OutPoints \subseteq Point
    BY PointsTyped DEF ListLiveVaultCells, VaultInv
  <2>2. amount \in Nat
    BY VaultAssumption
  <2>3. Servable(r, DOMAIN fund)
    BY <2>1, <2>2 DEF Servable, DeskRecord, IdleDesk
  <2>4. Desks(d, r) /\ UNCHANGED <<chain, pool, fund, balance, source, spent>>
    BY <1>1 DEF StartTransfer
  <2> HIDE DEF r
  <2> QED BY <2>3, <2>4, DeskOnly
<1>2. CASE SendTransfer(d)
  BY <1>2, SendTransferKeeps
<1>3. CASE ChargeTransfer(d)
  <2>1. /\ desk[d].amount \in Nat /\ spent \in Nat /\ balance \in Nat
        /\ source \in [exists : BOOLEAN, locked : Nat]
    BY DEF VaultInv, WalletFundingTypeOK, DeskRecord
  <2>2. /\ UNCHANGED <<chain, pool, fund, balance, source>> /\ Desks(d, IdleDesk)
        /\ spent' = spent + desk[d].amount
    BY <1>3 DEF ChargeTransfer
  <2>3. /\ FundingStep /\ spent' \in Nat /\ balance' \in Nat
        /\ source' \in [exists : BOOLEAN, locked : Nat]
    BY <2>1, <2>2 DEF FundingStep
  <2> QED BY <2>2, <2>3, IdleServable, DeskStep
<1>4. CASE RequestFails(d)
  BY <1>4, DeskOnly, IdleServable DEF RequestFails
<1> QED BY <1>1, <1>2, <1>3, <1>4 DEF TransferNext

\* What happens outside the requests: deposits, commits and new funding records.
LEMMA OutsideKeeps ==
  ASSUME VaultInv,
         \/ \E outs \in Deposits : UserDeposits(outs)
         \/ \E t \in pool : CommitTransfer(t)
         \/ \E amount \in RequestAmounts : CreateWalletFundingRequest(amount)
         \/ UNCHANGED vaultVars
  PROVE  VaultInv' /\ \A f \in Confirmed : fund'[f] = fund[f]
<1>1. ASSUME NEW outs \in Deposits, UserDeposits(outs)
      PROVE  VaultInv' /\ \A f \in Confirmed : fund'[f] = fund[f]
  <2>1. PICK t : t = Transaction(outs, {}, 0)
    OBVIOUS
  <2>2. t \in TransactionRecord /\ t.inputs = {} /\ t.paid = 0
    BY <2>1, VaultAssumption DEF Transaction, TransactionRecord
  <2>3. chain' = Append(chain, t) /\ UNCHANGED <<pool, fund, balance, source, spent, desk>>
    BY <1>1, <2>1 DEF UserDeposits
  <2> QED BY <2>2, <2>3, CommitKeeps
<1>2. ASSUME NEW t \in pool, CommitTransfer(t)
      PROVE  VaultInv' /\ \A f \in Confirmed : fund'[f] = fund[f]
  <2>1. t \in TransactionRecord
    BY DEF VaultInv, WalletFundingTypeOK
  <2>2. /\ chain' = Append(chain, t) /\ pool' = pool \ {t}
        /\ UNCHANGED <<fund, balance, source, spent, desk>>
    BY <1>2 DEF CommitTransfer
  <2> QED BY <2>1, <2>2, CommitKeeps
<1>3. /\ balance \in Nat /\ spent \in Nat /\ source \in [exists : BOOLEAN, locked : Nat]
  BY DEF VaultInv, WalletFundingTypeOK
<1>4. ASSUME NEW amount \in RequestAmounts, CreateWalletFundingRequest(amount)
      PROVE  VaultInv' /\ \A f \in Confirmed : fund'[f] = fund[f]
  <2>1. amount \in Nat
    BY VaultAssumption
  <2>2. /\ fund' = Append(fund, PendingFunding(amount))
        /\ UNCHANGED <<chain, pool, balance, source, spent, desk>>
    BY <1>4 DEF CreateWalletFundingRequest
  <2>3. FundingStep
    BY <2>1, <2>2 DEF FundingStep
  <2> QED BY <1>3, <2>2, <2>3, OffChainKeeps
<1>5. CASE UNCHANGED vaultVars
  <2>1. UNCHANGED <<chain, pool, fund, balance, source, spent, desk>>
    BY <1>5 DEF vaultVars
  <2>2. FundingStep
    BY <2>1 DEF FundingStep
  <2> QED BY <1>3, <2>1, <2>2, OffChainKeeps
<1> QED BY <1>1, <1>2, <1>4, <1>5

\* Every step of the vault keeps its invariant and every confirmed record.
LEMMA VaultStep ==
  ASSUME VaultInv, [WalletFundingNext]_vaultVars
  PROVE  VaultInv' /\ \A f \in Confirmed : fund'[f] = fund[f]
<1>1. ASSUME NEW d \in Desk,
             \/ SyncNext(d) \/ ConfirmNext(d) \/ OverviewNext(d)
             \/ TransferNext(d) \/ RequestFails(d)
      PROVE  VaultInv' /\ \A f \in Confirmed : fund'[f] = fund[f]
  <2>1. CASE SyncNext(d)
    BY <2>1, SyncReadKeeps, SyncMatchKeeps, SyncRecoverKeeps DEF SyncNext
  <2> QED BY <1>1, <2>1, ConfirmKeeps, OverviewKeeps, TransferKeeps
<1>2. CASE \/ \E outs \in Deposits : UserDeposits(outs)
           \/ \E t \in pool : CommitTransfer(t)
           \/ \E amount \in RequestAmounts : CreateWalletFundingRequest(amount)
           \/ UNCHANGED vaultVars
  BY <1>2, OutsideKeeps
<1> QED BY <1>1, <1>2 DEF WalletFundingNext

\* An empty vault is sound.
LEMMA VaultInitial == WalletFundingInit => VaultInv
<1> SUFFICES ASSUME WalletFundingInit PROVE VaultInv
  OBVIOUS
<1>1. /\ chain = <<>> /\ pool = {} /\ fund = <<>> /\ balance = 0 /\ spent = 0
      /\ source = [exists |-> FALSE, locked |-> 0] /\ desk = [d \in Desk |-> IdleDesk]
  BY DEF WalletFundingInit
<1>2. /\ IdleDesk \in DeskRecord /\ IdleDesk.cells = {}
      /\ IdleDesk.pending = {} /\ IdleDesk.pc = "idle"
  BY DEF IdleDesk, DeskRecord
<1>3. DOMAIN chain = {} /\ DOMAIN fund = {}
  BY <1>1
<1>4. WalletFundingTypeOK
  <2>1. chain \in Seq(TransactionRecord) /\ fund \in Seq(FundingRecord)
    BY <1>1
  <2> QED BY <1>1, <1>2, <2>1 DEF WalletFundingTypeOK
<1>5. OutPoints = {} /\ SpentPoints = {} /\ Confirmed = {}
  BY <1>3 DEF OutPoints, SpentPoints, Confirmed
<1>6. CapacityOf({}) = 0
  <2>1. [p \in {} |-> Capacity(p)] \in [{} -> Nat]
    OBVIOUS
  <2> QED BY <2>1, TotalZero DEF CapacityOf
<1>7. PaidOut = 0
  <2>1. [i \in DOMAIN chain |-> chain[i].paid] \in [{} -> Nat]
    BY <1>3
  <2>2. [i \in DOMAIN chain |-> chain[i].paid] \in [DOMAIN chain -> Nat] /\ DOMAIN chain = {}
    BY <1>3, <2>1
  <2> QED BY <2>2, TotalZero DEF PaidOut
<1>8. VaultConserves
  <2>1. Deposited = {} /\ ListLiveVaultCells = {}
    BY <1>5 DEF Deposited, ListLiveVaultCells
  <2> QED BY <1>6, <1>7, <2>1 DEF VaultConserves, LiveCapacity
<1>9. PoolSound /\ DepositCreditedOnce /\ DeskSound
  BY <1>1, <1>2, <1>5 DEF PoolSound, DepositCreditedOnce, DeskSound
<1> QED BY <1>4, <1>5, <1>8, <1>9 DEF VaultInv

\* On every chain, for any number of requests: what users deposited is in live vault
\* cells or was paid out, a vault output is credited to one funding record for its
\* capacity, and a confirmed record is final (walletFunding.service.ts
\* applyConfirmedFunding, vaultPayout.service.ts executeVaultPlainTransfer).
THEOREM VaultCorrect == WalletFundingSpec => []WalletFundingTypeOK /\ VaultSound
<1>1. VaultInv /\ [WalletFundingNext]_vaultVars => VaultInv'
  BY VaultStep
<1>2. VaultInv /\ [WalletFundingNext]_vaultVars
        => [\A f \in Confirmed : fund'[f] = fund[f]]_vaultVars
  BY VaultStep
<1>3. VaultInv => WalletFundingTypeOK /\ DepositCreditedOnce /\ VaultConserves
  BY DEF VaultInv
<1> QED BY <1>1, <1>2, <1>3, VaultInitial, PTL
      DEF WalletFundingSpec, VaultSound, ConfirmedIsFinal

-----------------------------------------------------------------------------
\* The three ways to pay and the vault together, as the run explores them.
ProvidersInv == NwcInv /\ BtcpayInv /\ PsbtInv /\ VaultInv

\* A step of one way to pay, or of the vault, is a step of its component and leaves the
\* others alone.
LEMMA ProvidersStepKeeps ==
  ProvidersInv /\ [ProvidersNext]_<<providerVars, scene>>
    => ProvidersInv' /\ \A f \in Confirmed : fund'[f] = fund[f]
<1> SUFFICES ASSUME ProvidersInv, [ProvidersNext]_<<providerVars, scene>>
             PROVE  ProvidersInv' /\ \A f \in Confirmed : fund'[f] = fund[f]
  OBVIOUS
<1>1. /\ [NwcNext]_nwcVars
      /\ [BtcpayNext]_btcpayVars
      /\ [PsbtNext]_psbtVars
      /\ [WalletFundingNext]_vaultVars
  BY DEF ProvidersNext, NwcScene, BtcpayNext, providerVars
<1> QED BY <1>1, NwcStepKeeps, BtcpayStepKeeps, PsbtStepKeeps, VaultStep DEF ProvidersInv

\* However often a request is repeated, taken over or left without an answer: an invoice
\* is sent for payment once and an order billed once, what is stored as succeeded or
\* settled was paid, a coin pays one confirmed, balanced payment, and the vault credits
\* a deposit once and conserves what was deposited.
THEOREM ProvidersCorrect ==
  ProvidersSpec
    => [](ProvidersTypeOK /\ SentOnce /\ OutcomeIsTrue /\ PsbtSound) /\ VaultSound
<1>1. ProvidersInit => ProvidersInv
  BY NwcInitial, BtcpayInitial, PsbtInitial, VaultInitial DEF ProvidersInit, ProvidersInv
<1>2. ProvidersInv => ProvidersTypeOK /\ SentOnce /\ OutcomeIsTrue /\ PsbtSound
  BY PsbtInvSound DEF ProvidersInv, NwcInv, BtcpayInv, PsbtInv, VaultInv, ProvidersTypeOK,
    SentOnce, OutcomeIsTrue
<1>3. ProvidersInv => DepositCreditedOnce /\ VaultConserves
  BY DEF ProvidersInv, VaultInv
<1>4. ProvidersInv /\ [ProvidersNext]_<<providerVars, scene>>
        => ProvidersInv' /\ [\A f \in Confirmed : fund'[f] = fund[f]]_vaultVars
  BY ProvidersStepKeeps
<1> QED BY <1>1, <1>2, <1>3, <1>4, PTL DEF ProvidersSpec, VaultSound, ConfirmedIsFinal
=============================================================================
