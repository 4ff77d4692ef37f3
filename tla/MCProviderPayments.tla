-------------------------- MODULE MCProviderPayments --------------------------
(***************************************************************************)
(* Money that moves outside FiberPass: through a Nostr wallet, a BTCPay    *)
(* store, Bitcoin Core, and in and out of the CKB vault.  The four share   *)
(* nothing; each behaviour is about one of them, with two requests served  *)
(* concurrently.                                                           *)
(***************************************************************************)
EXTENDS NwcPayment, BtcpayGateway, BitcoinPsbt, WalletFunding, TLC

CONSTANTS h1, h2, k1, k2, c1, c2, p1, p2

VARIABLE scene

Scenes == {"sameWallet", "sameInvoice", "bill", "storePayment", "psbt", "vault"}

MCSatoshis == (h1 :> 1) @@ (h2 :> 2)
MCWorth == (c1 :> 8)

\* One deposit, or the deposits of two users.
MCDeposits == {<<4>>, <<2, 3>>}

\* The requests served concurrently are interchangeable.
Requests == Permutations({p1, p2})

providerVars == <<nwcVars, btcpayVars, psbtVars, vaultVars>>

ProvidersInit ==
  /\ scene \in Scenes
  /\ NwcInit /\ BtcpayInit /\ PsbtInit /\ WalletFundingInit

\* One wire, one key and two invoices, or one invoice through two wires.
NwcScene ==
  /\ NwcNext
  /\ scene = "sameWallet" => /\ \A c \in Wire : c # AnyWire => wire'[c] = wire[c]
                             /\ \A p \in Payer : payer'[p].k = AnyKey
  /\ scene = "sameInvoice" => \A p \in Payer : payer'[p].h = AnyInvoice

ProvidersNext ==
  /\ UNCHANGED scene
  /\ \/ /\ scene \in {"sameWallet", "sameInvoice"}
        /\ NwcScene /\ UNCHANGED <<btcpayVars, psbtVars, vaultVars>>
     \/ /\ scene = "bill" /\ (BillNext \/ StoreNext)
        /\ UNCHANGED <<nwcVars, psbtVars, vaultVars>>
     \/ /\ scene = "storePayment" /\ (StorePaymentNext \/ StoreNext)
        /\ UNCHANGED <<nwcVars, psbtVars, vaultVars>>
     \/ scene = "psbt" /\ PsbtNext /\ UNCHANGED <<nwcVars, btcpayVars, vaultVars>>
     \/ scene = "vault" /\ WalletFundingNext /\ UNCHANGED <<nwcVars, btcpayVars, psbtVars>>

ProvidersSpec == ProvidersInit /\ [][ProvidersNext]_<<providerVars, scene>>

\* The documents of the providers and the vault hold values of their schemas and every
\* request is at a step of its handler.
ProvidersTypeOK == NwcTypeOK /\ BtcpayTypeOK /\ PsbtTypeOK /\ WalletFundingTypeOK

\* However often a request is repeated, taken over or left without an answer, an
\* invoice is sent for payment once and an order is billed once.
SentOnce == InvoiceSentOnce /\ StorePaysOnce /\ BilledOnce

\* What is stored as succeeded or settled was paid.
OutcomeIsTrue == NwcSuccessIsPaid /\ SettledBillIsPaid
=============================================================================
