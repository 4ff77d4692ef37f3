----------------------------- MODULE BitcoinPsbt -----------------------------
(***************************************************************************)
(* On-chain payments the owner's wallet signs (bitcoinPsbt.service.ts).    *)
(* A request reserves a coin for a payment, the signed transaction is      *)
(* checked, claimed and broadcast, and status queries follow it on the     *)
(* chain and broadcast it again.  A replacement spends the same coin with  *)
(* a higher fee.  Requests run concurrently, the answers of Bitcoin Core   *)
(* may be lost, and miners may take a transaction that was replaced.       *)
(***************************************************************************)
EXTENDS Naturals, FiniteSets

CONSTANTS
  Psbt,        \* payments, by idempotency key
  Coin,        \* funding outpoints
  Worth,       \* the value of each coin
  Amount,      \* what the recipient gets
  MaxFee,      \* maxFeeAtomic
  Dust,        \* DUST_SATS
  Rates,       \* fee rates
  FullSize,    \* the transaction's size with change
  ShortSize,   \* and without
  Deep,        \* requiredConfirmations
  Teller       \* requests that are served concurrently

ASSUME PsbtAssumption ==
  /\ Worth \in [Coin -> Nat]
  /\ {Amount, MaxFee, Dust, Deep} \subseteq Nat \ {0} /\ Rates \subseteq Nat \ {0}
  /\ FullSize \in Nat /\ ShortSize \in Nat /\ ShortSize < FullSize
  /\ Psbt # {}

NoPsbt == "none"
NoCoin == "none"

VARIABLES
  psbt,    \* the BitcoinPsbt documents
  tx,      \* each transaction on the network, and its confirmations
  teller   \* what each request is doing

psbtVars == <<psbt, tx, teller>>

PsbtActive == {"awaiting", "broadcast", "confirming"}
Seen == {"broadcast", "confirming"}
PsbtDocument ==
  [status: {"none", "confirmed", "replaced", "abandoned", "failed"} \cup PsbtActive,
   coin: Coin \cup {NoCoin}, rate: Rates \cup {0}, fee: Nat, change: Nat,
   replaces: Psbt \cup {NoPsbt}]
TxRecord == [at: {"none", "mempool", "mined", "out"}, depth: 0..Deep]
\* seen, depth: what was observed of the transaction
TellerRecord ==
  [at: {"idle", "conflict", "insert", "accept", "claim", "send", "supersede", "observe",
        "again", "record"},
   q: Psbt, coin: Coin \cup {NoCoin}, rate: Rates \cup {0}, replaces: Psbt \cup {NoPsbt},
   seen: BOOLEAN, depth: 0..Deep]

AnyPsbt == CHOOSE q \in Psbt : TRUE
IdleTeller == [at |-> "idle", q |-> AnyPsbt, coin |-> NoCoin, rate |-> 0, replaces |-> NoPsbt,
               seen |-> FALSE, depth |-> 0]

PsbtInit ==
  /\ psbt = [q \in Psbt |-> [status |-> "none", coin |-> NoCoin, rate |-> 0, fee |-> 0,
                             change |-> 0, replaces |-> NoPsbt]]
  /\ tx = [q \in Psbt |-> [at |-> "none", depth |-> 0]]
  /\ teller = [p \in Teller |-> IdleTeller]
-----------------------------------------------------------------------------
TellerAt(p, at) == teller' = [teller EXCEPT ![p].at = at]
TellerDone(p) == teller' = [teller EXCEPT ![p] = IdleTeller]
Rival(q) == {r \in Psbt \ {q} : psbt[r].coin = psbt[q].coin /\ tx[r].at \in {"mempool", "mined"}}
CoinIsSpent(c) == \E q \in Psbt : psbt[q].coin = c /\ tx[q].at \in {"mempool", "mined"}

\* Mutant of FeePlan: a change that is dust is dropped and not paid as a fee.
FeePlanLosesDust(worth, rate) ==
  LET change == worth - Amount - FullSize * rate
  IN [fee |-> FullSize * rate, change |-> IF change < Dust THEN 0 ELSE change]

\* The fee and the change of createBitcoinPsbt: a change that would be dust goes
\* to the fee.
FeePlan(worth, rate) ==
  LET change == worth - Amount - FullSize * rate
  IN IF change < Dust THEN [fee |-> worth - Amount, change |-> 0]
     ELSE [fee |-> FullSize * rate, change |-> change]
Affordable(worth, rate) ==
  /\ worth >= Amount + FullSize * rate
  /\ FeePlan(worth, rate).fee >= ShortSize * rate
  /\ FeePlan(worth, rate).fee <= MaxFee

\* createBitcoinPsbt, up to the inputs: a coin that is unspent, or those of the
\* transaction to be replaced.
CreateBitcoinPsbt(p, q, c, rate, r) ==
  /\ teller[p].at = "idle"
  /\ psbt[q].status = "none"
  /\ IF r = NoPsbt THEN ~CoinIsSpent(c)
     ELSE r # q /\ psbt[r].status \in Seen /\ psbt[r].coin = c /\ rate > psbt[r].rate
  /\ Affordable(Worth[c], rate)
  /\ r # NoPsbt => FeePlan(Worth[c], rate).fee > psbt[r].fee
  /\ teller' = [teller EXCEPT ![p] = [IdleTeller EXCEPT !.at = "conflict", !.q = q, !.coin = c,
                                        !.rate = rate, !.replaces = r]]
  /\ UNCHANGED <<psbt, tx>>

\* No other active payment may hold the coin; nothing keeps one from being
\* created before this one is.
CheckConflict(p) ==
  /\ teller[p].at = "conflict"
  /\ IF \E q \in Psbt \ {teller[p].replaces} :
          psbt[q].coin = teller[p].coin /\ psbt[q].status \in PsbtActive
     THEN TellerDone(p) ELSE TellerAt(p, "insert")
  /\ UNCHANGED <<psbt, tx>>

InsertPsbt(p) ==
  LET q == teller[p].q
      plan == FeePlan(Worth[teller[p].coin], teller[p].rate)
  IN /\ teller[p].at = "insert"
     /\ psbt' = IF psbt[q].status # "none" THEN psbt
                ELSE [psbt EXCEPT ![q] =
                        [status |-> "awaiting", coin |-> teller[p].coin, rate |-> teller[p].rate,
                         fee |-> plan.fee, change |-> plan.change, replaces |-> teller[p].replaces]]
     /\ TellerDone(p)
     /\ UNCHANGED tx

AbandonBitcoinPsbt(q) ==
  /\ psbt[q].status = "awaiting"
  /\ psbt' = [psbt EXCEPT ![q].status = "abandoned"]
  /\ UNCHANGED <<tx, teller>>
-----------------------------------------------------------------------------
\* submitSignedBitcoinPsbt: a signed PSBT that is the reviewed one, input by
\* input and output by output, and finalizes to the reviewed transaction.
SubmitSigned(p, q) ==
  /\ teller[p].at = "idle"
  /\ psbt[q].status = "awaiting"
  /\ teller' = [teller EXCEPT ![p] = [IdleTeller EXCEPT !.at = "accept", !.q = q]]
  /\ UNCHANGED <<psbt, tx>>

\* Core accepts a transaction whose coin is unspent, or that pays more than the
\* one in its mempool.
Acceptable(q) == \A r \in Rival(q) : tx[r].at = "mempool" /\ psbt[r].fee < psbt[q].fee

TestMempoolAccept(p) ==
  LET q == teller[p].q
  IN /\ teller[p].at = "accept"
     /\ \/ Acceptable(q) /\ TellerAt(p, "claim") /\ UNCHANGED psbt
        \/ /\ ~Acceptable(q)
           /\ psbt' = [psbt EXCEPT ![q].status = IF @ = "awaiting" THEN "failed" ELSE @]
           /\ TellerDone(p)
        \/ UNCHANGED psbt /\ TellerDone(p)
     /\ UNCHANGED tx

\* Mutant of ClaimBroadcast: the status is not looked at again.
ClaimBroadcastAnyway(p) ==
  /\ teller[p].at = "claim"
  /\ psbt' = [psbt EXCEPT ![teller[p].q].status = IF @ = "awaiting" THEN "broadcast" ELSE @]
  /\ TellerAt(p, "send")
  /\ UNCHANGED tx

\* The raw transaction is stored before it is sent; who finds it claimed only
\* reconciles.
ClaimBroadcast(p) ==
  /\ teller[p].at = "claim"
  /\ IF psbt[teller[p].q].status = "awaiting"
     THEN psbt' = [psbt EXCEPT ![teller[p].q].status = "broadcast"] /\ TellerAt(p, "send")
     ELSE UNCHANGED psbt /\ TellerAt(p, "observe")
  /\ UNCHANGED tx

Broadcasts(q) ==
  tx' = [r \in Psbt |-> IF r = q THEN [at |-> "mempool", depth |-> 0]
                        ELSE IF r \in Rival(q) THEN [tx[r] EXCEPT !.at = "out"] ELSE tx[r]]

\* sendRawTransaction; its answer may be lost, and it may fail.
SendRawTransaction(p) ==
  LET q == teller[p].q
  IN /\ teller[p].at = "send"
     /\ \/ Acceptable(q) /\ tx[q].at # "mined" /\ Broadcasts(q)
        \/ UNCHANGED tx
     /\ TellerAt(p, "supersede") \/ TellerDone(p)
     /\ tx' = tx => tx[q].at = "mempool" \/ teller'[p].at = "idle"
     /\ UNCHANGED psbt

\* Mutant of Supersede: every other payment of the coin is replaced.
SupersedeAll(p) ==
  /\ teller[p].at = "supersede"
  /\ psbt' = [r \in Psbt |-> IF psbt[r].coin = psbt[teller[p].q].coin /\ r # teller[p].q
                                /\ psbt[r].status \notin {"none", "awaiting"}
                             THEN [psbt[r] EXCEPT !.status = "replaced"] ELSE psbt[r]]
  /\ TellerDone(p)
  /\ UNCHANGED tx

\* The replaced payment, if it has not been confirmed.
Supersede(p) ==
  LET r == psbt[teller[p].q].replaces
  IN /\ teller[p].at = "supersede"
     /\ psbt' = IF r # NoPsbt /\ psbt[r].status \in Seen
                THEN [psbt EXCEPT ![r].status = "replaced"] ELSE psbt
     /\ TellerDone(p)
     /\ UNCHANGED tx
-----------------------------------------------------------------------------
\* reconcileBitcoinPsbt, for a payment that was broadcast.
ReconcileBitcoinPsbt(p, q) ==
  /\ teller[p].at = "idle"
  /\ psbt[q].status \in Seen
  /\ teller' = [teller EXCEPT ![p] = [IdleTeller EXCEPT !.at = "observe", !.q = q]]
  /\ UNCHANGED <<psbt, tx>>

\* A transaction that is neither in the chain nor in the mempool, or that Core
\* did not answer about, is sent again after a while.
ObserveTransaction(p) ==
  LET t == tx[teller[p].q]
  IN /\ teller[p].at = "observe"
     /\ IF psbt[teller[p].q].status \notin Seen THEN TellerDone(p)
        ELSE \/ /\ t.at \in {"mempool", "mined"}
                /\ teller' = [teller EXCEPT ![p].at = "record", ![p].seen = TRUE,
                                            ![p].depth = t.depth]
             \/ \E at \in {"again", "record"} : TellerAt(p, at)
     /\ UNCHANGED <<psbt, tx>>

BroadcastAgain(p) ==
  LET q == teller[p].q
  IN /\ teller[p].at = "again"
     /\ \/ /\ Acceptable(q) /\ tx[q].at # "mined"
           /\ Broadcasts(q)
           /\ teller' = [teller EXCEPT ![p].at = "record", ![p].seen = TRUE]
        \/ UNCHANGED tx /\ TellerAt(p, "record")
     /\ UNCHANGED psbt

\* Mutant of RecordDepth: one confirmation is enough.
RecordDepthShallow(p) ==
  LET q == teller[p].q
  IN /\ teller[p].at = "record"
     /\ psbt' = IF psbt[q].status \notin Seen THEN psbt
                ELSE [psbt EXCEPT ![q].status = IF teller[p].depth > 0 THEN "confirmed"
                                                ELSE "broadcast"]
     /\ TellerDone(p)
     /\ UNCHANGED tx

RecordDepth(p) ==
  LET q == teller[p].q
  IN /\ teller[p].at = "record"
     /\ IF psbt[q].status \notin Seen THEN UNCHANGED psbt /\ TellerDone(p)
        ELSE /\ psbt' = [psbt EXCEPT ![q].status =
                           CASE teller[p].depth >= Deep -> "confirmed"
                             [] teller[p].depth \in 1..(Deep - 1) -> "confirming"
                             [] OTHER -> "broadcast"]
             /\ IF teller[p].seen THEN TellerAt(p, "supersede") ELSE TellerDone(p)
     /\ UNCHANGED tx

CrashTeller(p) ==
  /\ teller[p].at # "idle"
  /\ TellerDone(p)
  /\ UNCHANGED <<psbt, tx>>
-----------------------------------------------------------------------------
\* The network mines any transaction it has heard of whose coin is unspent,
\* buries it, undoes a shallow block, and forgets a transaction in the mempool.
Mine(q) ==
  /\ tx[q].at \in {"mempool", "out"}
  /\ \A r \in Rival(q) : tx[r].at # "mined"
  /\ tx' = [r \in Psbt |-> IF r = q THEN [at |-> "mined", depth |-> 1]
                           ELSE IF r \in Rival(q) THEN [tx[r] EXCEPT !.at = "out"] ELSE tx[r]]
  /\ UNCHANGED <<psbt, teller>>

ChainMoves(q) ==
  /\ \/ tx[q].at = "mined" /\ tx[q].depth < Deep /\ tx' = [tx EXCEPT ![q].depth = @ + 1]
     \/ /\ tx[q].at = "mined" /\ tx[q].depth < Deep
        /\ tx' = [tx EXCEPT ![q] = [at |-> "mempool", depth |-> 0]]
     \/ tx[q].at = "mempool" /\ tx' = [tx EXCEPT ![q].at = "out"]
  /\ UNCHANGED <<psbt, teller>>

PsbtNext ==
  \/ \E p \in Teller, q \in Psbt, c \in Coin, rate \in Rates, r \in Psbt \cup {NoPsbt} :
       CreateBitcoinPsbt(p, q, c, rate, r)
  \/ \E p \in Teller : \/ CheckConflict(p) \/ InsertPsbt(p) \/ TestMempoolAccept(p)
                       \/ ClaimBroadcast(p) \/ SendRawTransaction(p) \/ Supersede(p)
                       \/ ObserveTransaction(p) \/ BroadcastAgain(p) \/ RecordDepth(p)
                       \/ CrashTeller(p)
  \/ \E p \in Teller, q \in Psbt : SubmitSigned(p, q) \/ ReconcileBitcoinPsbt(p, q)
  \/ \E q \in Psbt : AbandonBitcoinPsbt(q) \/ Mine(q) \/ ChainMoves(q)

PsbtSpec == PsbtInit /\ [][PsbtNext]_psbtVars
-----------------------------------------------------------------------------
\* The documents hold statuses of their schema and every request is at a step of
\* its handler.
PsbtTypeOK ==
  /\ psbt \in [Psbt -> PsbtDocument]
  /\ tx \in [Psbt -> TxRecord]
  /\ teller \in [Teller -> TellerRecord]

\* A transaction reaches the network only once its payment is claimed: one that
\* was abandoned or rejected while a request was submitting it is never sent.
SentIsClaimed ==
  \A q \in Psbt : tx[q].at # "none" => psbt[q].status \in Seen \cup {"confirmed", "replaced"}

\* A coin pays one confirmed payment, and a confirmed payment is buried as deep
\* as its policy asks, whatever replacements and races preceded it.
ConfirmedOnce ==
  \A q \in Psbt : psbt[q].status = "confirmed" =>
    /\ tx[q].at = "mined" /\ tx[q].depth = Deep
    /\ \A r \in Psbt \ {q} : psbt[r].coin = psbt[q].coin => psbt[r].status # "confirmed"

\* No value is created or lost: a coin pays amount, fee and change, the fee stays
\* within the reviewed maximum, and each replacement pays more than the last.
PlanBalances ==
  \A q \in Psbt : psbt[q].status # "none" =>
    /\ Worth[psbt[q].coin] = Amount + psbt[q].fee + psbt[q].change
    /\ psbt[q].fee <= MaxFee
    /\ psbt[q].change = 0 \/ psbt[q].change >= Dust
    /\ psbt[q].replaces # NoPsbt => /\ psbt[psbt[q].replaces].fee < psbt[q].fee
                                    /\ psbt[psbt[q].replaces].coin = psbt[q].coin

\* A payment that says replaced has a replacement that was sent, and the
\* replacement is the one that names it.
ReplacedHasReplacement ==
  \A r \in Psbt : psbt[r].status = "replaced" =>
    \E q \in Psbt : psbt[q].replaces = r /\ tx[q].at # "none"

\* Of the transactions that spend one coin each balances, is sent only once
\* claimed, and one at most is confirmed or replaces the others.
PsbtSound == PlanBalances /\ SentIsClaimed /\ ConfirmedOnce /\ ReplacedHasReplacement
=============================================================================
