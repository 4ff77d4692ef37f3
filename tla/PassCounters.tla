---------------------------- MODULE PassCounters ----------------------------
(***************************************************************************)
(* The counters of one pass.  The Session document keeps them twice:       *)
(* payment schedules and metered grants decide by limitAtomic, spentAtomic *)
(* and reservedAtomic and write what they change over limitMinor,          *)
(* spentMinor and reservedMinor as well; charges decide by the Minor       *)
(* fields and change no others.  One charge of an app stands for what the  *)
(* charge handler does meanwhile (ChargeReservation); the owner tops the   *)
(* pass up, and with the expiry sweep changes its status, at any time      *)
(* (SessionLifecycle).                                                     *)
(***************************************************************************)
EXTENDS Naturals

CONSTANTS
  PassLimit,   \* the limit the pass was created with, which limitAtomic keeps
  TopUp,       \* what a top-up adds to limitMinor
  ChargeCost,  \* the amount of the app's charge
  PassStatus   \* the statuses the pass may take

ASSUME CountersAssumption ==
  /\ PassLimit \in Nat /\ TopUp \in Nat /\ ChargeCost \in Nat \ {0}
  /\ "active" \in PassStatus
  /\ PassStatus \subseteq {"active", "lapsed", "paused", "expired", "settled", "revoked"}

\* A pass that is lapsed still says active: its expiryAt has passed and no sweep
\* has been by.
VARIABLES
  purse,  \* the status of the pass, spentAtomic and reservedAtomic
  minor,  \* limitMinor, spentMinor and reservedMinor
  charge  \* the app's charge

passVars == <<purse, minor, charge>>

PurseRecord == [status: PassStatus, spent: Nat, reserved: Nat]
MinorRecord == [limit: Nat, spent: Nat, reserved: Nat]
ChargeStatus == {"none", "held", "debited", "returned"}

PurseInit ==
  /\ purse = [status |-> "active", spent |-> 0, reserved |-> 0]
  /\ minor = [limit |-> PassLimit, spent |-> 0, reserved |-> 0]
  /\ charge = "none"

Usable == purse.status = "active"
Room(amount) == purse.spent + purse.reserved + amount <= PassLimit

\* What schedules and grants make of the Atomic counters.
Held(amount) == [purse EXCEPT !.reserved = @ + amount]
Returned(amount) == [purse EXCEPT !.reserved = IF @ >= amount THEN @ - amount ELSE 0]
Debited(amount) == [purse EXCEPT !.reserved = @ - amount, !.spent = @ + amount]

\* setAtomicCompatibility and setSessionAtomic write the Atomic counters that
\* were changed over the Minor ones; the reservation of an occurrence writes all
\* three.
WriteReserved == minor' = [minor EXCEPT !.reserved = purse'.reserved]
WriteSpent == minor' = [minor EXCEPT !.reserved = purse'.reserved, !.spent = purse'.spent]
WriteAll == minor' = [limit |-> PassLimit, spent |-> purse'.spent, reserved |-> purse'.reserved]
-----------------------------------------------------------------------------
\* The charge handler: the update that reserves asks the status and the Minor
\* counters, and not the expiry date; releasing and finalizing throw unless the
\* reservation is still there.
ChargeFits(amount) ==
  /\ purse.status \in {"active", "lapsed"}
  /\ minor.spent + minor.reserved + amount <= minor.limit
ChargeReserves(amount) == minor' = [minor EXCEPT !.reserved = @ + amount]
ChargeReleases(amount) ==
  minor.reserved >= amount /\ minor' = [minor EXCEPT !.reserved = @ - amount]
ChargeFinalizes(amount) ==
  /\ minor.reserved >= amount
  /\ minor' = [minor EXCEPT !.reserved = @ - amount, !.spent = @ + amount]

HoldCharge ==
  /\ charge \in {"none", "returned"}
  /\ ChargeFits(ChargeCost)
  /\ ChargeReserves(ChargeCost)
  /\ charge' = "held"
  /\ UNCHANGED purse

EndCharge ==
  /\ charge = "held"
  /\ \/ ChargeReleases(ChargeCost) /\ charge' = "returned"
     \/ ChargeFinalizes(ChargeCost) /\ charge' = "debited"
  /\ UNCHANGED purse

\* A completed top-up raises limitMinor alone.  Bound: no second one before the
\* first is written over.
TopUpPass ==
  /\ purse.status \in {"active", "paused", "lapsed"}
  /\ minor.limit = PassLimit
  /\ minor' = [minor EXCEPT !.limit = @ + TopUp]
  /\ UNCHANGED <<purse, charge>>

\* Pause, resume, close, expiry and its sweep; a closed pass is never reopened.
ChangePassStatus ==
  /\ purse.status \in {"active", "paused", "lapsed"}
  /\ \E s \in PassStatus \ {purse.status} :
       /\ purse.status = "lapsed" => s # "active"
       /\ purse' = [purse EXCEPT !.status = s]
  /\ UNCHANGED <<minor, charge>>

PassMoves == HoldCharge \/ EndCharge \/ TopUpPass \/ ChangePassStatus

ChargeHolds == IF charge = "held" THEN ChargeCost ELSE 0
ChargeSpent == IF charge = "debited" THEN ChargeCost ELSE 0
=============================================================================
