------------------------- MODULE MCChargeReservation -------------------------
(***************************************************************************)
(* The ledger and the reservation store on it.  Each behaviour plays one   *)
(* scene: the ledger's own steps on two passes, with balance observations  *)
(* of the vault or of the wallet or with grants from both; charges of      *)
(* different amounts on a pass that only charges spend; or charges of a    *)
(* pass that a schedule or a metered grant spends as well.                 *)
(***************************************************************************)
EXTENDS ChargeReservation
CONSTANTS p1, p2, k1, k2, k3, k4, vault, wallet

VARIABLE scene

MCPassOf == [k \in Key |-> IF k = k4 THEN p2 ELSE p1]
MCAmount == [k \in Key |-> IF k = k2 THEN 2 ELSE 1]

\* The sources a scene leaves as they are, and its observers.
Resting == CASE scene = "vault" -> {wallet}
             [] scene = "wallet" -> {vault}
             [] scene = "both" -> {}
             [] scene \in {"charges", "shared"} -> {wallet}
Observing == scene \in {"vault", "wallet"}
PassPlayed == IF scene = "shared" THEN p2 ELSE p1

StoresInit ==
  /\ StoreInit
  /\ scene \in {"vault", "wallet", "both", "charges", "shared"}

\* In the scenes of charges the vault receives 2 at a time and a pass is created
\* with 2, the vault's proof stays fresh, and what others write over a shared
\* pass's counters is small.
StoresNext ==
  /\ UNCHANGED scene
  /\ \/ /\ scene \in {"vault", "wallet", "both"}
        /\ FundingNext
        /\ UNCHANGED reservationVars
     \/ /\ scene \in {"charges", "shared"}
        /\ StoreNext
        /\ \A p \in Pass \ {PassPlayed} : pass'[p] = pass[p] /\ alloc'[p] = alloc[p]
        /\ pass'[p1].limit \in {0, 2, 4} /\ pass'[p2].limit \in {0, 2}
        /\ pass'[p2].spent + pass'[p2].reserved <= 2
        /\ source'[vault].balance >= source[vault].balance => source'[vault].balance # 1
        /\ source[vault].fresh => source'[vault].fresh
  /\ \A s \in Resting : source'[s] = source[s]
  /\ \A o \in Observer : loaded'[o].busy => Observing /\ loaded'[o].of \notin Resting

StoresSpec == StoresInit /\ [][StoresNext]_<<storeVars, scene>>
=============================================================================
