--------------------------- MODULE MCChargeSession ---------------------------
(***************************************************************************)
(* Each behaviour plays one scene: callers that retry one charge of a pass *)
(* with an expiry date while they crash and the owner pauses the pass,     *)
(* callers with two charges of a single-use pass, or a caller that charges *)
(* a pass a schedule or a metered grant spends as well.                    *)
(***************************************************************************)
EXTENDS ChargeSession, TLC

CONSTANTS p1, p2, p3, k1, k2, k3, k4

VARIABLE scene

MCPassOf == [k \in Key |-> CASE k = k1 -> p1 [] k = k4 -> p3 [] OTHER -> p2]
MCAmount == [k \in Key |-> IF k = k1 THEN 2 ELSE 1]
MCInvoiceOf == [k \in Key |-> k]
CallerSymmetry == Permutations(Caller)

PassPlayed == CASE scene = "retries" -> p1 [] scene = "single" -> p2 [] scene = "shared" -> p3
FirstKey == CASE scene = "retries" -> k1 [] scene = "single" -> k2 [] scene = "shared" -> k4

ChargesInit ==
  /\ SessionInit
  /\ scene \in {"retries", "single", "shared"}
  /\ \A c \in Caller : call[c].key = FirstKey

\* Nothing but the scene's pass moves.  Once it exists the vault receives
\* nothing, and its proof stays fresh: with an old one a request ends before it
\* does anything.  Callers crash and the owner pauses the pass only in the
\* retries, and the shared pass has one caller.
ChargesNext ==
  /\ SessionNext
  /\ \A p \in Pass \ {PassPlayed} : pass'[p] = pass[p]
  /\ scene # "retries" => UNCHANGED <<crashes, pauses>>
  /\ scene = "shared" => /\ (\E c \in Caller : \A b \in Caller \ {c} : At(b, "idle"))'
                         /\ pass'[p3].limit = 2 \/ pass[p3].limit = 0
                         /\ pass'[p3].spent + pass'[p3].reserved <= 1
  /\ pass[PassPlayed].status # "none" =>
       \A s \in Source : /\ source'[s].balance <= source[s].balance
                         /\ source[s].fresh => source'[s].fresh
  /\ UNCHANGED scene

ChargesSpec == ChargesInit /\ [][ChargesNext]_<<sessionVars, scene>>
=============================================================================
