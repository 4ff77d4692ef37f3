---------------------------- MODULE PassSpenders ----------------------------
(***************************************************************************)
(* Payment schedules, metered grants and charges on one pass: none knows   *)
(* of the others.  Schedules and grants reserve and spend through one set  *)
(* of the pass's counters, charges through the other.                      *)
(***************************************************************************)
EXTENDS PaymentSchedule, MeteredPayment

spenderVars == <<passVars, scheduleVars, meteredVars>>

SpendersInit == PurseInit /\ ScheduleInit /\ MeteredInit

SpendersNext ==
  \/ ScheduleNext /\ UNCHANGED meteredVars
  \/ MeteredNext /\ UNCHANGED scheduleVars
  \/ PassMoves /\ UNCHANGED <<scheduleVars, meteredVars>>

SpendersSpec == SpendersInit /\ [][SpendersNext]_spenderVars
-----------------------------------------------------------------------------
\* The documents hold values of their schemas and every process is at a step of
\* its handler.
SpendersTypeOK ==
  /\ purse \in PurseRecord /\ minor \in MinorRecord /\ charge \in ChargeStatus
  /\ ScheduleTypeOK /\ MeteredTypeOK

\* However leases lapse and blocks, retries, releases and successes cross, the
\* Atomic counters of the pass hold exactly what the occurrences and events that
\* say reserved hold, have spent what those were debited, and stay within the
\* limit, whatever charges are made meanwhile.
PassCountersMatch ==
  /\ purse.reserved = ScheduleHolds + grant.reserved
  /\ purse.spent = ScheduleSpent + grant.spent
  /\ purse.spent + purse.reserved <= PassLimit

\* The two sets of counters tell the same as long as no charge was ever made on
\* the pass, by an app or for a schedule on the Fiber rail.
CountersAgree ==
  charge = "none" /\ Unstarted => minor.reserved = purse.reserved /\ minor.spent = purse.spent

\* What the pass and the grant have reserved and spent is what their occurrences,
\* batches and events hold and were debited, in both sets of the pass's counters
\* until its first charge.
ReservesMatch == PassCountersMatch /\ CountersAgree /\ GrantMatchesEvents

\* What says succeeded or settled was paid, and a schedule moves on only past
\* occurrences that were debited.
SpendersPaid == OccurrenceSuccessIsPaid /\ CountFollowsDebits /\ SettledIsPaid

\* docs/metered-payments.md has an event accepted only if spent plus reserved
\* plus event is no greater than the pass limit.  What charges, schedules and the
\* grant hold and were debited passes the limit of a pass that is never topped
\* up: an event is checked against the Atomic counters, which charges do not
\* move, and a charge against Minor counters that an event has written over.
PassNotOverdrawn ==
  TopUp = 0 =>
    ChargeHolds + ChargeSpent + FiberUses + ScheduleHolds + ScheduleSpent
      + grant.reserved + grant.spent <= PassLimit
=============================================================================
