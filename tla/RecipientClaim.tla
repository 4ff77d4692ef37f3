--------------------------- MODULE RecipientClaim ---------------------------
(***************************************************************************)
(* Claim links of one recipient of a pass: a recipient who has no payment  *)
(* destination is sent a link and binds one with it (claimRecipientWallet),*)
(* the owner sends a new link or revokes one, and a link of an older pass  *)
(* is imported on first use (session.service.ts,                           *)
(* recipientIdentity.service.ts).                                          *)
(*                                                                         *)
(* Every transaction here writes the pass document, so MongoDB serialises  *)
(* them and each is one step; what a request read before its transaction   *)
(* may be stale.  The pass stays open.                                     *)
(***************************************************************************)
EXTENDS Integers, FiniteSets

CONSTANTS Clerk,        \* concurrent requests
          MaxLinks      \* bound: links issued for the recipient

ASSUME ClaimAssumption == MaxLinks \in Nat \ {0, 1}

VARIABLES link,         \* RecipientClaim documents, by link
          destination,  \* PaymentDestination documents, by the link that bound them
          guest,        \* the recipient's entry in pass.recipientWallets
          clerk         \* requests in progress
claimVars == <<link, destination, guest, clerk>>

Link == 1..MaxLinks
LinkStatus == {"none", "pending", "claimed", "expired", "revoked"}
IdleClerk == [pc |-> "idle", k |-> 0, seen |-> "none"]

\* The first link is written with the pass, or only embedded in it by a
\* release that had no claim documents.
RecipientClaimInit ==
    /\ \E first \in {"pending", "none"} :
          link = [k \in Link |-> [status |-> IF k = 1 THEN first ELSE "none", lapsed |-> FALSE,
                                  embedded |-> k = 1 /\ first = "none"]]
    /\ destination = [k \in Link |-> "none"]
    /\ guest = [destination |-> 0, status |-> "awaiting_details", invite |-> "open",
                email |-> TRUE, token |-> 1, claim |-> 1]
    /\ clerk = [c \in Clerk |-> IdleClerk]

Issued(k) == link[k].status # "none"
ClerkAt(c, pc) == clerk[c].pc = pc
ClerkGoes(c, rec) == clerk' = [clerk EXCEPT ![c] = rec]
ClerkStep(c, pc) == ClerkGoes(c, [clerk[c] EXCEPT !.pc = pc])
ClerkDone(c) == ClerkGoes(c, IdleClerk)

----------------------------------------------------------------------------
(* findRecipientClaim: read the link, import it, or mark it expired.       *)
\* A link that is not pending, and a token that is neither a claim's nor in the
\* pass, is answered and nothing more.
Found(k) ==
    IF link[k].status # "pending" THEN IdleClerk
    ELSE [IdleClerk EXCEPT !.pc = IF link[k].lapsed THEN "expire" ELSE "found", !.k = k]

OpenLink(c, k) ==
    /\ ClerkAt(c, "idle") /\ Issued(k)
    /\ ClerkGoes(c, Found(k))
    /\ UNCHANGED <<link, destination, guest>>

FindAgain(c) ==
    /\ ClerkAt(c, "find")
    /\ ClerkGoes(c, Found(clerk[c].k))
    /\ UNCHANGED <<link, destination, guest>>

\* migrateLegacyClaimAuthority reads the pass, inserts the claim unless it
\* exists, and writes its id to the pass.
LegacyStatus(k) ==
    CASE guest.invite = "claimed" -> "claimed"
      [] guest.invite = "revoked" -> "revoked"
      [] OTHER -> IF link[k].lapsed THEN "expired" ELSE "pending"

MigrateReads(c, k) ==
    /\ ClerkAt(c, "idle") /\ ~Issued(k) /\ guest.token = k
    /\ ClerkGoes(c, [pc |-> "insert", k |-> k, seen |-> LegacyStatus(k)])
    /\ UNCHANGED <<link, destination, guest>>

MigrateInserts(c) ==
    /\ ClerkAt(c, "insert")
    /\ link' = [link EXCEPT ![clerk[c].k].status =
                    IF Issued(clerk[c].k) THEN @ ELSE clerk[c].seen]
    /\ ClerkGoes(c, [IdleClerk EXCEPT !.pc = "migrated", !.k = clerk[c].k])
    /\ UNCHANGED <<destination, guest>>

MigrateWritesPass(c) ==
    /\ ClerkAt(c, "migrated")
    /\ guest' = [guest EXCEPT !.claim = clerk[c].k]
    /\ ClerkStep(c, "find")
    /\ UNCHANGED <<link, destination>>

ExpireLink(c) ==
    /\ ClerkAt(c, "expire")
    /\ link' = [link EXCEPT ![clerk[c].k].status = IF @ = "pending" THEN "expired" ELSE @]
    /\ ClerkGoes(c, [IdleClerk EXCEPT !.pc = "expired"])
    /\ UNCHANGED <<destination, guest>>

ExpireInPass(c) ==
    /\ ClerkAt(c, "expired")
    /\ guest' = [guest EXCEPT !.invite = "expired"]
    /\ ClerkDone(c)
    /\ UNCHANGED <<link, destination>>

----------------------------------------------------------------------------
(* getRecipientClaim and validateRecipientClaimDestination end after the   *)
(* read; claimRecipientWallet refuses a destination that does not validate *)
(* or cannot be reused where the pass repeats, and a link that is no       *)
(* longer pending in its transaction.                                      *)
AnswerLink(c) ==
    /\ ClerkAt(c, "found")
    /\ ClerkDone(c)
    /\ UNCHANGED <<link, destination, guest>>

\* Mutant: the transaction does not ask that the link is still pending.
ConsumesLapsed(k) == ~link[k].lapsed

Consumable(k) == link[k].status = "pending" /\ ~link[k].lapsed

\* Mutant: the previous destination stays active.
KeepsPrevious(k) == [destination EXCEPT ![k] = "active"]

BindDestination(k) ==
    [j \in Link |-> CASE j = k -> "active"
                      [] j # k /\ destination[j] = "active" -> "replaced"
                      [] OTHER -> destination[j]]

ClaimRecipientWallet(c) ==
    LET k == clerk[c].k IN
    /\ ClerkAt(c, "found") /\ Consumable(k)
    /\ link' = [link EXCEPT ![k].status = "claimed"]
    /\ destination' = BindDestination(k)
    /\ guest' = [guest EXCEPT !.destination = k, !.status = "pending", !.invite = "claimed"]
    /\ ClerkDone(c)

----------------------------------------------------------------------------
(* resendRecipientInvites                                                  *)
Resendable ==
    /\ guest.email /\ guest.destination = 0
    /\ guest.status # "paid" /\ guest.invite # "claimed"

ResendReads(c) ==
    /\ ClerkAt(c, "idle") /\ Resendable
    /\ ClerkGoes(c, [IdleClerk EXCEPT !.pc = "resend"])
    /\ UNCHANGED <<link, destination, guest>>

\* Mutant: the links already out are left as they are.
LeavePending == link

RevokePending == [j \in Link |-> IF link[j].status = "pending"
                                 THEN [link[j] EXCEPT !.status = "revoked"] ELSE link[j]]

ResendWrites(c, k) ==
    /\ ClerkAt(c, "resend")
    /\ k > 1 /\ ~Issued(k) /\ \A j \in 2..(k - 1) : Issued(j)
    /\ link' = [RevokePending EXCEPT ![k].status = "pending"]
    /\ guest' = [guest EXCEPT !.claim = k, !.token = k, !.invite = "open",
                              !.status = "awaiting_details"]
    /\ ClerkStep(c, "mail")
    /\ UNCHANGED destination

\* The mail is sent or fails; "open" stands for pending, sent and send_failed.
SendSessionRecipientInvites(c) ==
    /\ ClerkAt(c, "mail")
    /\ guest' = [guest EXCEPT !.invite = IF guest.email THEN "open" ELSE @]
    /\ ClerkDone(c)
    /\ UNCHANGED <<link, destination>>

----------------------------------------------------------------------------
(* revokeRecipientClaim and deleteContactData                              *)
RevokeReads(c, k) ==
    /\ ClerkAt(c, "idle") /\ link[k].status \in {"pending", "expired"}
    /\ ClerkGoes(c, [IdleClerk EXCEPT !.pc = "revoke", !.k = k])
    /\ UNCHANGED <<link, destination, guest>>

RevocableStatus == {"pending", "expired"}

RevokeWrites(c) ==
    LET k == clerk[c].k IN
    /\ ClerkAt(c, "revoke")
    /\ link' = [link EXCEPT ![k].status = IF @ \in RevocableStatus THEN "revoked" ELSE @]
    /\ guest' = [guest EXCEPT !.invite = "revoked"]
    /\ ClerkDone(c)
    /\ UNCHANGED destination

DeleteContactData(c) ==
    /\ ClerkAt(c, "idle") /\ guest.email
    /\ link' = RevokePending
    /\ ClerkGoes(c, [IdleClerk EXCEPT !.pc = "forget"])
    /\ UNCHANGED <<destination, guest>>

ForgetContact(c) ==
    /\ ClerkAt(c, "forget")
    /\ guest' = [guest EXCEPT !.email = FALSE, !.token = 0]
    /\ ClerkDone(c)
    /\ UNCHANGED <<link, destination>>

----------------------------------------------------------------------------
\* The date of a link passes.
LinkLapses(k) ==
    /\ ~link[k].lapsed
    /\ link[k].status = "pending" \/ (~Issued(k) /\ guest.token = k)
    /\ link' = [link EXCEPT ![k].lapsed = TRUE]
    /\ UNCHANGED <<destination, guest, clerk>>

\* The payout worker pays the bound destination (ScheduledPayout).
PayoutPays ==
    /\ guest.status = "pending" /\ guest.destination # 0
    /\ guest' = [guest EXCEPT !.status = "paid"]
    /\ UNCHANGED <<link, destination, clerk>>

RecipientClaimNext ==
    \/ \E c \in Clerk :
          \/ \E k \in Link : \/ OpenLink(c, k) \/ MigrateReads(c, k)
                             \/ RevokeReads(c, k) \/ ResendWrites(c, k)
          \/ FindAgain(c) \/ ExpireLink(c) \/ ExpireInPass(c)
          \/ MigrateInserts(c) \/ MigrateWritesPass(c)
          \/ AnswerLink(c) \/ ClaimRecipientWallet(c)
          \/ ResendReads(c) \/ SendSessionRecipientInvites(c)
          \/ RevokeWrites(c) \/ DeleteContactData(c) \/ ForgetContact(c)
    \/ \E k \in Link : LinkLapses(k)
    \/ PayoutPays

RecipientClaimSpec == RecipientClaimInit /\ [][RecipientClaimNext]_claimVars
----------------------------------------------------------------------------
\* The values each variable may have.
ClaimTypeOK ==
    /\ \A k \in Link : link[k].status \in LinkStatus /\ link[k].lapsed \in BOOLEAN
    /\ \A k \in Link : destination[k] \in {"none", "active", "replaced"}
    /\ guest.destination \in 0..MaxLinks
    /\ guest.status \in {"awaiting_details", "pending", "paid"}
    /\ guest.claim \in Link /\ guest.token \in 0..MaxLinks

\* However claims, resends, revocations and imports overlap, a recipient has at
\* most one active destination; it is the one the pass pays, and the link that
\* bound it is spent (the transaction of claimRecipientWallet).
OneDestination ==
    \A k \in Link : destination[k] = "active" =>
        guest.destination = k /\ link[k].status = "claimed"

\* A destination is bound only by a link that is pending and in date, and a link
\* that was used or revoked keeps that status, whatever a request read before.
SpentLinkIsFinal ==
    [][/\ \A k \in Link : link[k].status \in {"claimed", "revoked"} =>
                              link'[k].status = link[k].status
       /\ \A k \in Link : destination[k] = "none" /\ destination'[k] = "active" =>
                              link[k].status = "pending" /\ ~link[k].lapsed]_claimVars

\* Sending a new link withdraws the ones before it: two links are never usable
\* at once, except a link of an older pass that is imported after its
\* replacement was sent (resendRecipientInvites).
OneUsableLink ==
    \A j, k \in Link : j < k /\ link[j].status = "pending" /\ link[k].status = "pending"
                       => link[j].embedded

\* Whatever claims, resends and revocations run together, a recipient has one
\* destination and one usable link, and a link that was used up stays so.
ClaimsSound == []OneDestination /\ []OneUsableLink /\ SpentLinkIsFinal
=============================================================================
