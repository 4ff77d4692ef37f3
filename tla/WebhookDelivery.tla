--------------------------- MODULE WebhookDelivery ---------------------------
(***************************************************************************)
(* Delivery of one webhook event: the queue document, the workers that     *)
(* post it (webhook.service.ts) and the reconciliation sweep that takes a  *)
(* delivery back from a worker that holds it too long                      *)
(* (reconciliation.service.ts).  A worker saves its own copy at the end,   *)
(* whoever holds the delivery by then.                                     *)
(*                                                                         *)
(* A delivery that is queued or waits for its back-off is taken after any  *)
(* delay.                                                                  *)
(***************************************************************************)
EXTENDS Integers

CONSTANTS Postman,          \* webhook workers
          MaxPosts       \* maxAttempts of the document

ASSUME WebhookAssumption == MaxPosts \in Nat \ {0}

VARIABLES hook,         \* the WebhookDelivery document
          hookApp,      \* does the app have a webhook URL and secret
          postman,      \* the workers: pc, attempts of its copy, outcome of the post
          receiver      \* what the endpoint answered so far
hookVars == <<hook, hookApp, postman, receiver>>

HookOutcomes == {"ok", "retry", "refused"}
IdlePostman == [pc |-> "idle", attempts |-> 0, outcome |-> "none"]

WebhookInit ==
    /\ hook = [status |-> "none", attempts |-> 0, stale |-> FALSE]
    /\ hookApp = TRUE
    /\ postman = [w \in Postman |-> IdlePostman]
    /\ receiver = [accepted |-> FALSE, refused |-> FALSE]

PostmanGoes(w, rec) == postman' = [postman EXCEPT ![w] = rec]

\* An event of an app without a webhook is not queued.
EnqueueWebhookEvent ==
    /\ hook.status = "none" /\ hookApp
    /\ hook' = [hook EXCEPT !.status = "queued"]
    /\ UNCHANGED <<hookApp, postman, receiver>>

\* The owner removes the URL and the secret, or sets them again.
ConfigureAppWebhook ==
    /\ hookApp' = ~hookApp
    /\ UNCHANGED <<hook, postman, receiver>>

ClaimNextWebhookDelivery(w) ==
    /\ postman[w].pc = "idle" /\ hook.status \in {"queued", "retrying"}
    /\ hook' = [status |-> "delivering", attempts |-> hook.attempts + 1, stale |-> FALSE]
    /\ PostmanGoes(w, [pc |-> "post", attempts |-> hook.attempts + 1, outcome |-> "none"])
    /\ UNCHANGED <<hookApp, receiver>>

\* Mutant: a redirect counts as delivered.
RedirectIsDelivered(answer) == IF answer = "redirect" THEN "ok" ELSE answer

\* Timeouts, 408, 425, 429 and 5xx may be tried again; other answers, a
\* redirect among them, and a destination that is refused may not.
WebhookHttpFailure(answer) == IF answer = "redirect" THEN "refused" ELSE answer

\* The endpoint may have handled an event although its answer is lost.
PostWebhook(w) ==
    /\ postman[w].pc = "post" /\ hookApp
    /\ \E answer \in {"ok", "redirect", "refused", "retry"} :
          /\ receiver' = [accepted |-> receiver.accepted \/ answer = "ok",
                          refused |-> receiver.refused \/ answer \in {"refused", "redirect"}]
          /\ PostmanGoes(w, [postman[w] EXCEPT !.pc = "save",
                                               !.outcome = WebhookHttpFailure(answer)])
    /\ UNCHANGED <<hook, hookApp>>

SecretUnavailable(w) ==
    /\ postman[w].pc = "post" /\ ~hookApp
    /\ receiver' = [receiver EXCEPT !.refused = TRUE]
    /\ PostmanGoes(w, [postman[w] EXCEPT !.pc = "save", !.outcome = "refused"])
    /\ UNCHANGED <<hook, hookApp>>

\* Mutant: the last attempt is not made.
LastAttemptDropped(attempts) == attempts + 1 < MaxPosts

\* Mutant: the attempts are not limited.
RetriesForever(attempts) == attempts >= 0

CanRetry(attempts) == attempts < MaxPosts

OutcomeStatus(w) ==
    CASE postman[w].outcome = "ok" -> "succeeded"
      [] postman[w].outcome = "retry" /\ CanRetry(postman[w].attempts) -> "retrying"
      [] OTHER -> "failed"

\* save() writes the paths the worker changed: status and lock.
DeliverWebhookSaves(w) ==
    /\ postman[w].pc = "save"
    /\ hook' = [hook EXCEPT !.status = OutcomeStatus(w), !.stale = FALSE]
    /\ PostmanGoes(w, IdlePostman)
    /\ UNCHANGED <<hookApp, receiver>>

PostmanStops(w) ==
    /\ postman[w].pc # "idle"
    /\ PostmanGoes(w, IdlePostman)
    /\ UNCHANGED <<hook, hookApp, receiver>>

\* Mutant: a stale lock at the attempt limit is left alone.
RecoversBelowLimit ==
    hook.status = "delivering" /\ hook.stale /\ hook.attempts < MaxPosts

Recoverable == hook.status = "delivering" /\ hook.stale

\* The second query asks again for the status and the old lock, so reading the
\* candidates and writing one is one step.
RecoverStaleWebhookDeliveries ==
    /\ Recoverable
    /\ hook' = [hook EXCEPT !.stale = FALSE,
                   !.status = IF hook.attempts >= MaxPosts THEN "failed" ELSE "retrying"]
    /\ UNCHANGED <<hookApp, postman, receiver>>

\* The lock of a delivery grows older than the sweep allows.
WebhookLockLapses ==
    /\ hook.status = "delivering" /\ ~hook.stale
    /\ hook' = [hook EXCEPT !.stale = TRUE]
    /\ UNCHANGED <<hookApp, postman, receiver>>

WebhookNext ==
    \/ EnqueueWebhookEvent \/ ConfigureAppWebhook
    \/ RecoverStaleWebhookDeliveries \/ WebhookLockLapses
    \/ \E w \in Postman : \/ ClaimNextWebhookDelivery(w) \/ PostWebhook(w)
                          \/ SecretUnavailable(w) \/ DeliverWebhookSaves(w) \/ PostmanStops(w)

WebhookSpec == WebhookInit /\ [][WebhookNext]_hookVars
----------------------------------------------------------------------------
\* The values each variable may have.  Stale saves can bring a delivery back
\* after its last attempt, but only as often as it was taken before it.
WebhookTypeOK ==
    /\ hook.status \in {"none", "queued", "delivering", "succeeded", "retrying", "failed"}
    /\ hook.attempts \in 0..(2 * MaxPosts - 1)
    /\ \A w \in Postman : postman[w].attempts \in 0..hook.attempts

\* A delivery is recorded as delivered only after its endpoint accepted it, even
\* when another worker's copy is saved over it (deliverWebhook).
SucceededWasAccepted == hook.status = "succeeded" => receiver.accepted

\* A delivery is given up only after an answer that must not be retried or after
\* all its attempts were made, although workers decide on their own copy of the
\* attempt count (deliverWebhook, recoverStaleWebhookDeliveries).
GivenUpIsExhausted ==
    hook.status = "failed" => receiver.refused \/ hook.attempts >= MaxPosts

\* Every queued event is in the end delivered or given up and stays so, however
\* often workers stop or save late: the sweep takes back what they hold and the
\* attempts run out (recoverStaleWebhookDeliveries).
WebhookSettles ==
    hook.status = "queued" ~> [](hook.status \in {"succeeded", "failed"})

\* A delivery's final status says what happened to it, although workers save stale
\* copies: it succeeded if the endpoint accepted it, failed if it was given up.
WebhookHonest == SucceededWasAccepted /\ GivenUpIsExhausted
=============================================================================
