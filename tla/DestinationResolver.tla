------------------------- MODULE DestinationResolver -------------------------
(***************************************************************************)
(* destinationResolver.service.ts: how a fresh payment request of a        *)
(* reusable destination may come out.  What is resolved does not matter    *)
(* here, only the kind of failure, for schedules and metered batches treat *)
(* the kinds differently:                                                  *)
(*   refused      an ApiError of status 400                                *)
(*   unavailable  an ApiError of status 502                                *)
(*   expired      an ApiError of status 410 whose code ends in _EXPIRED    *)
(*   malformed    an answer that its schema rejects, which is no ApiError  *)
(***************************************************************************)
EXTENDS Naturals

Failure == {"refused", "unavailable", "expired", "malformed"}

DestinationKind == {"lnurl", "lightning_address", "endpoint", "bolt12_offer"}

\* The client: the URL or an address it resolves to is refused; or there is no
\* complete JSON answer of status 2xx in time.
UrlFailures == {"refused"}
RequestFailures == UrlFailures \cup {"unavailable"}

\* Two requests, for the metadata and for the invoice: an address or an LNURL
\* that does not decode and an amount out of range are refused, a range that is
\* no amount is the provider's fault.
LnurlFailures == RequestFailures \cup {"malformed", "unavailable", "refused"}

\* One request; another recipient, rail, network, asset or amount is refused.
EndpointFailures == RequestFailures \cup {"malformed", "refused"}

\* The invoice itself: unreadable, unsigned, of another amount, or expired.
LightningFailures == {"refused", "expired"}
FiberFailures == {"refused", "unavailable", "expired"}

\* resolveFreshPaymentRequest: a resolution, or a failure of one of its steps.
Resolution(kind, rail) ==
  {"resolved"}
    \cup (IF kind \in {"lnurl", "lightning_address"} THEN LnurlFailures ELSE EndpointFailures)
    \cup (IF rail = "fiber" THEN FiberFailures ELSE LightningFailures)

\* retryableError of the schedules and publicFailure of the metered worker.
ScheduleRetries(failure) == failure \in {"unavailable", "expired"}
MeteredRetries(failure) == failure \in {"unavailable", "malformed"}
=============================================================================
