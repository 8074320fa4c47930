--------------------------- MODULE ProviderHealth ---------------------------
(***************************************************************************)
(* What core reads a failure to say of a provider's health.                *)
(***************************************************************************)
EXTENDS Integers

\* HTTP statuses a failure carries; 0 is an error without one.
Statuses == {0, 200, 304, 401, 403, 404, 408, 429, 501, 503}

Health(status, class, permanent, retryable) ==
    [status |-> status, class |-> class, permanent |-> permanent, retryable |-> retryable]
UnknownHealth == Health("", "", FALSE, FALSE)
Healthy == Health("healthy", "none", FALSE, FALSE)

\* ClassifyProviderFailure of an error with this status; a 200 is a reply that
\* could not be read.
ClassifyProviderFailure(status) ==
    CASE status = 0   -> Health("unhealthy", "transport", FALSE, TRUE)
      [] status = 401 -> Health("unhealthy", "auth", TRUE, FALSE)
      [] status = 403 -> Health("unhealthy", "forbidden", TRUE, FALSE)
      [] status = 429 -> Health("degraded", "rate_limited", FALSE, TRUE)
      [] OTHER        -> Health("unhealthy", "upstream", FALSE, status = 408 \/ status >= 500)
=============================================================================
