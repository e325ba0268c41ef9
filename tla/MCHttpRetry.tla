----------------------------- MODULE MCHttpRetry -----------------------------
(* A Retry-After of zero, one below the cap, and one above it. *)
EXTENDS HttpRetry

SomeRetryAfters == {0, 7, 90}
=============================================================================
