---------------------------- MODULE MCIdempotency ----------------------------
(* Instances of Idempotency for TLC. *)
EXTENDS Idempotency, TLC

CONSTANTS r1, r2, r3, r4, r5, b1, b2

\* A request and two retries of it, and another body sent twice with its key.
MCBodyOf == (r1 :> b1) @@ (r2 :> b1) @@ (r3 :> b1) @@ (r4 :> b2) @@ (r5 :> b2)

=============================================================================
