---------------------------- MODULE SessionOutcome ----------------------------
(***************************************************************************)
(* What a FlicSession promises the code that waits for it: it is started   *)
(* at most once, becomes ready at most once, and a failure is final.       *)
(* FlicSession implements this specification; FlicDevice uses sessions      *)
(* through it (its variable session).                                      *)
(***************************************************************************)
VARIABLE outcome

Outcomes == {"idle", "waiting", "ready", "failed"}

OInit == outcome = "idle"

\* start() has chosen the handshake.
OStarted == outcome = "idle" /\ outcome' = "waiting"

\* session.ready is set without a failure.
OReady == outcome = "waiting" /\ outcome' = "ready"

\* session.failure is set; session.ready is set with it.
OFailed == outcome # "failed" /\ outcome' = "failed"

ONext == OStarted \/ OReady \/ OFailed

OSpec == OInit /\ [][ONext]_outcome
=============================================================================
