--------------------------- MODULE MCAuthSessions ---------------------------
(* Small sets of requests for the TLC runs of AuthSessions.                *)
EXTENDS AuthSessions

FourRequests == 1 .. 4

=============================================================================
