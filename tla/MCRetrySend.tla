---------------------------- MODULE MCRetrySend ----------------------------
(* Small instances of RetrySend for TLC: statuses at the edges of the      *)
(* ranges that shouldRetry tells apart, and a redirect.                    *)
EXTENDS RetrySend

EdgeStatuses == {200, 302, 404, 408, 429, 499, 500, 503, 599}
=============================================================================
