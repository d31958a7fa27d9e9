--------------------------- MODULE ApiCallsHistory ---------------------------
(***************************************************************************)
(* ApiCalls with a history variable, which tells when a call's context was *)
(* cancelled: before its request was sent; during SendRequest, until send  *)
(* chooses the error to report; or after that, or after the response.      *)
(***************************************************************************)
EXTENDS ApiCalls

VARIABLE cancelledAt  \* cancelledAt[g]: "never", "before", "during" or "after"

historyVars == <<vars, cancelledAt>>

Before == {"building", "credentials", "ready"}
During == {"sent", "failed"}

Moment(g) ==
    CASE phase[g] \in Before -> "before"
      [] phase[g] \in During -> "during"
      [] OTHER -> "after"

HistoryInit ==
    /\ Init
    /\ cancelledAt = [g \in Goroutines |-> "never"]

HistoryNext ==
    /\ Next
    /\ cancelledAt' = [g \in Goroutines |->
            IF ctx'[g] # "cancelled" THEN "never"
            ELSE IF ctx[g] # "cancelled" THEN Moment(g) ELSE cancelledAt[g]]

HistorySpec == HistoryInit /\ [][HistoryNext]_historyVars

(* The client is fair and the IoT server answers; nothing is asked of the  *)
(* credential server.                                                      *)
IoTHistorySpec == HistorySpec /\ ClientFairness /\ IoTFairness
-----------------------------------------------------------------------------
(* A call cancelled before its request was sent never sends it, however    *)
(* long it waits for credentials and whatever Service it has.  And a call  *)
(* that fails in SendRequest reports the cancellation, not the transport's *)
(* error that came of it, if its context was cancelled before send chose   *)
(* the error; it reports no cancellation that came later, or never.        *)
CancellationReported ==
    \A g \in Goroutines :
        /\ cancelledAt[g] = "before" =>
              wire[g] = NoRequest /\ out[g] \in {"none", "rejected", "contextError"}
        /\ out[g] = "sendError" => cancelledAt[g] \in {"never", "after"}
        /\ out[g] = "contextError" => cancelledAt[g] \in {"before", "during"}
=============================================================================
