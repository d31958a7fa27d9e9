----------------------------- MODULE MCApiCalls -----------------------------
(* Small instances of ApiCalls for TLC.                                    *)
EXTENDS ApiCalls, TLC

(* Every call of the table.                                                *)
AllCalls == CallIds

(* A call that has returned has no influence on the next ones but through *)
(* the Service and its cache, so one resting state stands for all.         *)
Call(g) == <<phase[g], job[g], ctx[g], wire[g], reply[g], body[g], out[g]>>
UpToLastCall ==
    <<storeVars, setupVars,
      [g \in Goroutines |-> IF Resting(g) THEN <<>> ELSE Call(g)]>>

(* Nothing depends on which project, registry or device a name stands for. *)
AnyName == Permutations(Projects) \cup Permutations(Registries) \cup Permutations(Devices)
=============================================================================
