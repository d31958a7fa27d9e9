-------------------------- MODULE CredentialStore --------------------------
(***************************************************************************)
(* What GetRegistryCredentials promises to the goroutines that call it,    *)
(* with its lock, its map and its HTTP exchange hidden: a store of         *)
(* registry credentials, filled on demand, on which every call takes       *)
(* effect in a single step between its invocation and its return.          *)
(*                                                                         *)
(*   - a call answered from the store gets exactly what is stored;         *)
(*   - a call that fetches gets a credential that was current at some time *)
(*     during the call, stores it, and never replaces a credential of the  *)
(*     same registry by an older one;                                      *)
(*   - a call that fails leaves the store as it was.                       *)
(*                                                                         *)
(* RegistryCredentials implements this module.                             *)
(***************************************************************************)
EXTENDS Naturals

CONSTANTS Callers,    \* the goroutines
          Targets,    \* the registries that can be asked for
          Keys,       \* the keys of the store
          KeyOf(_),   \* the key of a target
          Nil,        \* no credential
          Blank,      \* RegistryUserCredentials that lack a property
          Failed,     \* the outcome of a call that returned an error
          MaxEpoch    \* bound: how often a registry's credential is renewed

VARIABLES stored,     \* stored[k]: the credential kept under key k, or Nil
          epoch,      \* epoch[t]: how often the server renewed t's credential
          status,     \* status[c]: "idle", "pending" or "returned"
          asked,      \* asked[c]: the target of c's last call
          since,      \* since[c]: epoch of that target when the call began
          outcome     \* outcome[c]: what c's last call returned, Nil before

vars == <<stored, epoch, status, asked, since, outcome>>

Init ==
    /\ stored = [k \in Keys |-> Nil]
    /\ epoch = [t \in Targets |-> 0]
    /\ status = [c \in Callers |-> "idle"]
    /\ asked = [c \in Callers |-> CHOOSE t \in Targets : TRUE]
    /\ since = [c \in Callers |-> 0]
    /\ outcome = [c \in Callers |-> Nil]

Invoke(c, t) ==
    /\ status[c] # "pending"
    /\ status' = [status EXCEPT ![c] = "pending"]
    /\ asked' = [asked EXCEPT ![c] = t]
    /\ since' = [since EXCEPT ![c] = epoch[t]]
    /\ outcome' = [outcome EXCEPT ![c] = Nil]
    /\ UNCHANGED <<stored, epoch>>

Return(c, result) ==
    /\ status[c] = "pending"
    /\ status' = [status EXCEPT ![c] = "returned"]
    /\ outcome' = [outcome EXCEPT ![c] = result]
    /\ UNCHANGED <<epoch, asked, since>>

Hit(c) ==
    /\ stored[KeyOf(asked[c])] # Nil
    /\ Return(c, stored[KeyOf(asked[c])])
    /\ UNCHANGED stored

(* stored[k] may be replaced by a credential of epoch e.                   *)
MayReplace(old, t, e) ==
    (old \notin {Nil, Blank} /\ old.target = t) => old.epoch <= e

Refresh(c) ==
    LET t == asked[c]
        k == KeyOf(t)
    IN  \E e \in since[c]..epoch[t] :
            /\ MayReplace(stored[k], t, e)
            /\ stored' = [stored EXCEPT ![k] = [target |-> t, epoch |-> e]]
            /\ Return(c, [target |-> t, epoch |-> e])

RefreshBlank(c) ==
    /\ stored' = [stored EXCEPT ![KeyOf(asked[c])] = Blank]
    /\ Return(c, Blank)

Fail(c) ==
    /\ Return(c, Failed)
    /\ UNCHANGED stored

Renew(t) ==
    /\ epoch[t] < MaxEpoch
    /\ epoch' = [epoch EXCEPT ![t] = @ + 1]
    /\ UNCHANGED <<stored, status, asked, since, outcome>>

Next ==
    \/ \E c \in Callers :
          \/ \E t \in Targets : Invoke(c, t)
          \/ Hit(c)
          \/ Refresh(c)
          \/ RefreshBlank(c)
          \/ Fail(c)
    \/ \E t \in Targets : Renew(t)

Spec == Init /\ [][Next]_vars

=============================================================================
