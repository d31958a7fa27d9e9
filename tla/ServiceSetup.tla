---------------------------- MODULE ServiceSetup ----------------------------
(***************************************************************************)
(* NewService: it applies its options in their order, stops at the first   *)
(* that fails, and loads the configuration file if none of them set the    *)
(* service account.  The Service is shared only once it is returned.       *)
(*                                                                         *)
(* Credentials are decoded and not looked at: a JSON text that lacks some  *)
(* of the four properties, or all, makes an account like any other.        *)
(***************************************************************************)
EXTENDS Naturals, Sequences

CONSTANTS ServiceAccount,  \* complete service account credentials
          Nil,             \* no credentials
          Blank,           \* credentials that lack a property, whichever
          MaxOptions       \* bound on the options of one NewService

VARIABLES setup,          \* "none", "applying", "ready" or "failed"
          todo,           \* options still to apply
          serviceAccount  \* s.ServiceAccountCredentials

setupVars == <<setup, todo, serviceAccount>>

(* A text of credentials, in an option or in the file.                     *)
Decodable == {"complete", "incomplete"}
Texts == Decodable \cup {"broken"}

Decode(text) == IF text = "complete" THEN ServiceAccount ELSE Blank

Option ==
    [does : {"credentials"}, with : Texts]
    \cup [does : {"file"}, with : {"environment"}]
    \cup [does : {"client"}, with : {"client", "nil"}]

SetupInit ==
    /\ setup = "none"
    /\ todo = <<>>
    /\ serviceAccount = Nil

NewService ==
    /\ setup \in {"none", "failed"}
    /\ setup' = "applying"
    /\ \E n \in 0 .. MaxOptions : todo' \in [1 .. n -> Option]
    /\ serviceAccount' = Nil

Applying(option) ==
    /\ setup = "applying"
    /\ todo # <<>>
    /\ Head(todo).does = option
    /\ todo' = Tail(todo)

Fail ==
    /\ setup' = "failed"
    /\ serviceAccount' = Nil

WithServiceAccountCredentials ==
    /\ Applying("credentials")
    /\ IF Head(todo).with \in Decodable
       THEN serviceAccount' = Decode(Head(todo).with) /\ UNCHANGED setup
       ELSE Fail

WithHTTPClient ==
    /\ Applying("client")
    /\ IF Head(todo).with = "client" THEN UNCHANGED <<setup, serviceAccount>> ELSE Fail

(* The file that CLEARBLADE_CONFIGURATION names, if it can be opened.      *)
loadServiceAccountCredentials ==
    \/ \E text \in Decodable : serviceAccount' = Decode(text) /\ UNCHANGED setup
    \/ Fail

WithFileCredentials ==
    /\ Applying("file")
    /\ loadServiceAccountCredentials

(* No option set the service account.                                      *)
LoadByDefault ==
    /\ setup = "applying"
    /\ todo = <<>>
    /\ serviceAccount = Nil
    /\ loadServiceAccountCredentials
    /\ UNCHANGED todo

ReturnService ==
    /\ setup = "applying"
    /\ todo = <<>>
    /\ serviceAccount # Nil
    /\ setup' = "ready"
    /\ UNCHANGED <<todo, serviceAccount>>

SetUp ==
    \/ NewService \/ WithServiceAccountCredentials \/ WithHTTPClient
    \/ WithFileCredentials \/ LoadByDefault \/ ReturnService
=============================================================================
