-------------------------------- MODULE MCLogs --------------------------------
(* What is written down, side by side: access and diagnostic logs on their *)
(* way, in the delivery queue of the service and in the control worker of  *)
(* a node that sends to it; and the traces of attempts, with what they     *)
(* must not show.                                                          *)
EXTENDS LogIngest, LogDelivery, TLC

CONSTANTS
  w1, w2,   \* loops of the delivery queue
  a,        \* an event
  Scenes    \* of the run

VARIABLES
  scene,   \* the component that moves, with its instance
  rec, scopes, clock, ops, failures, attempt, table, document,   \* AttemptTrace
  secrets, incomplete, failed, credentials, shown, outside, texts, losses   \* Redaction

LoopsAlike == Permutations({w1, w2})

DataEvents == [s \in {"data", "control"} |-> IF s = "data" THEN 3 ELSE 0]

BodyPaths == {<<"a">>, <<"a", "b">>, <<"a", "[]", "c">>}

Caps == INSTANCE AttemptTrace WITH
  Requests <- {"a"}, Phases <- {"p"}, Messages <- {"x"}, MaxSteps <- 2, MaxCalls <- 2,
  MaxStepCalls <- 1, MaxLogs <- 1, Capacity <- 4, BodyBudget <- 1, SummarySteps <- 1, Retained <- 1,
  Attempts <- 1, MaxOps <- 4, MaxTime <- 0, MaxFailures <- 0
Steps == INSTANCE AttemptTrace WITH
  Requests <- {}, Phases <- {"p", "q"}, Messages <- {"x"}, MaxSteps <- 3, MaxCalls <- 1,
  MaxStepCalls <- 1, MaxLogs <- 2, Capacity <- 9, BodyBudget <- 1, SummarySteps <- 1, Retained <- 1,
  Attempts <- 1, MaxOps <- 3, MaxTime <- 1, MaxFailures <- 0
Retention == INSTANCE AttemptTrace WITH
  Requests <- {"a"}, Phases <- {"p"}, Messages <- {"x"}, MaxSteps <- 1, MaxCalls <- 1,
  MaxStepCalls <- 1, MaxLogs <- 1, Capacity <- 2, BodyBudget <- 1, SummarySteps <- 1, Retained <- 2,
  Attempts <- 5, MaxOps <- 1, MaxTime <- 0, MaxFailures <- 2
traceVars == <<rec, scopes, clock, ops, failures, attempt, table, document>>

Texts == INSTANCE Redaction WITH
  Values <- {"v", "w"}, Short <- {}, Encodings <- {"raw", "base64"}, Paths <- {},
  MaxSecrets <- 2, CredentialRoom <- 2, MaxDepth <- 2, Limit <- 3, MaxPieces <- 2, MaxOps <- 2,
  MaxFailures <- 0, ops <- texts, failures <- losses
Credentials == INSTANCE Redaction WITH
  Values <- {"u", "v", "w", "s"}, Short <- {"s"}, Encodings <- {"raw", "base64"}, Paths <- {},
  MaxSecrets <- 2, CredentialRoom <- 2, MaxDepth <- 2, Limit <- 3, MaxPieces <- 1, MaxOps <- 2,
  MaxFailures <- 1, ops <- texts, failures <- losses
Bodies == INSTANCE Redaction WITH
  Values <- {"v", "w"}, Short <- {}, Encodings <- {"raw"}, Paths <- BodyPaths, MaxSecrets <- 1,
  CredentialRoom <- 1, MaxDepth <- 2, Limit <- 3, MaxPieces <- 1, MaxOps <- 2,
  MaxFailures <- 0, ops <- texts, failures <- losses
redactionVars == <<secrets, incomplete, failed, credentials, shown, outside, texts, losses>>

MCvars == <<scene, vars, deliveryVars, traceVars, redactionVars>>

MCInit ==
  /\ scene \in Scenes
  /\ Init
  /\ DeliveryInit
  /\ IF scene = "caps" THEN Caps!Init ELSE IF scene = "steps" THEN Steps!Init ELSE Retention!Init
  /\ IF scene = "texts" THEN Texts!Init ELSE IF scene = "credentials" THEN Credentials!Init ELSE Bodies!Init

\* The components that do not move keep their state.
Still(own) ==
  /\ UNCHANGED scene
  /\ IF own = "vars" THEN TRUE ELSE UNCHANGED vars
  /\ IF own = "deliveryVars" THEN TRUE ELSE UNCHANGED deliveryVars
  /\ IF own = "traceVars" THEN TRUE ELSE UNCHANGED traceVars
  /\ IF own = "redactionVars" THEN TRUE ELSE UNCHANGED redactionVars

MCNext ==
  \/ scene = "ingest" /\ Next /\ Still("vars")
  \/ scene = "delivery" /\ DeliveryNext /\ Still("deliveryVars")
  \/ scene = "caps" /\ Caps!Next /\ Still("traceVars")
  \/ scene = "steps" /\ Steps!Next /\ Still("traceVars")
  \/ scene = "retention" /\ Retention!Next /\ Still("traceVars")
  \/ scene = "texts" /\ Texts!Next /\ Still("redactionVars")
  \/ scene = "credentials" /\ Credentials!Next /\ Still("redactionVars")
  \/ scene = "bodies" /\ Bodies!Next /\ Still("redactionVars")

MCSpec == MCInit /\ [][MCNext]_MCvars

ASSUME Caps!CapsAssumption /\ Steps!CapsAssumption /\ Retention!CapsAssumption
ASSUME Texts!RedactionAssumption /\ Credentials!RedactionAssumption /\ Bodies!RedactionAssumption

(* Nothing an attempt captured is silently lost within the caps, and the   *)
(* stored document agrees with itself; a closed step never changes, the    *)
(* error goes to the first failure, a line joins the step of its phase,    *)
(* and the first and the newest traces are retained.                       *)
TraceIsComplete ==
  /\ [](scene = "caps" => Caps!TypeOK /\ Caps!NothingSilentlyLost /\ Caps!DocumentAgrees)
  /\ [](scene = "steps" => Steps!TypeOK /\ Steps!NothingSilentlyLost /\ Steps!DocumentAgrees)
  /\ [](scene = "retention" => Retention!DocumentAgrees)
  /\ [][/\ scene = "caps" => Caps!EndsStepOnce
        /\ scene = "steps" => Steps!EndsStepOnce /\ Steps!NamesFirstFailure /\ Steps!JoinsItsPhase
        /\ scene = "retention" => Retention!EndsStepOnce /\ Retention!RetainsTraces]_MCvars

(* No text stored shows a value that was a known secret, no text that      *)
(* leaves the attempt shows a credential registered before; key material   *)
(* is never stored, unlisted fields never shown, and values observed in    *)
(* traffic never take the room of credentials.                             *)
KnownSecretsHidden ==
  /\ [](scene = "texts" => Texts!TypeOK /\ Texts!KeysNeverStored)
  /\ [](scene = "credentials" => Credentials!TypeOK /\ Credentials!CredentialsHaveRoom)
  /\ [](scene = "bodies" => Bodies!TypeOK /\ Bodies!AllowListHolds)
  /\ [][/\ scene = "texts" => Texts!HidesSecrets
        /\ scene = "credentials" => Credentials!HidesSecrets /\ Credentials!HidesCredentials
        /\ scene = "bodies" => Bodies!HidesSecrets]_MCvars
=============================================================================
