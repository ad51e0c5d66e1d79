--------------------------- MODULE ProviderActions ---------------------------
(***************************************************************************)
(* One request through a recorded client (src/history/client.ts): the plan *)
(* of the provider's client runs step by step, every step may fail, and    *)
(* the error that comes out decides what the history says of an action:    *)
(* "failed" for the codes that are taken for a refusal, otherwise that the *)
(* outcome has to be verified.                                             *)
(***************************************************************************)
EXTENDS Naturals, FiniteSets, ProviderRequests

VARIABLES
  wish,    \* [provider, kind, body], chosen once
  steps,   \* the steps left
  at,      \* the step under way: "start" before the client's switch
  written, \* how many writes the provider has carried out
  verdict  \* "none" | "done" | the code of the error

actVars == <<wish, steps, at, written, verdict>>

AnswerCodes == {"usage_error", "provider_unsupported", "credential_invalid", "not_found",
                "provider_error"}

\* What a body says its user chose, by the field of the flag.
ChoosingKinds ==
  {"create-site-clone", "create-environment-clone", "add-domain", "change-primary-domain"}

Chosen(kind) ==
  CASE kind = "add-domain" -> "domain_name" [] kind = "change-primary-domain" -> "domain_id"
    [] OTHER -> "source_env_id"

\* The fields a client takes the choice from; the others pass the body on.
PantheonUnderstands(kind) ==
  CASE kind \in CreateEnvironments -> {"from_environment", "source_env"}
    [] kind = "add-domain" -> {"domain", "domain_name"}
    [] OTHER -> {"domain", "domain_id", "domain_name", "id"}

CloudwaysUnderstands(kind) ==
  CASE kind = "add-domain" -> {"aliases", "domain", "domains"}
    [] kind = "change-primary-domain" -> {"cname", "domain", "primary_domain"}
    [] OTHER -> {Chosen(kind)}

WpEngineUnderstands(kind) ==
  IF kind = "add-domain" THEN {"name", "domain_name"} ELSE {"domain_id", "id"}

Understands(p, kind) ==
  CASE p = "pantheon" -> PantheonUnderstands(kind)
    [] p = "cloudways" -> CloudwaysUnderstands(kind)
    [] p = "wpengine" -> WpEngineUnderstands(kind)
    [] OTHER -> {Chosen(kind)}

Wishes ==
  (UNION {[provider : ClientProviders \ (IF k = "setup-novamira" THEN SetUpElsewhere ELSE {}),
           kind : {k}, body : FlagBodies(k) \cup FileBodies(k)] : k \in ActionKinds})
  \cup [provider : ClientProviders, kind : ReadKinds, body : {{}}]

ActInit ==
  /\ wish \in Wishes
  /\ steps = <<>> /\ at = "start" /\ written = 0 /\ verdict = "none"

\* The switch of read() and action(): what is not in it is refused.
Dispatch ==
  /\ at = "start" /\ at' = "dispatch"
  /\ LET plans == Plans(wish.provider) IN
       \/ /\ wish.kind \in DOMAIN plans
          /\ steps' = plans[wish.kind] /\ UNCHANGED verdict
       \/ /\ wish.kind \notin DOMAIN plans
          /\ verdict' = "provider_unsupported" /\ UNCHANGED steps
  /\ UNCHANGED <<wish, written>>

Steps(names) ==
  /\ at # "start" /\ verdict = "none" /\ steps # <<>> /\ Head(steps) \in names
  /\ at' = Head(steps) /\ steps' = Tail(steps) /\ UNCHANGED wish

Passes == UNCHANGED verdict
FailsWith(codes) == verdict' \in codes

\* Values are refused too: an id of the wrong form, a log file nobody keeps.
ChecksBody ==
  /\ Steps({"check"}) /\ UNCHANGED written
  /\ \/ /\ wish.kind \in ActionKinds => Takes(wish.provider, wish.kind, wish.body)
        /\ Passes
     \/ FailsWith({"usage_error", "provider_unsupported"})

\* A refused credential is credential_invalid, whichever request meets it.
Looks ==
  /\ Steps({"account", "look", "gate"}) /\ UNCHANGED written
  /\ \/ Passes
     \/ FailsWith({"credential_invalid", "provider_error"})
     \/ Head(steps) = "gate" /\ FailsWith({"provider_unsupported"})

Compares ==
  /\ Steps({"compare"}) /\ UNCHANGED written
  /\ Passes \/ FailsWith({"not_found", "provider_unsupported", "provider_error"})

\* A write may be refused, carried out, or carried out without an answer.
Writes ==
  /\ Steps({"write"})
  /\ \/ written' = written + 1 /\ Passes
     \/ written' = written + 1 /\ FailsWith({"provider_error"})
     \/ UNCHANGED written /\ FailsWith({"credential_invalid", "provider_error"})

\* instawp-versions.ts: the same check as for the ids of a caller.
ReadsOwnId ==
  /\ Steps({"own id"}) /\ UNCHANGED written
  /\ Passes \/ FailsWith({"usage_error", "provider_error"})

Tells == Steps({"tell"}) /\ UNCHANGED <<written, verdict>>

Ends ==
  /\ at # "start" /\ verdict = "none" /\ steps = <<>>
  /\ verdict' = "done" /\ UNCHANGED <<wish, steps, at, written>>

ActNext ==
  \/ Dispatch \/ ChecksBody \/ Looks \/ Compares \/ Writes \/ ReadsOwnId \/ Tells \/ Ends

ActSpec == ActInit /\ [][ActNext]_actVars

\* The history's word for an action's error: client.ts keeps a list of refusals.
RowSays(code) ==
  IF code \in {"usage_error", "provider_unsupported", "credential_missing",
               "credential_invalid", "confirmation_required"}
  THEN "failed" ELSE "needs_verification"

StepNames == {"check", "account", "look", "gate", "compare", "write", "own id", "tell"}

ActTypeOK ==
  /\ wish \in Wishes /\ at \in StepNames \cup {"start", "dispatch"} /\ steps \in Seq(StepNames)
  /\ written \in 0..4 /\ verdict \in AnswerCodes \cup {"none", "done"}

Failed == verdict \notin {"none", "done"}

(***************************************************************************)
(* An action whose row says "failed" has changed nothing at the provider:  *)
(* history/client.ts:126 calls these errors rejected, and the dashboard    *)
(* does not ask anybody to check such a row.  No plan keeps to that which  *)
(* asks the provider again after its write.                                *)
(***************************************************************************)
RejectedNeverWrote == Failed /\ RowSays(verdict) = "failed" => written = 0

\* The four plans that ask or read on after a write.
AsksOn == {<<"plesk", "create-backup">>, <<"plesk", "setup-novamira">>,
           <<"cpanel", "create-backup">>, <<"instawp", "create-backup">>}

\* The same for every plan but those: what they check, they check first.
RejectedWroteNothing ==
  <<wish.provider, wish.kind>> \notin AsksOn => RejectedNeverWrote

(***************************************************************************)
(* A public capability that a client claims is one its switch serves.  One *)
(* is known not to be: Rocket.net lists domains.verify (rocketnet.ts:454). *)
(***************************************************************************)
ClaimsServed ==
  /\ at = "dispatch" /\ verdict = "provider_unsupported"
  /\ wish.kind \in ServedKinds
  /\ <<wish.provider, wish.kind>> # <<"rocketnet", "site-domain-verification">>
  => CapabilityOf(wish.kind) \notin ClaimsOf(wish.provider)

(***************************************************************************)
(* What the user chose with a flag reaches the provider under a name that  *)
(* the client understands, or the request is refused.                      *)
(***************************************************************************)
ChoicesSent ==
  written > 0 /\ wish.kind \in ChoosingKinds /\ wish.body \in FlagBodies(wish.kind)
  => wish.body \cap Understands(wish.provider, wish.kind) # {}

\* The three requests that drop the choice.
Dropped == {<<"pantheon", "create-environment-clone">>, <<"cloudways", "add-domain">>,
            <<"cloudways", "change-primary-domain">>}

ChoicesSentElsewhere == <<wish.provider, wish.kind>> \notin Dropped => ChoicesSent

\* Nothing but what may fail unnoticed comes after the first write.
OnlyTells(s) == \A i \in DOMAIN s : s[i] = "tell"

WritesLast(s) ==
  \A i \in DOMAIN s : s[i] = "write" => \A j \in DOMAIN s : i < j => s[j] = "tell"

WritesIn(s) == Cardinality({i \in DOMAIN s : s[i] = "write"})

\* What is kept from step to step, and makes what is said of a request true.
PlanKept ==
  LET served == wish.kind \in DOMAIN Plans(wish.provider) IN
  /\ at = "start" => steps = <<>> /\ written = 0 /\ verdict = "none"
  /\ at = "dispatch" /\ verdict = "provider_unsupported" => ~served
  /\ steps # <<>> \/ written > 0 => served
  /\ written + WritesIn(steps) <= 4
  /\ <<wish.provider, wish.kind>> \notin AsksOn =>
       /\ WritesLast(steps)
       /\ written > 0 /\ verdict = "none" => OnlyTells(steps)
       /\ RejectedNeverWrote

ActInv == ActTypeOK /\ PlanKept

\* A request comes to what was said of it, but for the eight that are named above:
\* one that was refused changed nothing, one that is claimed is served, and one
\* that is sent carries what was chosen (hosting/client.ts:375-394, every action()).
ActionsHonest == RejectedWroteNothing /\ ClaimsServed /\ ChoicesSentElsewhere
=============================================================================
