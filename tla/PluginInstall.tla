--------------------------- MODULE PluginInstall ---------------------------
(***************************************************************************)
(* wp plugins install (src/cli/hosting/wp.ts with                          *)
(* src/provisioning/plugin.ts and wp-cli.ts): the source is checked, WP-CLI *)
(* is tried, the plugin is installed, waited for and activated in a run of *)
(* its own.  The site belongs to the provider, which may answer before the *)
(* run it has accepted is over, or with a bare HTTP success that says      *)
(* nothing of the exit status of WP-CLI (Rocket.net, InstaWP).             *)
(***************************************************************************)
EXTENDS TLC

VARIABLES
  install,  \* the options, and what HQ sees of the provider's WP-CLI
  instAt,   \* the step the command is at, "done" at its exit
  instExit, \* "none", "ok" or why it failed
  onSite,   \* the plugin: "absent", "installed", "active"
  running,  \* the install the provider has accepted: "none", "bare", "with activation"
  answer,   \* how the provider has answered the install; "bare": 2xx, no operation
  activated \* what HQ takes for the activation: "none", the "probe" that found it
            \* active, the "exit" status of its run, or a "bare" answer

piVars == <<install, instAt, instExit, onSite, running, answer, activated>>

\* source: what HQ makes of --source.  A slug it cannot infer is not activated;
\* a URL is asked for with HEAD.
Sources == {"none", "slug", "novamira url", "other url", "zip path"}
Remote(s) == s \in {"novamira url", "other url"}
Inferred(s) == s \in {"slug", "novamira url"}

Installs == [env : BOOLEAN, source : Sources, validate : BOOLEAN, preflight : BOOLEAN,
             body : {"flags", "saved command", "file with a command", "file without"},
             activate : BOOLEAN, wait : BOOLEAN, observable : BOOLEAN]

PInit ==
  /\ install \in Installs
  /\ instAt = "source" /\ instExit = "none"
  /\ onSite \in {"absent", "installed"}
  /\ running = "none" /\ answer = "none" /\ activated = "none"

Fail(how) == instAt' = "done" /\ instExit' = how
Move(at) == instAt' = at /\ UNCHANGED instExit

\* installActivationPlan
Planned ==
  install.body = "flags" /\ install.activate /\ Inferred(install.source)

\* preparedInstallPayload: the activation is left out of the install when HQ is
\* going to wait and can see what WP-CLI says.
Deferred == Planned /\ install.wait /\ install.observable

CheckSource ==
  /\ instAt = "source"
  /\ \/ Move("options")
     \/ install.validate /\ Remote(install.source) /\ Fail("source")
  /\ UNCHANGED <<install, onSite, running, answer, activated>>

\* requireOption("--env"), then the body: a file may not be readable, and the
\* flags need a source or a saved command.
CheckOptions ==
  /\ instAt = "options"
  /\ IF ~install.env \/ (install.body = "flags" /\ install.source = "none")
       THEN Fail("usage")
       ELSE \/ Move("preflight")
            \/ install.body \in {"file with a command", "file without"} /\ Fail("usage")
  /\ UNCHANGED <<install, onSite, running, answer, activated>>

\* installPreflightApplies
Tried == install.preflight /\ install.observable
           /\ install.body \in {"flags", "file with a command"}

\* preflightWpCli passes a bare answer.
Preflight ==
  /\ instAt = "preflight"
  /\ \/ Move("install")
     \/ Tried /\ Fail("preflight")
  /\ UNCHANGED <<install, onSite, running, answer, activated>>

\* What the install does on the site once the provider executes it; an activation
\* of its own comes with it unless deferred.  WP-CLI may refuse it, or only the
\* activation.
Carried ==
  IF install.body = "flags" /\ install.activate /\ ~Deferred THEN "with activation" ELSE "bare"
Installed(how) == IF how = "with activation" \/ onSite = "active" THEN "active" ELSE "installed"

Refused == {onSite, Installed("bare")}

\* An answer without an operation is not waited for, and its WP-CLI not asked about.
Dispatch ==
  /\ instAt = "install"
  /\ \/ /\ answer' = "bare" /\ onSite' \in Refused \cup {Installed(Carried)}
        /\ UNCHANGED running /\ Move("activate")
     \/ /\ answer' = "refused" /\ Fail("provider") /\ UNCHANGED <<onSite, running>>
     \/ /\ answer' = "accepted" /\ running' = Carried /\ UNCHANGED onSite
        /\ Move(IF install.wait THEN "waiting" ELSE "activate")
  /\ UNCHANGED <<install, activated>>

\* The provider executes what it has accepted at any later time, or gives it up.
ProviderRuns ==
  /\ running # "none"
  /\ running' = "none"
  /\ \/ onSite' = Installed(running) /\ answer' = "done"
     \/ onSite' \in Refused /\ answer' = "failed"
  /\ UNCHANGED <<install, instAt, instExit, activated>>

\* Mutant of Wait: a failed operation is a finished one.
WaitForAnyEnd ==
  /\ instAt = "waiting"
  /\ \/ answer \in {"done", "failed"} /\ Move("activate")
     \/ Fail("timeout")
  /\ UNCHANGED <<install, onSite, running, answer, activated>>

\* waitForOperationStatus and operationFailure
Wait ==
  /\ instAt = "waiting"
  /\ \/ answer = "done" /\ Move("activate")
     \/ answer = "failed" /\ Fail("operation")
     \/ Fail("timeout")
  /\ UNCHANGED <<install, onSite, running, answer, activated>>

\* activateIfPlanned: with or without --wait.
Activate ==
  /\ instAt = "activate"
  /\ IF Planned /\ install.observable THEN Move("is active")
     ELSE instAt' = "done" /\ instExit' = "ok"
  /\ UNCHANGED <<install, onSite, running, answer, activated>>

\* installedPluginIsActive: it may fail; its output may be misread as "no", and a
\* bare answer is read as one.
IsActive ==
  /\ instAt = "is active"
  /\ \/ /\ onSite = "active" /\ activated' = "probe"
        /\ instAt' = "done" /\ instExit' = "ok"
     \/ Move("activating") /\ UNCHANGED activated
     \/ Fail("provider") /\ UNCHANGED activated
  /\ UNCHANGED <<install, onSite, running, answer>>

\* activatePlugin: WP-CLI refuses a plugin that is not there, or one that fails to
\* start.  The exit status of an operation tells; a bare answer is a success.
ActivatePlugin ==
  /\ instAt = "activating"
  /\ \/ /\ onSite # "absent" /\ onSite' = "active" /\ activated' = "exit"
        /\ instAt' = "done" /\ instExit' = "ok"
     \/ /\ onSite' = onSite \/ (onSite # "absent" /\ onSite' = "active")
        /\ activated' = "bare" /\ instAt' = "done" /\ instExit' = "ok"
     \/ Fail("provider") /\ UNCHANGED <<onSite, activated>>
  /\ UNCHANGED <<install, running, answer>>

PNext == CheckSource \/ CheckOptions \/ Preflight \/ Dispatch \/ ProviderRuns \/ Wait
           \/ Activate \/ IsActive \/ ActivatePlugin

PISpec == PInit /\ [][PNext]_piVars

-----------------------------------------------------------------------------
PITypeOK ==
  /\ install \in Installs
  /\ instAt \in {"source", "options", "preflight", "install", "waiting", "activate",
                 "is active", "activating", "done"}
  /\ instExit \in {"none", "ok", "source", "usage", "preflight", "provider", "operation", "timeout"}
  /\ onSite \in {"absent", "installed", "active"}
  /\ running \in {"none", "bare", "with activation"}
  /\ answer \in {"none", "refused", "accepted", "done", "failed", "bare"}
  /\ activated \in {"none", "probe", "exit", "bare"}

\* What an install that ends well has shown: with --wait no run of it goes on and
\* none has failed; the plugin is there when the run's exit status said so; where
\* HQ was to activate it, it is active when a probe or an exit status said so.  A
\* bare answer is taken for done and proves neither: the plugin may be absent.
\* One that is refused for its line, its source or its preflight has sent no install.
InstallHonest ==
  /\ instExit = "ok" /\ install.wait => answer \in {"done", "bare"} /\ running = "none"
  /\ answer = "done" => onSite # "absent"
  /\ instExit = "ok" /\ Planned /\ install.observable => activated # "none"
  /\ activated \in {"probe", "exit"} => onSite = "active"
  /\ instExit \in {"source", "usage", "preflight"} => answer = "none"

\* What it rests on: the provider's answer says what it has carried out, and no
\* step that looks at the plugin is reached before a waited install is over.
AfterInstall == instAt \in {"activate", "is active", "activating"} \/ instExit = "ok"
PluginInv ==
  /\ PITypeOK
  /\ instExit = "none" <=> instAt # "done"
  /\ instAt \in {"source", "options", "preflight", "install"} => answer = "none"
  /\ running # "none" <=> answer = "accepted"
  /\ activated # "none" => instExit = "ok"
  /\ install.wait /\ AfterInstall => answer \in {"done", "bare"}
  /\ InstallHonest
=============================================================================
