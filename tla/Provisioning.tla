---------------------------- MODULE Provisioning ----------------------------
(* Novamira set up on a site through the WP-CLI of its provider, or by one  *)
(* action of the provider's API: src/src/provisioning/setup.ts with         *)
(* existing.ts, plugin.ts, wp-cli.ts, provider-api.ts, compatibility.ts.    *)
(*                                                                          *)
(* Several setups (command line, dashboard, MCP) and the owner of the site  *)
(* act on one site.  A step is one command at the provider; a command HQ    *)
(* gives up on may still be executed at any later time.  An action of the   *)
(* provider's API is a sequence of requests too (plesk.ts,                  *)
(* cpanel-toolkit-setup.ts, cloudways-setup.ts); what differs between the   *)
(* providers is in ProviderSetups and Installer, with which this module     *)
(* shares no state.                                                         *)
EXTENDS FiniteSets

CONSTANTS
  Runs,    \* setups
  Options  \* [via, force, activate, check, ai]

(* How HQ reaches the site: the provider's API, or WP-CLI whose outcome it  *)
(* reads from an operation with its output or its exit status only, or in a *)
(* bare answer, which is the same whether WP-CLI worked or refused.         *)
ASSUME ProvisioningAssumption ==
  Options \subseteq [via : {"api", "output", "status", "bare"}, force : BOOLEAN,
                     activate : BOOLEAN, check : BOOLEAN, ai : {"unset", "yes", "no"}]

VARIABLES
  options,   \* the request of each setup
  commandAt,      \* the command each one is at
  present,   \* what its inspection found
  pending,   \* a command it gave up on
  plugin,    \* at the site: "absent", "old", "current"
  active,
  ai,        \* option novamira_ai_abilities_enabled
  domain,    \* option novamira_ai_abilities_domain is this site's
  mine,      \* history: setups that installed on a site without the plugin
  changed    \* history: what a setup changed on a site that had it already

runsVars == <<options, commandAt, present, pending>>
siteState == <<plugin, active, ai, domain>>
provVars == <<runsVars, siteState, mine, changed>>

ProvInit ==
  /\ options \in [Runs -> Options]
  /\ commandAt = [p \in Runs |-> CASE options[p].via = "api"    -> "api"
                                   [] options[p].via = "status" -> "inspect"
                                   [] OTHER                     -> "php"]
  /\ present = [p \in Runs |-> FALSE]
  /\ pending = [p \in Runs |-> "none"]
  /\ plugin \in {"absent", "old", "current"} /\ active = FALSE
  /\ ai = FALSE /\ domain = FALSE
  /\ mine = {} /\ changed = [p \in Runs |-> {}]

Advance(p, s) == commandAt' = [commandAt EXCEPT ![p] = s]
End(p) == Advance(p, "failed")

(* Mutant of WantsAi: AI Abilities are on unless refused.                  *)
WantsAiUnlessNo(p, found) == options[p].ai # "no"

(* request.aiAbilities ?? !present                                         *)
WantsAi(p, found) == \/ options[p].ai = "yes"
                     \/ options[p].ai = "unset" /\ ~found

IsApi(p) == options[p].via = "api"
AfterPlugin(p) == IF options[p].activate THEN "active" ELSE "home"

(* The provider's API locks the domain first, the workflow enables first.   *)
AfterHome(p, found) ==
  IF ~WantsAi(p, found) THEN "compat" ELSE IF IsApi(p) THEN "domain" ELSE "enable"

(* An API without access to the options leaves them alone.                  *)
AfterActive(p, found) == {AfterHome(p, found), "compat"}

-----------------------------------------------------------------------------
(* What a command does when the site executes it *)

(* An install refuses an existing directory unless it is forced.           *)
InstallWorks(p) == plugin = "absent" \/ options[p].force
Installs(p) ==
  /\ plugin' = IF InstallWorks(p) THEN "current" ELSE plugin
  /\ mine' = IF plugin = "absent" THEN mine \cup {p} ELSE mine
  /\ changed' = [changed EXCEPT ![p] =
       IF plugin # "absent" /\ options[p].force THEN @ \cup {"plugin"} ELSE @]
  /\ UNCHANGED <<active, ai, domain>>
Activates(p) ==
  /\ active' = (active \/ plugin # "absent")
  /\ UNCHANGED <<plugin, ai, domain, mine, changed>>
TouchesAi(p) == changed' = [changed EXCEPT ![p] = IF p \in mine THEN @ ELSE @ \cup {"ai"}]
Enables(p) == ai' = TRUE /\ TouchesAi(p) /\ UNCHANGED <<plugin, active, domain, mine>>
Locks(p) == domain' = TRUE /\ TouchesAi(p) /\ UNCHANGED <<plugin, active, ai, mine>>

(* A provider installs the archive uploaded to it, and may activate it.     *)
(* Over a plugin that came since the setup looked it may install or not.    *)
Uploads(p) ==
  /\ plugin' \in {plugin, "current"} /\ (plugin = "absent" => plugin' = "current")
  /\ mine' = IF plugin = "absent" THEN mine \cup {p} ELSE mine
  /\ changed' = [changed EXCEPT ![p] =
       IF plugin # "absent" /\ plugin' # plugin THEN @ \cup {"plugin"} ELSE @]
  /\ active' \in {active, TRUE} /\ UNCHANGED <<ai, domain>>
Does(p, command) ==
  CASE command = "install"  -> Installs(p)
    [] command = "activate" -> Activates(p)
    [] command = "enable"   -> Enables(p)
    [] command = "domain"   -> Locks(p)
    [] command = "upload"   -> Uploads(p)
Changing == {"install", "activate", "enable", "domain", "upload"}

-----------------------------------------------------------------------------
(* The commands, each with the answer it gets *)

Php(p) ==
  /\ commandAt[p] = "php"
  /\ Advance(p, "inspect")
  /\ UNCHANGED <<options, present, pending, siteState, mine, changed>>

MayInstall(p) == ~present'[p] \/ options[p].force

(* inspectExistingNovamira() refuses an old plugin.  Where only the exit   *)
(* status is known a failed probe means absent.                            *)
OnlyStatus(p) == options[p].via = "status"
Inspect(p) ==
  /\ commandAt[p] = "inspect"
  /\ \E found \in {plugin # "absent"} \cup (IF OnlyStatus(p) THEN {FALSE} ELSE {}) :
       present' = [present EXCEPT ![p] = found]
  /\ Advance(p, IF ~OnlyStatus(p) /\ plugin = "old" THEN "failed"
                ELSE IF MayInstall(p) THEN "preflight" ELSE AfterPlugin(p))
  /\ UNCHANGED <<options, pending, siteState, mine, changed>>
Preflight(p) ==
  /\ commandAt[p] = "preflight"
  /\ Advance(p, "install")
  /\ UNCHANGED <<options, present, pending, siteState, mine, changed>>

(* A bare answer is taken for a success, and read as "not active".          *)
Bare(p) == options[p].via = "bare"
Install(p) ==
  /\ commandAt[p] = "install"
  /\ Installs(p)
  /\ Advance(p, IF InstallWorks(p) \/ Bare(p) THEN AfterPlugin(p) ELSE "failed")
  /\ UNCHANGED <<options, present, pending>>
IsActive(p) ==
  /\ commandAt[p] = "active"
  /\ Advance(p, IF active /\ ~Bare(p) THEN "home" ELSE "activate")
  /\ UNCHANGED <<options, present, pending, siteState, mine, changed>>
ActivateNovamira(p) ==
          /\ commandAt[p] = "activate"
          /\ Activates(p)
          /\ Advance(p, IF plugin = "absent" /\ ~Bare(p) THEN "failed"
                        ELSE IF IsApi(p) THEN "turned on" ELSE "home")
          /\ UNCHANGED <<options, present, pending>>
Home(p) ==
  /\ commandAt[p] = "home"
  /\ Advance(p, AfterHome(p, present[p]))
  /\ UNCHANGED <<options, present, pending, siteState, mine, changed>>
EnableAiOption(p) ==
        /\ commandAt[p] = "enable"
        /\ Enables(p) /\ Advance(p, IF IsApi(p) THEN "compat" ELSE "domain")
        /\ UNCHANGED <<options, present, pending>>
LockDomain(p) ==
  /\ commandAt[p] = "domain"
  /\ Locks(p) /\ Advance(p, IF IsApi(p) THEN "enable" ELSE "compat")
  /\ UNCHANGED <<options, present, pending>>

(* setup-novamira: the provider's own setup refuses what it does not offer  *)
(* and an old plugin.  What it decides by here it never looks at again.     *)
ApiLooks(p) ==
  /\ commandAt[p] = "api"
  /\ LET found == plugin # "absent" IN
     /\ present' = [present EXCEPT ![p] = found]
     /\ \E s \in IF options[p].force \/ ~options[p].activate \/ plugin = "old" THEN {"failed"}
                 ELSE IF ~found THEN {"upload"}
                 ELSE IF ~active THEN {"activate"}
                 ELSE AfterActive(p, found) : Advance(p, s)
  /\ UNCHANGED <<options, pending, siteState, mine, changed>>
ApiUploads(p) ==
  /\ commandAt[p] = "upload"
  /\ Uploads(p) /\ Advance(p, "installed")
  /\ UNCHANGED <<options, present, pending>>

(* What is there afterwards counts as installed, whoever did it.            *)
ApiInstalled(p) ==
  /\ commandAt[p] = "installed"
  /\ \E s \in IF plugin # "current" THEN {"failed"}
              ELSE IF ~active THEN {"activate"} ELSE AfterActive(p, present[p]) : Advance(p, s)
  /\ UNCHANGED <<options, present, pending, siteState, mine, changed>>
ApiTurnedOn(p) ==
  /\ commandAt[p] = "turned on"
  /\ \E s \in IF active THEN AfterActive(p, present[p]) ELSE {"failed"} : Advance(p, s)
  /\ UNCHANGED <<options, present, pending, siteState, mine, changed>>

(* checkSiteCompatibility(): the document is served by the plugin only     *)
(* while AI Abilities are on for this domain.                              *)
Served == plugin = "current" /\ active /\ ai /\ domain
Compat(p) ==
  /\ commandAt[p] = "compat"
  /\ Advance(p, IF options[p].check => Served THEN "done" ELSE "failed")
  /\ UNCHANGED <<options, present, pending, siteState, mine, changed>>

(* A refused command, an aborted signal, a deadline: the setup ends.  A    *)
(* command that was on its way may be executed later, or never.            *)
GiveUpCommand(p) ==
         /\ commandAt[p] \notin {"done", "failed"}
         /\ End(p)
         /\ pending' = [pending EXCEPT ![p] = IF commandAt[p] \in Changing THEN commandAt[p] ELSE @]
         /\ UNCHANGED <<options, present, siteState, mine, changed>>
LateCommand(p) ==
  /\ pending[p] # "none"
  /\ Does(p, pending[p])
  /\ pending' = [pending EXCEPT ![p] = "none"]
  /\ UNCHANGED <<options, commandAt, present>>

(* The owner installs, switches and deactivates.                           *)
Owner ==
  /\ \/ plugin = "absent" /\ plugin' \in {"old", "current"} /\ UNCHANGED <<active, ai, domain>>
     \/ plugin # "absent" /\ active' = ~active /\ UNCHANGED <<plugin, ai, domain>>
     \/ ai' = ~ai /\ UNCHANGED <<plugin, active, domain>>
  /\ UNCHANGED <<runsVars, mine, changed>>

ProvStep(p) ==
  \/ Php(p) \/ Inspect(p) \/ Preflight(p) \/ Install(p) \/ IsActive(p) \/ ActivateNovamira(p)
  \/ Home(p) \/ EnableAiOption(p) \/ LockDomain(p) \/ ApiLooks(p) \/ ApiUploads(p)
  \/ ApiInstalled(p) \/ ApiTurnedOn(p) \/ Compat(p) \/ GiveUpCommand(p) \/ LateCommand(p)
ProvNext == (\E p \in Runs : ProvStep(p)) \/ Owner
ProvSpec == ProvInit /\ [][ProvNext]_provVars

-----------------------------------------------------------------------------
ReadingSteps == {"php", "inspect", "preflight", "active", "home", "api", "installed",
            "turned on", "compat"}
ProvTypeOK ==
  /\ options \in [Runs -> Options] /\ present \in [Runs -> BOOLEAN]
  /\ commandAt \in [Runs -> Changing \cup ReadingSteps \cup {"done", "failed"}]
  /\ plugin \in {"absent", "old", "current"} /\ {active, ai, domain} \subseteq BOOLEAN
  /\ mine \subseteq Runs /\ changed \in [Runs -> SUBSET {"plugin", "ai"}]
  /\ pending \in [Runs -> Changing \cup {"none"}]

(* A setup that found no plugin and is not told whether its installation    *)
(* was refused: what it installs and what came meanwhile are one to it.     *)
Unaware(p) == options[p].via \in {"api", "bare"} /\ ~present[p]

(* What it rests on: a setup that was not forced, found no plugin and went  *)
(* past its installation has installed it, unless nobody told it otherwise; *)
(* one that is to switch AI Abilities on, or gave that up, was asked to, has *)
(* installed the plugin or is unaware; an upload is of a site found without. *)
AskedOrMine(p) == options[p].ai = "yes" \/ p \in mine \/ Unaware(p)
PastInstall == {"active", "activate", "home", "enable", "domain"}
Looking == {"php", "inspect", "api"}
RunOK(p) ==
  ~options[p].force =>
    /\ commandAt[p] \in PastInstall => present[p] \/ p \in mine \/ Unaware(p)
    /\ {commandAt[p], pending[p]} \cap {"enable", "domain"} # {} => AskedOrMine(p)
    /\ "upload" \in {commandAt[p], pending[p]} => IsApi(p) /\ ~present[p]
    /\ commandAt[p] \in {"php", "inspect", "preflight", "install"} => ~IsApi(p)
    /\ commandAt[p] \in {"api", "installed", "turned on"} => IsApi(p)
    /\ commandAt[p] \in {"preflight", "install"} => ~present[p]
    /\ commandAt[p] \in Looking => changed[p] = {} /\ pending[p] = "none"
FoundOrMine == \A p \in Runs : RunOK(p)

(* A setup that was not forced never replaces a plugin that was there, and  *)
(* unless asked for AI Abilities never switches them on for a plugin it did *)
(* not install itself: not when another setup or the owner is quicker, not  *)
(* when the probe of a provider without output fails, not when a command    *)
(* is executed after it was given up.  A setup that found no plugin and is  *)
(* not told of a refused installation keeps less: it takes a plugin that    *)
(* came meanwhile for its own and switches AI Abilities on, and the upload  *)
(* of a provider's API may replace it.  Nobody reads the options again      *)
(* before they are written: on a plugin of its own a setup overrules what   *)
(* the owner chose since.                                                   *)
Preserves ==
  \A p \in Runs : ~options[p].force =>
    /\ "ai" \in changed[p] => options[p].ai = "yes" \/ Unaware(p)
    /\ "plugin" \in changed[p] => Unaware(p) /\ IsApi(p)

ProvInv == ProvTypeOK /\ FoundOrMine /\ Preserves
=============================================================================
