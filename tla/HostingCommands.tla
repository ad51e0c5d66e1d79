-------------------------- MODULE HostingCommands --------------------------
(***************************************************************************)
(* One command of the hosting tree from its line to its exit: the grammar  *)
(* its group registers, the shell every handler runs in                    *)
(* (src/cli/hosting-command.ts), and the handler itself (src/cli/hosting). *)
(*                                                                         *)
(* A line is what the user typed: the command, the options given with a    *)
(* value, an option whose value its parser refuses, and the file of        *)
(* --from-json.  Options that only travel into the request are left out.   *)
(* Installing a plugin takes more than one request: PluginInstall.         *)
(***************************************************************************)
EXTENDS FiniteSets

\* The commands of two groups together.
f ++ g == [c \in DOMAIN f \cup DOMAIN g |-> IF c \in DOMAIN f THEN f[c] ELSE g[c]]

\* What a group registers: options, positional arguments, and the options
\* whose value is parsed while commander reads the line.
Grammar(names, opts, args, typed) ==
  [c \in names |-> [options |-> opts, arguments |-> args, parsed |-> typed]]

\* addSecretSourceOptions: a variable, standard input or a file, never a value.
Password == {"admin-password-env", "admin-password-stdin", "admin-password-file"}
Polling == {"interval-seconds", "timeout-seconds"}
Native == {"site-name"} \* one of InstaWP's own five, which change the body

InventoryGrammar ==
  Grammar({"providers validate", "providers capabilities"}, {}, {}, {}) ++
  Grammar({"regions list"}, {"company"}, {}, {}) ++
  Grammar({"activity list"}, {"limit", "company"}, {}, {"limit"}) ++
  Grammar({"ops get"}, {}, {"operation_id"}, {}) ++
  Grammar({"ops wait"}, Polling, {"operation_id"}, Polling)

CreateGrammar == {"from-json", "admin-email", "admin-user", "site-title"} \cup Password

SitesGrammar ==
  Grammar({"sites list"}, {}, {}, {}) ++
  Grammar({"sites get"}, {}, {"site_id"}, {}) ++
  Grammar({"sites create"}, CreateGrammar \cup Native \cup {"display-name", "region"}, {}, {}) ++
  Grammar({"sites create-plain"}, {"from-json", "display-name", "region"}, {}, {}) ++
  Grammar({"sites clone"}, {"from-json", "display-name", "source-env"}, {}, {})

EnvsGrammar ==
  Grammar({"envs list"}, {"site"}, {}, {}) ++
  Grammar({"envs get"}, {"site"}, {"env_id"}, {}) ++
  Grammar({"envs create"}, CreateGrammar \cup {"site", "display-name"}, {}, {}) ++
  Grammar({"envs create-plain"}, {"site", "from-json", "display-name"}, {}, {}) ++
  Grammar({"envs clone"}, {"site", "from-json", "display-name", "source-env"}, {}, {}) ++
  Grammar({"envs push"}, {"site", "source-env", "target-env", "db", "all-files",
                          "search-replace", "file"}, {}, {})

DomainsGrammar ==
  Grammar({"domains list"}, {"env"}, {}, {}) ++
  Grammar({"domains add"}, {"env", "from-json", "domain-name", "setup-type"}, {}, {"setup-type"}) ++
  Grammar({"domains verify"}, {}, {"site_domain_id"}, {}) ++
  Grammar({"domains primary"}, {"env", "from-json", "domain-id"}, {}, {})

DnsGrammar ==
  Grammar({"dns domains list"}, {"company"}, {}, {}) ++
  Grammar({"dns records list"}, {"domain"}, {}, {})

BackupsGrammar ==
  Grammar({"backups list", "backups downloadable"}, {"env"}, {}, {}) ++
  Grammar({"backups create"}, {"env", "from-json"}, {}, {}) ++
  Grammar({"backups restore"}, {"env", "backup-id", "all-content"}, {}, {})

CacheGrammar ==
  Grammar({"cache clear"}, {"from-json", "env", "kind", "cdn-cache-id"}, {}, {"kind"})

PhpGrammar ==
  Grammar({"php restart"}, {"env"}, {}, {}) ++
  Grammar({"php set-version"}, {"from-json", "env", "php-version"}, {}, {})

RedirectsGrammar ==
  Grammar({"redirects list"}, {"env", "limit", "offset"}, {}, {"limit", "offset"}) ++
  Grammar({"redirects apply"}, {"env", "from-json"}, {}, {})

DeniedIpsGrammar ==
  Grammar({"denied-ips list"}, {"env"}, {}, {}) ++
  Grammar({"denied-ips set"}, {"from-json", "env"}, {}, {})

AssetGrammar ==
  Grammar({"wp list"}, {"env", "company"}, {}, {}) ++
  Grammar({"wp update"}, {"env", "from-json", "name", "update-version"}, {}, {}) ++
  Grammar({"wp update-all"}, {"env", "from-json", "name"}, {}, {})

WpCliGrammar ==
  Grammar({"wp-cli run"}, {"env", "from-json", "command", "command-stdin"}, {}, {})
LogsGrammar == Grammar({"logs get"}, {"env", "file", "lines"}, {}, {"lines"})
AnalyticsGrammar ==
  Grammar({"analytics usage"}, {"site", "metric"}, {}, {}) ++
  Grammar({"analytics env"}, {"env", "metric"}, {}, {})

\* registerHostingCommands, in three parts.
SiteGroups == InventoryGrammar ++ SitesGrammar ++ EnvsGrammar ++ DomainsGrammar ++ DnsGrammar
CareGroups == BackupsGrammar ++ CacheGrammar ++ PhpGrammar ++ RedirectsGrammar ++ DeniedIpsGrammar
AssetGroups == AssetGrammar ++ WpCliGrammar ++ LogsGrammar ++ AnalyticsGrammar
Program == SiteGroups ++ CareGroups ++ AssetGroups

Commands == DOMAIN Program

-----------------------------------------------------------------------------
(* What the handlers ask of a line before they send its request *)

\* ids: refused when empty, whatever the file holds; fields: of the body, not
\* asked for when --from-json gives it; checks: values compared by the handler.
Handler(ids, fields, checks, request, write) ==
  [ids |-> ids, fields |-> fields, checks |-> checks, request |-> request, writes |-> write]
ReadCommand(ids, request) == Handler(ids, {}, {}, request, FALSE)
Acts(ids, fields, request) == Handler(ids, fields, {}, request, TRUE)

InventoryHandler(c) ==
  CASE c = "providers validate" -> ReadCommand({}, "validate")
    [] c = "providers capabilities" -> ReadCommand({}, "capabilities")
    [] c = "regions list" -> ReadCommand({}, "regions")
    [] c = "activity list" -> ReadCommand({}, "activity")
    [] OTHER -> ReadCommand({}, "operation")

\* readSecret: the password comes from exactly one of its three sources.
PasswordField(given) == IF Cardinality(given \cap Password) = 1 THEN {} ELSE {"admin-password"}

\* What payloads.ts asks of the options of the three ways to create a site.
SiteFields(c, given) ==
  CASE c = "sites create" ->
         IF given \cap Native # {} THEN {}
         ELSE {"display-name", "region", "admin-email", "admin-user", "site-title"}
                \cup PasswordField(given)
    [] c = "sites create-plain" -> {"display-name", "region"}
    [] OTHER -> {"display-name", "source-env"}

SitesHandler(c, given) ==
  CASE c = "sites list" -> ReadCommand({}, "sites")
    [] c = "sites get" -> ReadCommand({}, "site")
    [] c = "sites create" ->
         Acts({}, SiteFields(c, given), "create-site")
    [] c = "sites create-plain" -> Acts({}, SiteFields(c, given), "create-site-plain")
    [] OTHER -> Acts({}, SiteFields(c, given), "create-site-clone")

\* validateSelection: the rest of what a push is refused for.
PushScope(given) ==
  /\ ~({"all-files", "file"} \subseteq given)
  /\ given \cap {"db", "all-files", "file"} # {}
  /\ "search-replace" \in given => "db" \in given

EnvironmentFields(c, given) ==
  CASE c = "envs create" -> {"display-name", "site-title", "admin-email", "admin-user"}
                              \cup PasswordField(given)
    [] c = "envs create-plain" -> {"display-name"}
    [] OTHER -> {"display-name", "source-env"}

EnvsHandler(c, given) ==
  CASE c \in {"envs list", "envs get"} -> ReadCommand({}, "environments")
    [] c = "envs create" -> Acts({}, EnvironmentFields(c, given), "create-environment")
    [] c = "envs create-plain" -> Acts({}, EnvironmentFields(c, given), "create-environment-plain")
    [] c = "envs clone" -> Acts({}, EnvironmentFields(c, given), "create-environment-clone")
    [] OTHER -> Acts({"site", "source-env", "target-env"} \cup
                       (IF PushScope(given) THEN {} ELSE {"scope"}), {}, "push-environment")

DomainFields(c) == IF c = "domains add" THEN {"domain-name"} ELSE {"domain-id"}

DomainsHandler(c) ==
  CASE c = "domains list" -> ReadCommand({"env"}, "site-domains")
    [] c = "domains add" -> Acts({"env"}, DomainFields(c), "add-domain")
    [] c = "domains verify" -> ReadCommand({"site_domain_id"}, "site-domain-verification")
    [] c = "domains primary" -> Acts({"env"}, DomainFields(c), "change-primary-domain")
    [] c = "dns domains list" -> ReadCommand({}, "dns-domains")
    [] OTHER -> ReadCommand({"domain"}, "dns-records")

\* kind stands for --kind cdn; a cache that is not named is the site's.
CacheFields(given) == {"env"} \cup (IF "kind" \in given THEN {"cdn-cache-id"} ELSE {})

MaintenanceHandler(c, given) ==
  CASE c = "backups list" -> ReadCommand({"env"}, "backups")
    [] c = "backups downloadable" -> ReadCommand({"env"}, "downloadable-backups")
    [] c = "backups create" -> Acts({"env"}, {}, "create-backup")
    [] c = "backups restore" -> Acts({"env", "backup-id", "all-content"}, {}, "restore-backup")
    [] c = "cache clear" -> Acts({}, CacheFields(given), "clear-cache")
    [] c = "php restart" -> Acts({"env"}, {}, "restart-php")
    [] c = "php set-version" -> Acts({}, {"env", "php-version"}, "set-php-version")
    [] c = "redirects list" -> ReadCommand({"env"}, "redirects")
    [] c = "redirects apply" -> Acts({"env"}, {"from-json"}, "apply-redirects")
    [] c = "denied-ips list" -> ReadCommand({"env"}, "denied-ips")
    [] OTHER -> Acts({}, {"env"}, "set-denied-ips")

WpFields(c, given) ==
  CASE c = "wp update" -> {"name", "update-version"}
    [] c = "wp-cli run" -> IF "command-stdin" \in given THEN {} ELSE {"command"}
    [] OTHER -> {}

\* Updating an asset and running WP-CLI pass an empty environment through.
WpHandler(c, given) ==
  CASE c = "wp list" -> ReadCommand(IF "company" \in given THEN {} ELSE {"env"}, "assets")
    [] c = "wp update" -> Acts({}, WpFields(c, given), "update-asset")
    [] c = "wp update-all" -> Acts({}, WpFields(c, given), "bulk-update-assets")
    [] c = "wp-cli run" -> Acts({}, WpFields(c, given), "run-wp-cli")
    [] c = "logs get" -> Handler({}, {}, {"file"}, "logs", FALSE)
    [] OTHER -> Handler({}, {}, {"metric"}, "analytics", FALSE)

HandlerOf(c, given) ==
  CASE c \in DOMAIN InventoryGrammar -> InventoryHandler(c)
    [] c \in DOMAIN SitesGrammar -> SitesHandler(c, given)
    [] c \in DOMAIN EnvsGrammar -> EnvsHandler(c, given)
    [] c \in DOMAIN DomainsGrammar \cup DOMAIN DnsGrammar -> DomainsHandler(c)
    [] c \in DOMAIN AssetGrammar \cup DOMAIN WpCliGrammar \cup DOMAIN LogsGrammar
              \cup DOMAIN AnalyticsGrammar -> WpHandler(c, given)
    [] OTHER -> MaintenanceHandler(c, given)

-----------------------------------------------------------------------------
VARIABLES
  line,     \* the command line
  cmdAt,    \* where the command is, "done" at its exit
  cmdSent,  \* requests the provider has got
  cmdExit,  \* how the command ended
  asked     \* the options a refusal is about

cmdVars == <<line, cmdAt, cmdSent, cmdExit, asked>>

Given(c) == SUBSET (Program[c].options \cup Program[c].arguments)

FirstLine(c, g) == [command |-> c, given |-> g, bad |-> "none", file |-> "none", yes |-> FALSE]
CmdStart == cmdAt = "parse" /\ cmdSent = {} /\ cmdExit = "none" /\ asked = {}
CmdInit ==
  /\ \E c \in Commands : \E g \in Given(c) :
       line \in [command : {c}, given : {g}, bad : g \cup {"none"},
                 file : IF "from-json" \in g THEN {"body", "unreadable"} ELSE {"none"},
                 yes : IF c = "backups restore" THEN BOOLEAN ELSE {FALSE}]
  /\ CmdStart

Handling == HandlerOf(line.command, line.given)
ExitWith(how) == cmdAt' = "done" /\ cmdExit' = how
Refuse(how, options) == ExitWith(how) /\ asked' = options /\ UNCHANGED <<line, cmdSent>>
GotoStep(at) == cmdAt' = at /\ UNCHANGED <<line, cmdSent, cmdExit, asked>>

\* commander: positional arguments are there, typed values parse.
Parse ==
  /\ cmdAt = "parse"
  /\ LET wrong == (Program[line.command].arguments \ line.given) \cup
                  ({line.bad} \cap Program[line.command].parsed) IN
     IF wrong # {} THEN Refuse("usage", wrong) ELSE GotoStep("profile")

\* resolveHostingClient: a profile is never inferred, and its credential is
\* resolved before the handler looks at its options.
SelectProfile ==
  /\ cmdAt = "profile"
  /\ \/ Refuse("usage", {"profile"}) \* none was named
     \/ Refuse("profile", {})         \* there is none of that name
     \/ Refuse("credential", {})
     \/ GotoStep("confirm")

ConfirmAct ==
  /\ cmdAt = "confirm"
  /\ IF line.command = "backups restore" /\ ~line.yes
       THEN Refuse("confirmation", {"yes"}) ELSE GotoStep("ids")

RequireIds ==
  /\ cmdAt = "ids"
  /\ LET wrong == (Handling.ids \ line.given) \cup ({line.bad} \cap Handling.checks) IN
     IF wrong # {} THEN Refuse("usage", wrong) ELSE GotoStep("body")

\* payloadOrObject: the file replaces the fields; else every field is there and
\* the password can be read.
BuildBody ==
  /\ cmdAt = "body"
  /\ IF line.file = "unreadable" THEN Refuse("usage", {"from-json"})
     ELSE IF line.file = "none" /\ ~(Handling.fields \subseteq line.given)
     THEN Refuse("usage", Handling.fields \ line.given)
     ELSE IF line.file = "none" /\ line.bad \in Password /\ line.given \cap Native = {}
     THEN Refuse("credential", {line.bad})
     ELSE GotoStep("send")

\* prepareEnvironmentPush and prepareBackupRestore look at the provider first.
Send ==
  /\ cmdAt = "send"
  /\ \/ cmdSent' = cmdSent \cup {[request |-> Handling.request, writes |-> Handling.writes]}
        /\ cmdAt' = "sent" /\ UNCHANGED <<line, cmdExit, asked>>
     \/ /\ line.command \in {"envs push", "backups restore"}
        /\ cmdSent' = cmdSent \cup {[request |-> "capabilities", writes |-> FALSE]}
        /\ ExitWith("failed") /\ UNCHANGED <<line, asked>>

Waits == line.command \in {"ops wait", "envs push", "backups restore"}

CmdAnswered ==
  /\ cmdAt = "sent"
  /\ \/ ExitWith("failed") \* refused, lost or out of time
     \/ ~Waits /\ line.command # "envs get" /\ ExitWith("ok")
     \/ Waits /\ cmdAt' = "waiting" /\ UNCHANGED cmdExit
     \/ line.command = "envs get" /\ \E how \in {"ok", "not found"} : ExitWith(how)
  /\ UNCHANGED <<line, cmdSent, asked>>

\* waitForOperationStatus: it ends well only when the operation has.
Poll ==
  /\ cmdAt = "waiting"
  /\ \E status \in {"done", "failed", "timeout"} :
       ExitWith(IF status = "done" THEN "ok" ELSE "failed")
  /\ UNCHANGED <<line, cmdSent, asked>>

CmdNext ==
  Parse \/ SelectProfile \/ ConfirmAct \/ RequireIds \/ BuildBody \/ Send \/ CmdAnswered \/ Poll

CmdSpec == CmdInit /\ [][CmdNext]_cmdVars

-----------------------------------------------------------------------------
CmdTypeOK ==
  /\ cmdAt \in {"parse", "profile", "confirm", "ids", "body", "send", "sent", "waiting", "done"}
  /\ cmdExit \in {"none", "usage", "profile", "confirmation", "credential", "failed",
                  "not found", "ok"}
  /\ line.command \in Commands /\ line.given \in Given(line.command)

\* What a provider gets of a command line was wholly given and confirmed: a
\* refused line wrote nothing, a backup is restored only with --yes and
\* --all-content, and a site is never created with two passwords to choose from.
\* What a refusal names is something the grammar of the command accepts (or the
\* scope of a push, the password of its three sources, a global option).
CommandsHonest ==
  /\ cmdExit \in {"usage", "profile", "confirmation", "credential"} =>
       /\ cmdSent = {}
       /\ asked \subseteq Program[line.command].options \cup Program[line.command].arguments \cup
                          {"scope", "admin-password", "profile", "yes"}
  /\ \A r \in cmdSent : r.writes =>
       /\ r.request = "restore-backup" => line.yes /\ "all-content" \in line.given
       /\ r.request \in {"create-site", "create-environment"} /\ line.file = "none"
            /\ line.given \cap Native = {} =>
              Cardinality(line.given \cap Password) = 1 /\ line.bad \notin Password
       /\ r.request = "push-environment" =>
            {"site", "source-env", "target-env"} \subseteq line.given

\* What it rests on: nothing is sent before every check was passed, and each
\* check leaves true what it was for.
Refusals == {"usage", "profile", "confirmation", "credential"}
LineParts ==
  /\ line.bad \in line.given \cup {"none"} /\ line.file \in {"none", "body", "unreadable"}
  /\ line.file # "none" => "from-json" \in line.given
BodyGiven ==
  line.file = "none" =>
    /\ Handling.fields \subseteq line.given
    /\ line.bad \in Password => line.given \cap Native # {}
CmdInv ==
  /\ CmdTypeOK /\ LineParts /\ CommandsHonest
  /\ cmdAt \notin {"sent", "waiting", "done"} => cmdSent = {}
  /\ cmdAt # "done" => cmdExit = "none"
  /\ cmdAt \in {"ids", "body", "send"} /\ line.command = "backups restore" => line.yes
  /\ cmdAt \in {"body", "send"} => Handling.ids \subseteq line.given
  /\ cmdAt = "send" => BodyGiven
=============================================================================
