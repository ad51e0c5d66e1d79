-------------------------- MODULE ProviderRequests --------------------------
(***************************************************************************)
(* What every provider's client does for each kind of read and action:     *)
(* the capabilities it claims, and the requests it sends, in order.  A     *)
(* plan is a sequence of steps:                                            *)
(*   "check"   the body or the parameters may be refused                   *)
(*   "account" an id of the account is looked up, once per client          *)
(*   "look"    a request that changes nothing                              *)
(*   "gate"    a look at whether the toolkit of the panel is there         *)
(*   "compare" what was looked up may rule the rest out                    *)
(*   "write"   a request that changes something                            *)
(*   "own id"  an id of the answer is read with the client's own check     *)
(*   "tell"    a request whose failure the client swallows                 *)
(* A kind outside a provider's DOMAIN is refused as unsupported.           *)
(***************************************************************************)
EXTENDS Sequences, ProviderBodies

ReadKinds ==
  {"capabilities", "regions", "activity", "site-domains", "site-domain-verification",
   "dns-domains", "dns-records", "backups", "downloadable-backups", "logs", "redirects",
   "denied-ips", "plugins", "themes", "company-plugins", "company-themes",
   "analytics-usage", "analytics-env", "file-list"}

\* The kinds that serve a public capability, and which one.
ServedKinds ==
  (ReadKinds \cup ActionKinds) \
    {"company-plugins", "company-themes", "file-list", "clear-cache-edge", "clear-cache-cdn"}

CapabilityOf(kind) ==
  CASE kind = "capabilities" -> "providers.capabilities" [] kind = "regions" -> "regions.list"
    [] kind = "activity" -> "activity.list" [] kind = "site-domains" -> "domains.list"
    [] kind = "site-domain-verification" -> "domains.verify"
    [] kind = "dns-domains" -> "dns.domains.list" [] kind = "dns-records" -> "dns.records.list"
    [] kind = "backups" -> "backups.list"
    [] kind = "downloadable-backups" -> "backups.downloadable" [] kind = "logs" -> "logs.get"
    [] kind = "redirects" -> "redirects.list" [] kind = "denied-ips" -> "denied-ips.list"
    [] kind = "plugins" -> "wp.plugins.list" [] kind = "themes" -> "wp.themes.list"
    [] kind = "analytics-usage" -> "analytics.usage" [] kind = "analytics-env" -> "analytics.env"
    [] kind = "create-site" -> "sites.create"
    [] kind = "create-site-plain" -> "sites.create-plain"
    [] kind = "create-site-clone" -> "sites.clone" [] kind = "create-environment" -> "envs.create"
    [] kind = "create-environment-plain" -> "envs.create-plain"
    [] kind = "create-environment-clone" -> "envs.clone"
    [] kind = "push-environment" -> "envs.push" [] kind = "clear-cache" -> "cache.clear"
    [] kind = "restart-php" -> "php.restart" [] kind = "set-php-version" -> "php.set-version"
    [] kind = "add-domain" -> "domains.add" [] kind = "change-primary-domain" -> "domains.primary"
    [] kind = "create-backup" -> "backups.create" [] kind = "restore-backup" -> "backups.restore"
    [] kind = "update-plugin" -> "wp.plugins.update"
    [] kind = "bulk-update-plugins" -> "wp.plugins.update-all"
    [] kind = "update-theme" -> "wp.themes.update"
    [] kind = "bulk-update-themes" -> "wp.themes.update-all"
    [] kind = "run-wp-cli" -> "wp-cli.run" [] kind = "set-denied-ips" -> "denied-ips.set"
    [] kind = "apply-redirects" -> "redirects.apply"
    [] kind = "setup-novamira" -> "novamira.setup"

PublicCapabilities == {CapabilityOf(k) : k \in ServedKinds} \ {"novamira.setup"}

\* Of two tables joined, an entry of the first hides the second's.
f ++ g == [k \in DOMAIN f \cup DOMAIN g |-> IF k \in DOMAIN f THEN f[k] ELSE g[k]]

Sends(kinds, plan) == [k \in kinds |-> plan]
Look == <<"look">>
Write == <<"write">>
CheckLook == <<"check", "look">>
CheckWrite == <<"check", "write">>

-----------------------------------------------------------------------------
KinstaClaims == PublicCapabilities

KinstaReads ==
     Sends({"capabilities"}, <<>>)
  ++ Sends({"regions", "activity", "dns-domains", "company-plugins", "company-themes"},
           <<"account", "look">>)
  ++ Sends({"analytics-env"}, <<"check", "account", "look">>)
  ++ Sends({"logs", "analytics-usage"}, CheckLook)
  ++ Sends(ReadKinds, Look)

\* Without names, a bulk update reads which items have an update, and sends those.
KinstaBulkUpdate == <<"check", "look", "compare", "write">>

KinstaActions ==
     Sends(CreateSites, <<"check", "account", "write">>)
  ++ Sends(UpdateAlls, KinstaBulkUpdate)
  ++ Sends(ActionKinds \ {"setup-novamira"}, Write)

-----------------------------------------------------------------------------
RocketNetClaims ==
  PublicCapabilities \
    {"envs.create-plain", "envs.push", "dns.domains.list", "dns.records.list",
     "backups.downloadable", "php.restart", "php.set-version", "redirects.list",
     "redirects.apply", "denied-ips.list", "denied-ips.set"}

RocketNetReads ==
     Sends({"capabilities"}, <<>>)
  ++ Sends({"regions", "activity", "site-domains", "backups", "plugins", "themes",
            "analytics-usage", "file-list"}, Look)
  ++ Sends({"logs", "analytics-env"}, CheckLook)

\* Every mode of create-environment asks for the site's staging.
RocketNetActions ==
     Sends({"create-site-clone", "create-backup", "restore-backup", "run-wp-cli"} \cup
             ClearCaches, CheckWrite)
  ++ Sends(CreateSites \cup CreateEnvironments \cup UpdateOnes \cup UpdateAlls \cup
             {"add-domain", "change-primary-domain"}, Write)

-----------------------------------------------------------------------------
CloudwaysClaims ==
  {"novamira.setup", "providers.capabilities", "regions.list", "activity.list",
   "sites.create", "sites.create-plain", "sites.clone", "envs.create", "envs.clone",
   "domains.add", "domains.primary", "backups.create", "cache.clear", "php.restart",
   "wp.plugins.list", "analytics.usage"}

CloudwaysReads ==
     Sends({"capabilities"}, <<>>) ++ Sends({"regions"}, Look)
  ++ Sends({"plugins", "analytics-usage", "analytics-env", "activity"}, CheckLook)

\* The name of the PHP service is looked up: the last one that is installed.
CloudwaysActions ==
     Sends({"restart-php"}, <<"check", "look", "compare", "write">>)
  ++ Sends(CreateSites \cup CreateEnvironments \cup ClearCaches \cup
             {"add-domain", "change-primary-domain", "create-backup"}, CheckWrite)

-----------------------------------------------------------------------------
PantheonClaims ==
  {"providers.capabilities", "sites.create", "sites.create-plain", "envs.create",
   "envs.create-plain", "envs.clone", "domains.list", "domains.add", "domains.primary",
   "backups.list", "backups.downloadable", "backups.create", "backups.restore",
   "cache.clear", "analytics.env"}

PantheonReads ==
     Sends({"capabilities"}, <<>>)
  ++ Sends({"site-domains", "backups", "downloadable-backups", "analytics-env"}, CheckLook)

\* The id of a new site is read by its name afterwards, if that works.
PantheonActions ==
     Sends({"create-site", "create-site-plain"}, <<"check", "write", "tell">>)
  ++ Sends(CreateEnvironments \cup ClearCaches \cup
             {"add-domain", "change-primary-domain", "create-backup", "restore-backup"},
           CheckWrite)

-----------------------------------------------------------------------------
XCloudClaims ==
  {"providers.capabilities", "activity.list", "domains.list", "backups.list",
   "backups.create", "cache.clear", "wp.plugins.list", "wp.plugins.update",
   "wp.plugins.update-all", "wp.themes.list", "wp.themes.update",
   "wp.themes.update-all", "logs.get"}

XCloudReads ==
     Sends({"capabilities"}, <<>>)
  ++ Sends({"site-domains", "backups", "plugins", "themes", "logs", "activity"}, CheckLook)

\* The one version xCloud has is compared with the one that was asked for.
XCloudActions ==
     Sends(UpdateOnes, <<"check", "look", "compare", "write">>)
  ++ Sends(UpdateAlls \cup {"clear-cache", "create-backup"}, CheckWrite)

-----------------------------------------------------------------------------
PressableClaims ==
  {"providers.capabilities", "regions.list", "activity.list", "sites.create",
   "sites.create-plain", "domains.list", "dns.domains.list", "backups.list",
   "cache.clear", "wp.plugins.list", "wp.plugins.install", "wp-cli.run", "logs.get",
   "analytics.usage"}

PressableReads ==
     Sends({"capabilities"}, <<>>)
  ++ Sends({"regions", "site-domains", "backups", "plugins", "analytics-usage",
            "dns-domains"}, Look)
  ++ Sends({"logs", "activity"}, CheckLook)

\* Every mode of create-site is the same request.
PressableActions ==
     Sends(CreateSites \cup {"add-domain"}, Write)
  ++ Sends(ClearCaches \cup {"run-wp-cli"}, CheckWrite)

-----------------------------------------------------------------------------
InstaWpClaims ==
  {"providers.capabilities", "sites.create", "sites.create-plain", "sites.clone",
   "backups.list", "backups.create", "backups.restore", "wp.plugins.install", "wp-cli.run"}

InstaWpReads == Sends({"capabilities"}, <<>>) ++ Sends({"backups"}, CheckLook)

\* A version is taken, its ids are read, and then it is given its label.
InstaWpVersions ==
     Sends({"create-backup"}, <<"check", "write", "own id", "tell">>)
  ++ Sends({"restore-backup"}, <<"check", "look", "compare", "write">>)

InstaWpActions ==
  Sends(CreateSites \cup {"run-wp-cli"}, CheckWrite) ++ InstaWpVersions

-----------------------------------------------------------------------------
WpEngineClaims ==
  {"providers.capabilities", "sites.create", "sites.create-plain", "envs.create",
   "envs.create-plain", "domains.list", "domains.add", "domains.primary",
   "backups.list", "backups.create", "cache.clear"}

WpEngineReads ==
     Sends({"capabilities"}, <<>>)
  ++ Sends({"site-domains", "backups", "downloadable-backups"}, Look)

\* Mutant: a mode that is claimed is forgotten.
WpEngineActionsWithoutPlain ==
  Sends((CreateSites \cup CreateEnvironments \cup ClearCaches \cup
         {"add-domain", "change-primary-domain", "create-backup", "restore-backup"}) \
          {"create-site-clone", "create-environment-clone", "create-environment-plain"},
        CheckWrite)

WpEngineActions ==
  Sends((CreateSites \cup CreateEnvironments \cup ClearCaches \cup
         {"add-domain", "change-primary-domain", "create-backup", "restore-backup"}) \
          {"create-site-clone", "create-environment-clone"},
        CheckWrite)

-----------------------------------------------------------------------------
HostingerClaims ==
  {"novamira.setup", "providers.capabilities", "regions.list", "sites.create",
   "sites.create-plain", "envs.create", "domains.list", "domains.add",
   "dns.domains.list", "dns.records.list", "wp.plugins.list"}

HostingerReads ==
     Sends({"capabilities"}, <<>>) ++ Sends({"dns-domains", "dns-records"}, Look)
  ++ Sends({"plugins", "regions", "site-domains"}, CheckLook)

\* An environment of an agency plan is refused first (rejectAgencyOperation).
HostingerActions ==
  Sends({"create-site", "create-site-plain", "add-domain"} \cup CreateEnvironments, CheckWrite)

-----------------------------------------------------------------------------
SandyWpClaims ==
  {"novamira.setup", "providers.capabilities", "sites.create", "sites.create-plain",
   "sites.clone"}

SandyWpReads == Sends({"capabilities"}, <<>>)
SandyWpActions == Sends(CreateSites, CheckWrite)

-----------------------------------------------------------------------------
\* What WP Toolkit can do is claimed after a look at it.
PleskClaims ==
  {"novamira.setup", "providers.capabilities", "backups.list", "backups.create",
   "backups.restore", "envs.push"}

PleskReads ==
  Sends({"capabilities"}, Look) ++ Sends({"backups", "plugins"}, <<"gate", "look", "look">>)

\* The catalog of backups asks for the toolkit again: requireToolkit is in #backups.
PleskBackups == <<"gate", "look", "look", "compare">>

PleskSetup ==
  <<"gate", "look", "compare", "look", "look", "compare",
    "write", "look", "write", "look", "write", "write", "look", "look">>

PleskActions ==
     Sends({"push-environment"}, <<"gate", "check", "look", "look", "compare", "write">>)
  ++ Sends({"create-backup"}, <<"gate", "look", "write">> \o PleskBackups)
  ++ Sends({"restore-backup"}, <<"gate", "check">> \o PleskBackups \o <<"look", "write">>)
  ++ Sends({"setup-novamira"}, PleskSetup)

-----------------------------------------------------------------------------
\* Directly and through WHM; their setups are modules of their own.
CpanelClaims == {"novamira.setup", "providers.capabilities", "backups.list",
                 "backups.create", "logs.get"}

CpanelReads ==
     Sends({"capabilities"}, <<>>)
  ++ Sends({"backups"}, <<"look", "look">>) ++ Sends({"logs"}, <<"check", "look", "look">>)

\* With the wait the directory is read before the backup starts and until it ends.
CpanelAccountBackup == <<"look", "look", "write", "look", "look">>
CpanelActions == Sends({"create-backup"}, CpanelAccountBackup)

-----------------------------------------------------------------------------
ClientProviders ==
  {"kinsta", "rocketnet", "cloudways", "pantheon", "xcloud", "pressable", "instawp",
   "wpengine", "hostinger", "sandywp", "plesk", "cpanel"}

ClaimsOf(p) ==
  CASE p = "kinsta" -> KinstaClaims [] p = "rocketnet" -> RocketNetClaims
    [] p = "cloudways" -> CloudwaysClaims [] p = "pantheon" -> PantheonClaims
    [] p = "xcloud" -> XCloudClaims [] p = "pressable" -> PressableClaims
    [] p = "instawp" -> InstaWpClaims [] p = "wpengine" -> WpEngineClaims
    [] p = "hostinger" -> HostingerClaims [] p = "sandywp" -> SandyWpClaims
    [] p = "plesk" -> PleskClaims [] OTHER -> CpanelClaims

ReadsOf(p) ==
  CASE p = "kinsta" -> KinstaReads [] p = "rocketnet" -> RocketNetReads
    [] p = "cloudways" -> CloudwaysReads [] p = "pantheon" -> PantheonReads
    [] p = "xcloud" -> XCloudReads [] p = "pressable" -> PressableReads
    [] p = "instawp" -> InstaWpReads [] p = "wpengine" -> WpEngineReads
    [] p = "hostinger" -> HostingerReads [] p = "sandywp" -> SandyWpReads
    [] p = "plesk" -> PleskReads [] OTHER -> CpanelReads

ActionsOf(p) ==
  CASE p = "kinsta" -> KinstaActions [] p = "rocketnet" -> RocketNetActions
    [] p = "cloudways" -> CloudwaysActions [] p = "pantheon" -> PantheonActions
    [] p = "xcloud" -> XCloudActions [] p = "pressable" -> PressableActions
    [] p = "instawp" -> InstaWpActions [] p = "wpengine" -> WpEngineActions
    [] p = "hostinger" -> HostingerActions [] p = "sandywp" -> SandyWpActions
    [] p = "plesk" -> PleskActions [] OTHER -> CpanelActions

\* Setups with a module of their own (ProviderSetups, Installer) are not planned here.
SetUpElsewhere == {"cloudways", "hostinger", "sandywp", "cpanel"}
Plans(p) == ReadsOf(p) ++ ActionsOf(p)
=============================================================================
