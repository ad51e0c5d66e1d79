--------------------------- MODULE ProviderBodies ---------------------------
(***************************************************************************)
(* The bodies of provider requests: what the flags of the command line     *)
(* put into them (src/cli/payloads.ts), and what every provider's client   *)
(* asks of them before it sends anything (src/hosting/providers).  A body  *)
(* is the set of its fields.  The values matter only where a client        *)
(* refuses one, which is a choice made where the body is checked.          *)
(*                                                                         *)
(* A kind of request is the name of its variant in src/hosting/client.ts,  *)
(* followed by the mode or the cache for the variants that have one.       *)
(***************************************************************************)
EXTENDS TLC

CreateSites == {"create-site", "create-site-plain", "create-site-clone"}
CreateEnvironments ==
  {"create-environment", "create-environment-plain", "create-environment-clone"}
ClearCaches == {"clear-cache", "clear-cache-edge", "clear-cache-cdn"}
UpdateOnes == {"update-plugin", "update-theme"}
UpdateAlls == {"bulk-update-plugins", "bulk-update-themes"}

ActionKinds ==
  CreateSites \cup CreateEnvironments \cup ClearCaches \cup UpdateOnes \cup UpdateAlls \cup
  {"setup-novamira", "push-environment", "restart-php", "set-php-version", "add-domain",
   "change-primary-domain", "create-backup", "restore-backup", "run-wp-cli",
   "set-denied-ips", "apply-redirects"}

NotAnObject == {"[]"} \* what --from-json may hold as well
Object(b) == b # NotAnObject

Flags(required, optional) == {required \cup o : o \in SUBSET optional}

-----------------------------------------------------------------------------
(* What the flags of each command produce *)

\* Any of the five native flags replaces the whole neutral form.
SiteCreatePayload ==
  (SUBSET {"site_name", "template_slug", "email"} \ {{}}) \cup
  {{"display_name", "region", "admin_email", "admin_password", "admin_user", "site_title"}}

SiteCreatePlainPayload == {{"display_name", "region"}}
SiteClonePayload == {{"display_name", "source_env_id"}}

EnvironmentCreatePayload ==
  {{"display_name", "site_title", "admin_email", "admin_password", "admin_user"}}
EnvironmentCreatePlainPayload == {{"display_name", "is_premium"}}
EnvironmentClonePayload == {{"display_name", "source_env_id", "is_premium"}}

DomainAddPayload == Flags({"domain_name"}, {"setup_type"})
DomainPrimaryPayload == {{"domain_id", "run_search_and_replace"}}

CacheClearPayload(kind) ==
  CASE kind = "clear-cache" -> {{"environment_id"}}
    [] kind = "clear-cache-edge" ->
         Flags({"environment_id", "clear_subdirectories"}, {"url"})
    [] OTHER -> {{"environment_id", "cdn_cache_id"}}

WpAssetUpdatePayload == {{"name", "update_version"}}
WpAssetUpdateAllPayload == {{"names"}, {"no names"}} \* a list, which may be empty
WpPluginInstallPayload == {{"command_id"}, {"wp_command"}}
WpCliPayload == {{"wp_command"}}
BackupCreatePayload == Flags({}, {"tag"})
PhpSetVersionPayload == Flags({"environment_id", "php_version"}, {"opt_out"})
DeniedIpsSetPayload == {{"environment_id", "ip_list"}}

FlagBodies(kind) ==
  CASE kind = "create-site" -> SiteCreatePayload
    [] kind = "create-site-plain" -> SiteCreatePlainPayload
    [] kind = "create-site-clone" -> SiteClonePayload
    [] kind = "create-environment" -> EnvironmentCreatePayload
    [] kind = "create-environment-plain" -> EnvironmentCreatePlainPayload
    [] kind = "create-environment-clone" -> EnvironmentClonePayload
    [] kind = "add-domain" -> DomainAddPayload
    [] kind = "change-primary-domain" -> DomainPrimaryPayload
    [] kind \in ClearCaches -> CacheClearPayload(kind)
    [] kind \in UpdateOnes -> WpAssetUpdatePayload
    [] kind \in UpdateAlls -> WpAssetUpdateAllPayload
    [] kind = "run-wp-cli" -> WpPluginInstallPayload \cup WpCliPayload
    [] kind = "create-backup" -> BackupCreatePayload
    [] kind = "set-php-version" -> PhpSetVersionPayload
    [] kind = "set-denied-ips" -> DeniedIpsSetPayload
    [] kind = "restore-backup" -> {{"backup_id"}} \* the guarded restore writes it
    [] kind = "push-environment" -> {{"source_env_id", "target_env_id"}}
    [] OTHER -> {{}}

\* payloadOrObject, requiredPayload: a file of the user's replaces the flags.
FileBodies(kind) ==
  {NotAnObject} \cup
  CASE kind = "create-site" -> {{"siteName"}}
    [] kind = "create-site-clone" -> {{"source_site_id"}, {"template_slug"}, {"templateId"}}
    [] kind = "create-environment-clone" -> {{"name", "source_env"}}
    [] kind \in {"add-domain", "change-primary-domain"} -> {{"domain"}}
    [] kind \in ClearCaches -> {{"site_id"}}
    [] kind \in UpdateOnes -> {{"name"}}
    [] kind = "run-wp-cli" -> {{"command"}, {"commands"}}
    [] kind = "create-backup" -> {{"label"}}
    [] OTHER -> {{}}

-----------------------------------------------------------------------------
(* What each provider's client asks of a body *)

Has(b, names) == b \cap names # {}

CacheTargets == {"site_id", "siteId", "id", "environment_id", "envId"}

\* Kinsta forwards a body as it is; bulk updates and sites need an object.
KinstaTakes(kind, b) ==
  kind \in CreateSites \cup UpdateAlls => Object(b)

RocketNetTakes(kind, b) ==
  CASE kind = "create-site-clone" -> Has(b, {"source_site_id", "sourceSiteID", "site_id", "id"})
    [] kind \in ClearCaches -> Has(b, CacheTargets)
    [] kind = "create-backup" -> Has(b, {"label", "tag"})
    [] kind = "restore-backup" -> Has(b, {"backup_id", "id"})
    [] kind = "run-wp-cli" -> Has(b, {"wp_command", "command"})
    [] OTHER -> TRUE

\* The server and the application travel in the environment's id.
CloudwaysTakes(kind, b) ==
  CASE kind \in ClearCaches -> Has(b, {"environment_id", "env_id", "server_id"})
    [] OTHER -> Object(b)

PantheonTakes(kind, b) ==
  /\ Object(b)
  /\ kind \in ClearCaches => Has(b, {"environment_id", "env_id", "envId", "id"})
  /\ kind = "add-domain" => Has(b, {"domain", "domain_name"})
  /\ kind = "change-primary-domain" => Has(b, {"domain", "domain_id", "domain_name", "id"})
  /\ kind = "restore-backup" => Has(b, {"backup_id", "id"})

XCloudTakes(kind, b) ==
  /\ Object(b)
  /\ kind = "clear-cache" => Has(b, {"environment_id", "envId", "site_id", "siteId"})
  /\ kind \in UpdateOnes => Has(b, {"name"})

PressableTakes(kind, b) ==
  CASE kind \in ClearCaches -> Has(b, CacheTargets)
    [] kind = "run-wp-cli" -> Has(b, {"wp_command", "commands"})
    [] OTHER -> TRUE

\* A name is taken from the neutral fields; a template replaces it.
InstaWpTakes(kind, b) ==
  CASE kind = "create-site-clone" -> Has(b, {"template_slug"})
    [] kind \in CreateSites -> Has(b, {"template_slug", "site_name", "display_name", "site_title"})
    [] kind = "run-wp-cli" -> Has(b, {"command_id", "wp_command", "command", "commands"})
    [] kind = "create-backup" -> b \subseteq {"tag"}
    [] kind = "restore-backup" -> b = {"backup_id"}
    [] OTHER -> TRUE

WpEngineTakes(kind, b) ==
  /\ Object(b)
  /\ kind \in ClearCaches => Has(b, CacheTargets)
  /\ kind = "change-primary-domain" => Has(b, {"domain_id", "id"})
  /\ kind = "restore-backup" => Has(b, {"backup_id", "id"})

\* resolveEnvRef: the account's name may also be the profile's or in the id.
HostingerTakes(kind, b) == kind \in CreateSites \/ Object(b)

\* Anything outside the vendor's list is refused, after the name's aliases.
SandyWpTakes(kind, b) ==
  /\ b \subseteq {"siteName", "site_name", "display_name", "site_title", "templateId"}
  /\ kind = "create-site-clone" => Has(b, {"templateId"})

PleskTakes(kind, b) == kind = "restore-backup" => Has(b, {"backup_id"})

Takes(p, kind, b) ==
  CASE p = "kinsta" -> KinstaTakes(kind, b)
    [] p = "rocketnet" -> RocketNetTakes(kind, b)
    [] p = "cloudways" -> CloudwaysTakes(kind, b)
    [] p = "pantheon" -> PantheonTakes(kind, b)
    [] p = "xcloud" -> XCloudTakes(kind, b)
    [] p = "pressable" -> PressableTakes(kind, b)
    [] p = "instawp" -> InstaWpTakes(kind, b)
    [] p = "wpengine" -> WpEngineTakes(kind, b)
    [] p = "hostinger" -> HostingerTakes(kind, b)
    [] p = "sandywp" -> SandyWpTakes(kind, b)
    [] p = "plesk" -> PleskTakes(kind, b)
    [] OTHER -> TRUE
=============================================================================
