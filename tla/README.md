# Novamira HQ: TLA+ models and proofs

Novamira HQ (`src/src`) is a desktop and command-line program that manages
WordPress sites at a dozen hosting providers. It changes things that
are expensive to get wrong: it overwrites a live environment with a staging
one, restores backups, installs plugins, stores credentials. Its hard parts are
the protocols around those changes: a lock between processes, a journal of what
was sent, jobs that outlive a request, confirmations that may be used once,
providers that answer late, twice or not at all.

This directory holds TLA+ models of these protocols, the TLC runs that check
them on small instances and TLAPS proofs for all instances. Paths below are
relative to `src/src` unless they start with `test/` or `desktop/`.

## 1. Inventory

| Component | State | Operations | Works with |
|---|---|---|---|
| Profile lock (`config/lock.ts`) | a lock file per key, recovery claim files, keys held in the process | `acquire`, release, `inspect`, `recover`, `recoveryInProgress` | every store below |
| Hosting history (`history/`, `operation-context.ts`) | one journal file, at most 500 rows | `begin`, `finish`, `observe`, `finishWorkflow`, `list` | lock, hosting client, workflows |
| Push execution (`web/services/push-execution.ts`, `hosting/environment-push.ts`, `hosting/verified-action.ts`) | plans, jobs, runs, the refresh under way | `plan`, `start`/`apply`, `refresh`, `wait`, `shutdown` | history, provider, configuration |
| Setup jobs (`web/services/setup-jobs.ts`) | jobs, reservations, events, tasks | `start`, `snapshot`, `shutdown` | provisioning |
| Configuration and credential stores (`config/profiles.ts`, `credentials/`) | the configuration file, secrets, an in-process queue per key, snapshots of a transaction | `mutate`, profile operations under nested locks, `replace`, `restore` | lock |
| Backup restore (`hosting/backup-restore.ts`, `web/services/restore.ts`) | plans, jobs | plan, confirm, execute, shutdown | history, provider |
| Hosting HTTP client (`hosting/http-client.ts`) | one call: attempts, hops, deadlines | `request`, `poll`, abort | the provider's API |
| Hosting provider clients (`hosting/providers/`, `hosting/client.ts`) | sessions, ids seen, an account's inventory | `read`, `action`, `operationStatus`, `listSites` | HTTP client, history |
| Setups at providers (`hosting/providers/*-setup.ts`, `*-installer*.ts`) | temporary helper plugins, uploads, jobs of the provider | upload, activate, verify, remove | the site |
| WHM (`hosting/providers/whm*.ts`) | a pool of workers, a temporary session | list accounts, upload | the server |
| Provisioning (`provisioning/`, `cli/hosting/wp.ts`) | the steps of an installation | install, activate, verify, hand over | providers, history |
| Site connections (`integration/`) | child processes, the site CLI's profiles | connect, run, probe | the site CLI |
| Sites service (`web/services/sites.ts`) | a cache, loads in flight, the last snapshot | `list`, `refreshWarm`, `verifyConnections`, `invalidate` | providers, connections |
| MCP server (`mcp/server.ts`) | lines, the handshake, plans | tools with reviewed plans | all services |
| Owned skills (`agent-setup/owned-skills.ts`) | a skill's directory, an ownership record | install, repair, remove | lock |
| Pro license (`pro/`) | a stored key, its last digits, plans | save, remove, plan, install | license service, site |
| Dashboard server (`web/server.ts`, `routes.ts`, `request.ts`, `sse.ts`, `static.ts`) | connections, streams | guard, route, answer, stream, close | all services |
| Dashboard pages (`web/handlers/`, `web/patch.ts`) | plans of account removals | one handler per button | all services |
| Dashboard command (`cli/dashboard.ts`, `desktop/main.ts`) | a port, an open window | find a port, serve, stop | dashboard server |
| Command line (`cli/`) | none | one command per process | stores and clients |
| Updates (`update/`) | a cached catalog, a monthly id | check | lock, dashboard |
| Doctor, rendering, redaction, agent registration, atomic writes, keychains | none, or files of other programs | sequential | all |

How they interact. Several processes run at once: command-line calls, the
dashboard, MCP servers. They share files only. Every change of a shared file
runs under `ProfileLockManager.withLock` and ends in an atomic rename. Inside
a process everything is asynchronous: each `await` lets every other
operation of the process run. The provider is a third party: a request may be
lost, may take effect although its answer was lost, and its operation goes on
after the process that sent it is gone. The site CLI, the owner of a site and
the operator's editor are others: what was read of them may be old when it is
used.

What is hard, and what makes each component correct:

* **Lock.** Separate file system calls; processes die or are suspended between
  any two; stale files are stolen. Correct: one holder at a time, nobody's file
  is unlinked by mistake, a file left by a dead process goes away.
* **History.** The process may die before, during or after sending; answers
  and reports come late and out of order; the file is bounded. Correct: what
  the provider may be executing is in the journal and unresolved, an outcome
  that is recorded is a fact and never changes.
* **Pushes and restores.** Refreshes, runs, confirmations, shutdown and
  restarts interleave. Correct: no push over a push that may still be
  executing, no job that shows an end that is not a fact, a confirmation is used
  once and for what it showed, every push with a known operation ends.
* **Configuration and credentials.** Read-modify-write, two locks taken
  nested, a secret and a profile changed together. Correct: no lost update, no
  deadlock, the saved secrets are those saved with their profiles.
* **HTTP client and providers.** Deadlines race answers, retries race redirects;
  each provider has its own words, ids and pages. Correct: nothing that changes
  something is sent twice, a refusal changed nothing, an inventory that looks
  complete is, an id shown is the id acted on.
* **Setups.** A provider accepts work and drops it, or does it after HQ gave
  up; owners and other setups act on the same site. Correct: the report is
  true, what was there is preserved, temporary files go and those of a setup
  under way stay.
* **Dashboard, MCP, pages.** Requests, streams, caches and confirmations of
  several tabs. Correct: only the dashboard's own pages change anything, an
  answer comes and is true, one confirmation is one change.
* **Registries** (setup jobs, plans). Reservations become records after an
  `await`; everything is bounded. Correct: one run per target, no run is lost.

The hazards this leads to, each with its line and the properties about it, are
in `PROJECT.json`.

## 2. Plan

Done, in this order: the lock with its abstract mutex; the journal; pushes on
top of the journal; setup jobs; configuration and credentials on top of the
mutex; restores; HTTP client; provider operations and setups, installer, WHM;
provisioning; connections, child processes, sites service; MCP server; skills
and license; provider requests, bodies, inventories and sessions; hosting
commands and the install of a plugin; the dashboard's process, server, pages
and accounts; updates.

Left, the most valuable first:

1. Pushes of the command line and of MCP next to those of the dashboard.
2. MCP client set-up and relocation (`mcp/configuration.ts`, `relocation.ts`)
   and the registration of commands and agents (`agent-setup/`).
3. The order of temporary file, access control and rename
   (`config/atomic-write.ts`, `config/file-security.ts`).

## 3. Modules

Every module has its state as variables, one action per operation or per piece
of code between two awaits, and ends with its properties. Definitions called
"mutant" are wrong versions of the operator they precede; nothing uses them but
the question whether a property notices. The map in `PROJECT.json` names the
source lines of each definition.

### The lock and the journal

**ProfileLock** (`config/lock.ts`). The state is what processes share (the file
at `lockPath` by identity, the owner written in it, whether it is older than
`staleMs`, the claim file of each identity) and, per process, where it is and
what it remembers. Every system call another process can observe is one action:
`ListClaims`, `StatClaim`, `ReadClaim`, `SweepOwned`, `SweepUnlink` are
`recoveryInProgress`; `Create`, `Exists`, `Write`, `WriteFails`, `Confirm`,
`Release`, `Retry`, `TimeOut` are `acquire`; `Stat`, `Read` are `inspect`;
`LinkClaim` to `Unclaim` are `recover`; `ReleaseOwned` and `ReleaseUnlink` are
`releaseOwned`. `Crash` stops a process anywhere, `Age` lets `staleMs` pass.
Left out: locks of other hosts on a shared directory, process ids that are
reused, `heldKeys` (a check inside one process that fails at once).

Three constants name the conditions the protocol needs. `Stalls`: a process
may be suspended for a minute (`staleMs`) between creating its lock file and
writing it, or between two calls of a sweep. `ClaimantsCrash`: a process may
die between linking its claim and removing it. `InodeReuse`: the file system
may give a new file the inode of a file that somebody still remembers.
`Prompt` says that none of them happens.

**Mutex** is what the callers of `withLock` rely on: the set of processes that
run an operation under a key has at most one member. `ProfileLock` instantiates
it with the processes at `pc = "held"` (`ImplementsMutex`). `ConfigStore`,
`History` and the others take a lock in one step on the strength of it.

**History** (`history/index.ts`, `history/client.ts`, `operation-context.ts`).
A request has a journal row, a phase and what became of it at the provider. A
change of the journal is one action, since it runs under the lock and replaces
the file by a rename. `Begin` appends and drops a resolved row at the limit,
`BeginFails` covers a full journal and a failed write, `Send` is the provider's
answer or its loss - `RefusedLate` of a client that asks on after its write
(`AskingOn`) and is refused then - `Finish` and `FinishFails` record it, `Ask`, `Observe` and
`ObserveFails` are `operationStatus`, `EndFlow` is the end of a workflow.
`Kill` and `KillFlow` stop a process; the provider's steps are external. Left
out: redaction, the format checks of rows, the size limit, `attentionEntries`.

### Jobs of the dashboard

**PushExecution** (`web/services/push-execution.ts` and what a run calls)
EXTENDS `History`: a push is a request of the journal. `Take`, `CheckAsk`,
`CheckDone` and `CheckFails` are the workers of `refresh`, `PlanCall` to
`PlanGone` are `plan`, `LaunchRefused` and `Launch` the synchronous part of
`launch`, `RunCheck` to `RunGivesUp` the run. `Close` and `Closed` are
`shutdown`; `CrashDashboard` loses plans, jobs and runs, `Restart` starts with
none. A refresh works on its rows in any order, newest first in the code. One
dashboard runs at a time, and the command line and MCP send no pushes.

**SetupJobs** (`web/services/setup-jobs.ts`, the stream of
`web/handlers/setup.ts`): the registry, reservations, tasks, the clock and what
each page shows. `Reserve` is `start` up to its first `await`, `BeginJob` and
`ReserveFails` what follows it, `FinishJob`, `Shutdown`, `Drained`; `PageOpen`,
`PagePoll`, `PageClose` the stream. A random id is represented by its place in
the order of insertion, which the registry's `Map` keeps.

**Restore** (`web/services/restore.ts`, `hosting/backup-restore.ts`): an id is
one confirmation, from `PlanRestore` over `StartRestore` (which uses it up) to
`SendRestore`, `RestoreCompletes` or `RunFails`; destinations are edited
meanwhile. **Provisioning** (`provisioning/`): several setups and the owner act
on one site, a step is one command at the provider, and a command HQ gave up
may still run later (`LateCommand`). `via` says how a provider answers: with
output, with an exit status only, with a bare success that says nothing of
WP-CLI, or through an API of its own. That one (`ApiLooks` to `ApiTurnedOn`,
after `cpanel-toolkit-setup.ts`) decides once what it found and writes the
options many steps later without another look; nothing of it is atomic.

### Stores

**ConfigStore** (`config/profiles.ts`, `credentials/store.ts`,
`web/services/providers.ts`, `web/services/pushes.ts`, `cli/hosting/config.ts`):
tasks of two processes, of the dashboard and of the command line, add, replace
and remove profiles and pushes. `Submit` to
`Release` are the queues and nested locks, `Snapshot` to `Rollback` the
credential transaction, `Load`, `WriteDocument`, `WriteFails` the document,
`Forget` the clean-up after the lock, `Compare` and `Execute` the reviewed push
of MCP. `Crash` stops a process anywhere.

**OwnedSkills** (`agent-setup/owned-skills.ts`): one skill, windows of two
releases, a user who edits at any moment, failures and deaths.
**ProLicense** (`pro/service.ts`, `pro/php.ts`): key and metadata saved and put
back, a plan, and an installation that asks everything again before it acts on
a site that may have moved.

### Providers

**HttpClient** (`hosting/http-client.ts`): one call or poll with attempts,
redirects, waits and an abort on one clock. **ProviderOperations**
(`hosting/operations.ts`, `verified-action.ts`, `operationStatus` of each
client): what an answer means, and the wait. **ProviderSetups** (the four
`*-setup.ts` with an API) and **Installer** (`cpanel-installer-setup.ts`): the
installation of Novamira by upload, activation, helper plugin or temporary PHP
with lost and late requests. After activation WP Toolkit and Cloudways look at
the status only, so an old plugin may be the active one (`"old active"`). An
upload to File Manager that HQ gave up may arrive after the clean-up
(`LateUpload`), and a run unpacks file by file (`Unzip`), which makes a removed
directory again: it then holds `"remains"`. **WhmAccounts** (`whm.ts`, `whm-api.ts`,
`whm-session.ts`): the pool of workers that stop together, and the one-time
session. **ProviderRequests**, **ProviderBodies**,
**ProviderActions**: what every client does for every kind of request, as a
plan of checks, looks, comparisons and writes; which fields its bodies must
have and which flags the command line has for them; and one request executed
step by step with the error its step raises. **ProviderInventories**: listing
with pages while the account may change, details, and a request with an id
shown. **CpanelSites**: discovery of WordPress on a cPanel account.
**ProviderSessions**: tokens exchanged once for concurrent requests.

### Other programs

**SiteConnections** (`integration/connection.ts`, `connect.ts`, `profiles.ts`,
`verdict.ts`): a round over the site CLI's profiles under one deadline, and
Connect, while others use the CLI; the site of a status is optional, and without
it Connect compares nothing (`RightSite`). **ChildProcess** (`integration/spawn.ts`):
process group, pipe, two timers. **SitesService** (`web/services/sites.ts`):
the cache for one key, loads in flight, listings and checks. A load lists its
providers in turn (`ListsProvider`) and reads its time after the last
(`Dated`).
**McpServer** (`mcp/server.ts`): the chain of lines, plans, the push under the
route's lock.

### What faces the user

**HostingCommands** (`cli/hosting*`, `cli/flags.ts`, `cli/payloads.ts`): one row
of a grammar per command; a line is the command, the options given, one option
whose value is bad and the file of `--from-json`. `Parse` to `Poll` are the
order in which commander, `runHostingCommand`, the handler and the payload look
at it. **PluginInstall** is `wp plugins install`, with the provider's WP-CLI; the
answer may be an operation or bare (`answer = "bare"`).
**DashboardProcess** (`cli/dashboard.ts`, `listen` and `close` of
`web/server.ts`, `desktop/main.ts`): candidates for a port, preflight, bind,
conflict, probes, `--open`, and stopping. **WebServer**: one request through
`Receive`, `Route`, `Admit`, `Page`, `Asset`, `Begin`, `ReadBody`, `Act`,
`Follow`, `Drain`, with `HangUp` and `CloseAll` at any point. **PageActions**:
one row per button says how its handler differs from the others.
**AccountHandlers** (`web/handlers/providers.ts`): save, verify, review and
confirm from several tabs. **DesktopUpdates** (`update/desktop.ts`,
`notifier.ts`): checks of several processes with one record.

### MC modules

`MCInterface`, `MCProviders`, `MCHosting`, `MCDashboard` and `MCLive` are
suites: each EXTENDS the modules that belong together and has a variable `part`,
chosen in the initial state, that says whose steps are taken. The parts of a
suite share no state, so an interleaving of two parts shows nothing that the
parts alone do not, and a suite is the sum of its parts. `MCHistory`, `MCPushExecution` and
`MCConfigStore` name values for the constants of one module.

The type invariant of a suite is, for a part with a proof, the inductive
invariant that the proof rests on (section 6): TLC checks it where it can be
wrong cheaply.

Where two parts do share state they are taken apart only when the other's steps
are covered by a step of the environment: inventory rounds and Connect share
the site CLI's profiles, which `OtherCli` may change at any moment anyway. The
journal is one part twice: three requests that fill it with one answer under
way (`retention`), and two requests with two pollers (`polls`).

## 4. Runs

| Run | Question | Bounds |
|---|---|---|
| `interface_safety` | do the lock and what faces the user keep their promises | lock: 3 processes, 3 file identities, crashes outside of a recovery (`Prompt`); every hosting command with every set of its options and one bad value; every set of options of an install; 2 dashboards, 2 ports and a foreign program; 1 request at a time of every kind, 2 rounds of a live stream; 2 processes that check for updates, 3 callers, 1 step of the clock; every button |
| `providers_safety` | is the journal true, and do the clients do and say what they claim | 3 requests (2 in a workflow) with 2 rows, or 2 requests with 2 pollers; 12 kinds of operations, 5 units of time; 4 setups, 2 edits by the owner; every provider with every kind of request; 14 inventories of up to 3 sites, pages of 2; 2 domains and 2 installations of cPanel; 2 requests that share a session, 2 exchanges |
| `hosting_safety` | is the configuration kept, and are requests and installers safe | 3 tasks in 2 processes, of the dashboard and the command line, 2 secrets, every fault of `replace()`, crashes; 3 attempts, 2 redirects; 2 installer setups and visits; 3 accounts, 2 workers; 3 uploads |
| `dashboard_safety` | do the services keep what they promise while everything around them changes | 3 requests to the sites service with 2 providers; 2 profiles, 2 sites, 2 connects; 2 plans, 5 lines to MCP; 2 group members; 3 windows, 2 edits of a skill; 2 keys, 2 reviews; 3 targets, 2 job records; 2 pushes of one target and 1 older job; 2 setups on one site of 6 kinds (4 ways to be answered); 3 restores; 2 tabs, 2 connections |
| `push_live` | does a push whose operation is known end | 2 pushes, 1 worker, 2 jobs kept |
| `parts_live` | do locks, setups, children, listings and MCP lines come to an end | 2 lock processes with dying claimants, 2 setups with 1 record, 2 group members, 3 requests at one time of the clock, 4 lines |
| `lock_dead_claim` | violation: `MutualExclusion` | 2 processes, `ClaimantsCrash` |
| `history_room` | violation: `VerificationMakesRoom` | 3 requests, 2 rows |
| `push_check` | violation: `FailedCheckLeavesStatus` | 2 pushes |
| `config_forget` | violation: `StoredSecretExists` | 3 tasks |
| `sites_refresh` | violation: `RequestsAnswered` | 2 refreshes, nothing else |
| `account_mark` | violation: `MarkIsOfTheSaved` | 2 tabs |

What the properties of the passing runs say:

* `ImplementsMutex`: the file protocol is an abstract mutex. `CommandsKept`: a
  command that refuses its line has sent nothing and names something its
  grammar knows; what a provider is asked to change was wholly given and
  confirmed, whatever order the parser, the handler and the body are looked at
  in; an install that ends well has had an answer for all it was asked, and the
  plugin is there and active wherever an exit status or a probe said so. A bare
  answer is taken for success and proves neither. `DashboardHonest`: a port is held by whoever shows its address,
  `--open` fails only when no dashboard was there, and a terminal's dashboard
  leaves no run under way. `ServedAsAsked`: only requests of the dashboard's own
  pages reach a service, and a client that stays gets its whole answer.
  `UpdatesThrottled`: automatic checks, failed ones too, ask once per interval.
  `PressesAnswered`: a button says "ok" only of what was done, or of a push whose
  job was read and needs no verification, and always says something.
* `ActivityRecorded`, `TruthfulOutcome`, `OutcomeSticks`: the journal. A failure
  without an operation of a client that asks on after its write (`Mislabelled`)
  says nothing, and its row may be dropped.
  `AnswersHonest`: success and failure of operations and setups are said only
  on proof, with the exceptions below. `ActionsHonest`: a refused request changed nothing (with the
  exceptions below), a claimed one is served, a choice the operator made is
  sent. `InventoriesHonest`: a listing that looks whole is, and an id shown is
  the id acted on. `SessionShared`: one exchange for all who wait, no expired token, no
  failure of an earlier request.
* `OnceInTime`: a write goes out once, and in time. `CpanelHonest`: reports of
  the installer, listings of a server and the life of a session. `ProfilesKept`,
  `NoDeadlock`: the configuration and its locks. `SecretsKept`: a profile has the
  secret it was saved with, whoever saves, rolls back, forgets or dies; the two
  steps that can take one away are named (`exposed`): the dashboard's forgetting
  without the lock, and a `replace()` that threw after its change.
  `LiveUntouched`: clean-up spares a setup that goes on.
* `SitesHonest`: nothing kept was listed with an older configuration, and no
  listing is older than the round of calls whose end is shown as its time, which
  may be later than the listing itself; connections were seen as they are shown.
  `Preserves`: a setup that was not forced replaces no plugin that was there, and
  switches AI Abilities on only if asked or for its own plugin. Two kinds are not
  told of a refused installation and keep less (`Unaware`): one answered without
  exit statuses, and one through a provider's API.
* `ReviewedOnce`, `WholeOutput`, `SkillsPreserved`, `ProAsReviewed`,
  `RegistryKept`, `NoOverlap`, `HonestJob`, `RestoresAsConfirmed`,
  `RemovalAsReviewed`: as stated at each definition.
* The type invariants of the suites also hold what is counted to its limit.

Why the bounds are enough. Three lock processes are a holder or creator, a
recoverer and a third that sweeps or steals at the same time. A journal of two
rows with three requests is full while one of them is under way, and two polls
of one operation can overtake each other. With two confirmations of one target
every rule about another push to this target has its two pushes; crashes and
restarts are not bounded; one worker makes a row wait for another; the older job
fills the list, so that the second push makes room. Three setups and two records
make a reservation meet a full registry, with and without a finished record to
evict. Three configuration tasks are a queue with one waiting inside a process
and another process beside it. Three sites in pages of two are a full page, a
partial one and, when one is added or removed, an item that changes its page.
Two tabs and one plan are a full list of plans and a confirmation used twice.
One web client is enough since requests share nothing but the job they follow,
which ends at any moment. In `DesktopUpdates` the second process checks
automatically only, and an interval of one unit has a time before and after it.
Deadlock checking is off where a system may stop: all processes may die, every
request may be done.

### Disagreements with the code's own words

* `lock_dead_claim`: sweeping a dead recoverer's claim reads and unlinks by
  path and can remove the claim that a live recoverer linked meanwhile; two
  recoverers then pass, and two processes work under one key.
* `history_room`: rows of a workflow whose process died are never dropped, not
  even verified ones; the message about a full journal advises to verify them.
* `push_check`: a check that fails puts back the status the row had when the
  refresh read it, over a job that completed meanwhile.
* `config_forget`: the secret a change left behind is forgotten after the
  profile's lock was given up, when another change may have stored it again
  (`web/services/providers.ts:24`).
* `sites_refresh`: two refreshes of one inventory can each undo what the other
  loaded, for ever (`web/services/sites.ts:19`).
* `account_mark`: a check of an account that is answered after the account was
  saved anew or removed marks the name as checked
  (`web/services/providers.ts:315`).

### Notes from modelling

Not disagreements that a run states, but worth a reader's time:

* Lock: a process suspended for longer than `staleMs` between creating and
  writing its file can be confirmed next to a recoverer (the proofs assume
  `Prompt`); an inode number given out again defeats the identity check
  (`config/lock.ts:68`).
* `web/services/push-execution.ts:290`: a run counts as dispatched before it
  reads the environments again; when that read fails, a push that was neither
  recorded nor sent shows as uncertain and blocks its target until the
  dashboard restarts. Rows without an operation stay blocked by design (173).
* `web/services/setup-jobs.ts:433` orders jobs by wall clock, which may stand
  still or go back.
* `credentials/store.ts:499`: a `replace()` that throws after it wrote leaves
  nothing to roll back to.
* `wp plugins install --no-wait` still asks for and activates the plugin after
  the provider accepted the install (`cli/hosting/wp.ts:643` against 428-446).
* A provider that answers WP-CLI at once (Rocket.net `rocketnet.ts:284-308`, InstaWP
  `instawp.ts:316-331`) says HTTP 200 also when WP-CLI refused.
  `runWpCli` returns no status then (`provisioning/wp-cli.ts:223-226`), which
  `plugin.ts:425` reads as "not active" and `plugin.ts:473-490` as a success:
  an install or a setup may exit well with the plugin absent or inactive. A setup
  finds out only in its check of the site.
* The provider's own setups decide on AI Abilities when they begin and write the
  option many requests later (`cpanel-toolkit-setup.ts:236`, `311-320`): what the
  owner chose in between, also for a plugin of his own, is overwritten. After
  activation WP Toolkit and Cloudways look at the status and not the version
  (`cpanel-toolkit-setup.ts:304-309`, `cloudways-setup.ts:186-193`).
* The status page of a push paints the level "ok" for every job that needs no
  verification, also one that failed (`web/handlers/pushes.ts:197`); the words
  say that it failed.
* `cpanel-installer-setup.ts:259`: an upload that ran out of its two minutes may
  arrive after the clean-up, and a run that is unpacking makes its directory
  again. What is left is inert, but nobody names it.
* `web/services/sites.ts:354`: the time of an inventory is read after the last
  provider answered, so it may be later than the listing of the first.
  `integration/connect.ts:201-205`: a status without a site is taken for the site's.
* A task of InstaWP and a sandbox of SandyWP count as done in every state that
  is not known as running. `HonestProof` says so by name.
* `history/client.ts:121-132` takes some codes for a refusal. Plesk (backup, setup),
  cPanel and InstaWP (backup) may raise one when they ask on after they have
  written, and the row then says "failed" of a write that went through, and
  nobody is asked to verify it. `AsksOn` names them; `TruthfulOutcome` and
  `ActivityRecorded` except them (`Mislabelled`). `IdsFit` excludes the installations that Hostinger lists
  for a website (`hosting/providers/hostinger.ts:616-699`).
* The command line can never satisfy `sites clone` of Rocket.net, InstaWP and
  SandyWP; Pantheon drops `envs clone --source-env` (`cli/hosting/sites.ts:452`,
  `hosting/providers/pantheon.ts:741`); Pressable ignores the mode of a new
  site, Rocket.net, Cloudways and Hostinger that of a new environment; some
  served actions are not claimed. Capabilities are enforced in
  `backup-restore.ts:87`, `environment-push.ts:139` and `restore.ts:112` only.
  `envs push` has no `--yes`.
* xCloud stops silently after 100 pages, Hostinger after 2500 rows, Pantheon
  reads one page of memberships.
* `cli/hosting-command.ts:94-110` reads a profile and its secret without the
  lock. `wp.ts:402` and `:278` advise options that do not apply there.
* `desktop/main.ts:178` with `web/server.ts:1029`: the desktop's process exits
  when its listener closes, dropping runs that are still being cancelled.
* A check for updates that a user asked for and that joined an automatic one
  gets the automatic one's answer; two versions of HQ that share the record
  each ignore the other's.
* Removing an account with its sites may remove some connections and then keep
  the account. A page that cannot be painted after a done change is shown as a
  failure (`PressesAnswered` allows it by name).

## 5. Fairness

`ProfileLock!FairSpec`: weak fairness of every process's next call (`Run`), of
asking again (`Start`), and of time (`Age`). The operating system schedules
processes and the callers' operations end. Nothing forces a process to fail,
to give up or to die. That some process always gets the lock is not claimed: it
fails when processes are suspended again and again at the same place.

`PushExecution!FairPushSpec`: the run of a push goes on (`Run`, weak), the
workers of a refresh and its end go on (weak; these are promises of one
process), the timer starts refreshes that ask (strong: every 30 s
`startMonitoring` starts one unless another, perhaps one for a page, is under
way), the deadline of a run passes (strong), the provider finishes what it
started (weak), and of the checks that are made again and again some bring an
answer that can be saved (strong). The last is an assumption about the
network and the account. `Settles` also assumes that the dashboard stays up
from some time on: it follows pushes only while it runs.

`MCLive` states, per part, the fairness its module states. Setups: time passes,
promises settle, a page polls on; that a run ends once it is cancelled is an
assumption about `provisionNovamira`. Children: the pipe is read, the timers
fire, a member that does not ignore `SIGTERM` ends; nothing forces a member to
end by itself. Sites: loads and requests go on, which are promises of one
process. MCP: the chain of promises goes on; the client need not send anything.

## 6. Proofs

Run `tlapm` on the six modules whose name ends in `Proofs`. Every theorem is
about the specification of one module, for all values of its constants that
satisfy the module's named assumptions. These say that bounds are natural
numbers, that finite sets are finite and that names for "nothing" are not
values, and in a few places what the code's own constants guarantee: a request
of a session takes no longer than the margin by which it is renewed
(`SessionAssumption`), a setup and its last wait are over before its files count
as left behind (`InstallerAssumption`), the table of routes asks for the token
(`TableAssumption`). One is a limit the code does not enforce: an account fits
into the pages that are read at most (`InventoryAssumption`; see "What the
proofs changed"). Almost no property is inductive as it stands. The
invariant that is has a name in the model's module, and TLC checks it on a run.

### The lock and what faces the user (`InterfaceProofs`)

*Lock.* `TypeCorrect` needs no
condition. The others assume `Prompt`. `MutualExclusion` is not inductive: that
two processes do not hold the lock follows from the holder's file being on
disk, and that it stays there depends on what recoverers have in hand. `IInv`
adds: a creator is alone and its file is at `lockPath`, fresh and empty
(`CreatorAlone`); from confirmation to the end of release the file is the
process's own (`OwnerStays`); claim files and processes in recovery match one
to one (`ClaimsMatch`), which fails as soon as a claimant can die; what a
recoverer established about the file under its claim stays true
(`ClaimProtects`), which fails when an empty file may age under its creator;
and what is in hand where (`HandsMatch`), by which a new file differs from any
a recoverer remembers, unless inodes are reused. So each part of `Prompt` is
used, and dropping any of the three breaks `MutualExclusion`. `OneStealer` is
the core: two recoverers past the last check would own the same claim. Then
`MutualExclusionHolds`, `HolderOwnsLockHolds`, `StealsWhatItInspectedHolds`.
`ImplementsMutexHolds`: since a step moves one process (`OneMoves`), a step
that changes who holds the lock lets one process leave, or, by
`MutualExclusion` after it, enter while nobody else is in.

*Dashboard command.* `DashboardHonestHolds` by `DashInv`: what an invocation
remembers of ports was seen of a dashboard (`KnownPorts`), it has an address
exactly while it listens (`OneAddress`), a run it accepted is settled before it
leaves (`EndsItsRun`), and a port that is held is held by its listener
(`HeldByListener`).

*Updates.* `UpdatesThrottledHolds` by `UpdInv`: the record is the last answer
that was kept (`RecordOfLast`), which an automatic check has read by the time it
sends because checks take turns (`OneAtATime`), across HQs and within one.

*Buttons.* `PressesAnsweredHolds` by `PressInv`, for whatever the row of a button
says, the jobs that a status page reads included: until the page is painted nothing but neutral words were shown, and what
closes the stream is the last word.

*Requests.* `ServedAsAskedHolds` by `WebInv`: how far a request may be without
its checks (`GetsThere`), what it was told (`IsTold`), and that a followed job
that is over changes no more (`ToTheEnd`).

*Commands.* `CommandsHonestHolds` by `CmdInv`, for the whole grammar: before the
request nothing is sent (so a refusal has written nothing), past its step a
confirmation was given, ids are there, and a body has the fields its handler
asks for (`BodyGiven`). What is asked for the grammar accepts (`ProgramFits`):
one lemma per group of commands, whose rows are put together by `JoinFits`.

*Installs.* `InstallHonestHolds` by `PluginInv`: what a provider's operation
answered is what it carried out, and no later step is reached before a waited
install ends. Of a bare answer nothing follows but that it came.
`CommandsKeptHolds` is `CommandsHonest` and `InstallHonest`.

### The journal and pushes (`HistoryProofs`, `PushExecutionProofs`)

For any requests, workflows, polls and any limit, assuming
only that "no row" and "no poll" are not rows and polls. `JournalKept`: the
file has no row twice and stays within its limit, and its rows keep their types.
`TruthfulOutcome` alone is not inductive: `Finish` writes what is in `answer`,
`Observe` what is
in `poll`, so those must be true when taken and stay true until written
(`AnswerTrue`, `PollTrue`: an end at the provider is final); a failure of a client
that asks on is kept apart by its having no operation. `ActivityRecorded`
needs that retention finds no row of a request under way resolved:
`PendingRow` (until the answer is recorded the row is as `begin` wrote it and
its workflow is not over), `FlowVouches` (only a workflow that succeeded marks
its rows so) and `TruthfulOutcome` itself. `InsertDropsResolved` is the lemma
about retention. `OutcomeSticks` follows from `PendingRow`: `Finish` never
meets a row with an outcome.

`PushExecution` extends the journal, so its invariant `PushInv` contains the
journal's and each step is first shown to be a step or a stutter of it
(`JournalHolds`). `NoOverlap` looks at two pushes of one target; it needs that
an active run is alone with its target (`RunsAlone`), which a launch
establishes only because the rows it reads are true (`RefreshTrue`), are all
there (`RefreshFinds`), and because a confirmation starts one run (`RunsOnce`).
`HonestJob` follows from the same.

### Configuration and what uses the network (`HostingProofs`)

*Configuration.* `ProfilesKeptHolds` by `StoreInv`: who holds a name is who is
at its place in the queue and in the lock (`LocksHeld`, `QueuesRight`), every
task has the names its step needs (`CoursesRight`), and what a task has loaded
is what the file still says (`LoadedIsCurrent`), which is why nothing is lost.
`NoDeadlockHolds` rests on the order of the locks: of a group that waits take
one that waits for the configuration, or any if none does; whoever is first in
its queue waits for nobody in the group (`NobodyBlocked`). `SecretsKeptHolds`
adds `SecretsInv`: of a secret that is not `exposed`, a snapshot is of the one
the profile was saved with, and a new one is there until the transaction ends.
It needs no condition on the operations or the faults: an id becomes exposed by
the two steps themselves, and is no more once it is saved again. The run
`config_forget` shows what the first of them can do.

*Requests.* `OnceInTimeHolds` by `HttpInv`: requests sent are counted by the
attempts that may have been executed (`SentCounts`), and every wait ends before
the call does (`EndsInTime`).

*cPanel and WHM.* `CpanelHonestHolds` joins three specifications that share no
state. Reports by `InstInv` (`OkIsActive`, `Reported`, `NeverPlaced`: what was never
placed runs nowhere, and an upload is late only of that; `OkIsOver`: a run that
reports success unpacks no more, so nothing comes back after it). `LiveUntouchedHolds`, an
action property, needs times: a setup that goes on is within its deadline
(`InDeadline`), so its files are younger than what cleaning takes for left
behind (`YoungWhileLive`). Listings by `ListInv` (`TakenAreRead`, `LeavesLast`:
the pool is over when its last worker leaves), sessions by `SessInv`.

### The clients of the providers (`ProviderProofs`)

*Tokens.* `SessionSharedHolds` by `TokenInv`: an exchange under way is the one
that is shared and takes no longer than its limit (`ExchangesInTime`,
`PromiseSettles`), and what is kept or handed out has not run out (`KeptIsGood`,
`AskersInTime`).

*Operations.* `HonestProofHolds` by `OpInv`. Its work is `ClientsBelieve`: for
each of the twelve kinds of operation, no answer is read as success or failure
that does not say so, InstaWP and SandyWP apart, as the property says by name.

*Setups.* `HonestAnswersHolds` by `PsInv`: a completed setup, and one that goes
on to the abilities, has seen the plugin active since its last request
(`Shown`, which knows of an owner that sets the version back), nothing is requested after that, and a helper that is there is named
or about to be cleaned up. `AnswersHonestHolds` is both.

*Actions.* `ActionsHonestHolds` by `ActInv`, for every client, kind of request
and body. What is left of the plan of a request is such that nothing follows
its write but what may fail unnoticed (`WritesLast`, `OnlyTells`), so a request
that failed as a refusal does has not written; the clients of which this is not
true are those that `AsksOn` names. That every plan is of this kind is
`PlansThatAskOn`, one step per table of a client. `ClaimsPlanned`: what a client
claims it has a plan for. `ChoiceUnderstood`: the field of a flag is one the
client reads.

*Inventories.* `InventoriesHonestHolds` by `InventoryInv`, for any sizes of
pages and any account that is changed while it is listed. The account stays one
of distinct sites (`AccountKept`), every page but the last is full
(`PagesFull`), so the rows read are those of the account in its order
(`RowsInOrder`, `ListingRead`); an entry carries the ids its row makes
(`IdsMade`), and a request made with such an id reaches the environment it was
shown for (`IdsFit`). The lemmas are about lists: `OrderExists` and
`PickedInOrder` (a filter keeps just what it should, each once and in order),
`OwnRowsOfAccount` (what flattening the sites' rows gives, by induction over a
set of lengths), `RemoveAtFits`. Three clients need an argument of their own:
xCloud folds staging copies under their sites (`XCloudKeepsLive`,
`XCloudShowsOnce`), the agency counts (`AgencyShowsOnce`), and the clients whose
rows are installations list two for a site with a staging copy
(`InstallationsShowOnce`). What `IdsFit` leaves out of Hostinger, the theorem
leaves out by name, as the property does.

*Discovery.* The cPanel half by `DiscoveryInv`: the folders are those of the
domains, each once (`DomainRootsDistinct`), no name is another one with `www.`
(`WwwInjective`), so no installation is claimed by two folders
(`ClaimsDistinct`), and a folder that no installation claims shows itself alone.

### Services of the dashboard (`DashboardProofs`)

*MCP.* `ReviewedOnceHolds` by `McpInv`: the plan in hand is one that was issued
(`PlanInHand`), what was executed is no plan any more (`UsedUp`).
`McpTypeCorrect` holds the pools to their limits.
*Restores.* `RestoresAsConfirmedHolds` by `RestoreInv`: a started plan is gone
(`StartedIsGone`), what was sent was sent by its run (`SentByRun`).
*Children.* `WholeOutputHolds` by `ChildInv`: until an answer is decided, what
was read is all that was written less what the pipe holds (`KeptAsRead`).
*Skills.* `SkillsPreservedHolds` by `SkillsInv`: the lock's holder works alone
(`WorksAlone`), saw no file of the user's where it writes (`SawNoUserFile`),
and writes what it decided on what it saw (`StagesWhatItSaw`).
*License.* `ProAsReviewedHolds` by `ProInv`: the key in hand is the reviewed
one, activation comes first, a review ends where a save begins (`ReviewsOver`).
*Provisioning.* `PreservesHolds` by `ProvInv`: what a setup may change it found
missing or made itself (`FoundOrMine`), owners and late commands included. It is
of every run by itself (`RunOK`), so a step of one is a lemma (`ChangingKeeps`,
`ReadingKeeps`, `CommandPreserves`). `Unaware` runs are the exception it needs.
*Accounts.* `RemovalAsReviewedHolds` by `AccountInv`: nothing is removed of a
plan not yet confirmed (`NotYet`), a plan is used by one tab (`UsedByOne`), and
a site in hand is as it was shown or was moved by somebody (`AsShown`).
*Setup jobs.* For any finite set of targets and any limit. `Bounded` is not
inductive: that `evict` finds a finished record when the registry is full needs
`Capacity` (what runs and what is reserved fit into the registry together), and
that needs `RunsAreRunning` (the records that run are those of the tasks).
`EvictedFits` is the lemma about `evict`; `CountsAreFinite` lets the
cardinalities be counted. `Quiet` says that nothing is left once shutdown has
returned. Theorems: `RegistryKeptHolds` (`Bounded`, `RunsListed` and
`OneRunPerTarget` together), `OneRunPerTargetHolds`, `StopsForGoodHolds`.
*Sites.* `HonestInventoryHolds` by `SitesInv`: whatever is kept, handed on or
about to be returned is `Trusted` for the generation it belongs to, including
the previous entry that a load in flight remembers. `TrueConnectionsHolds` by
`ConnInv`: a verdict was seen while the round ran (`SeenOf`), and a Connect that
goes on has its own site, or a status that named none. `SitesHonestHolds` is both.

### The suites

A run of TLC checks a suite: one of several parts at a time, chosen at the start
(`part`), while the others rest. Its invariants are stated for the suite's
specification, and so are the theorems `InterfaceSuite`, `ProvidersSuite`,
`HostingSuite` and `DashboardSuite` with those of the types and what they stand
for (`InterfaceTypeOKHolds`, `CommandsKeptHolds`, `ProvidersTypeOKHolds`,
`ActionsHonestHolds`, `InventoriesHonestHolds`, `HostingTypeOKHolds`,
`DashboardTypeOKHolds`). Each rests on `PartsInv`, the invariants of all parts
together: the suite's start is each part's (`PartsStart`), and a step of the
suite is a step or a stutter of each (`PartsStep`). So every invariant of a
passing run has a theorem about that run's own specification. One has a
hypothesis: `ImplementsMutex` of `InterfaceSuite` needs `Prompt`, which the
run's constants satisfy.

The types of a part contain limits, and some are not a matter of one step.
That the version of the accounts' file stays within the number of tabs needs
the saves that are still to come counted (`SavesCounted`), that the requests
for updates stay within the number of calls the calls that have not asked yet
(`RequestsCounted`), and that no more is shown of a job than its ticks
(`ShownInTime`). TLC checks them as parts of the suites' type invariants.

### What the proofs changed in the models

* `Installer`: the wait after an answer that never came starts when the last part
  is removed (`since` in `RemovePart`), and what was never placed runs nowhere
  (`NeverPlaced`); both were found missing by the step that did not go through.
* Where several arms of a `CASE` could apply, TLA+ leaves the choice open and
  TLC takes the first, as the code does. The proofs need the code's order, so
  the arms exclude one another (`OwnedSkills`, `Installer`, `HostingCommands`)
  or are an `IF` chain (`SiteConnections`, `ProviderOperations`).
* `DesktopUpdates`: "never" is not a time (`UpdateAssumption`).
  `ProviderOperations`: only the twelve known kinds are waited for.

* `ProviderInventories` and `CpanelSites` filter lists by index (`Picked`) and
  `ProviderRequests` and `HostingCommands` join tables with a `++` of their own:
  the provers know no more of `SelectSeq`, `SetToSortSeq` and `@@` than their
  names. The grammar is joined in three parts, because a chain of all fourteen
  groups grows beyond the provers when it is expanded. `RolesNow` takes the
  account as a parameter, so that lemmas can speak of the account before and
  after a change.
* Named invariants were added for these proofs, and TLC checks them within the
  type invariants of the suites: `PlanKept`, `CmdInv`, `FoundInRoots`,
  `InventoryInv`, `SavesCounted`, `RequestsCounted`, `ShownInTime`.
* Assumptions that turned out to be needed: the tabs, the askers and the kinds
  that are counted are finite sets, `MaxExchanges` is a number, and an account
  with one site more than it began with fits into the pages that a listing reads
  at most (`2 * (MaxSites + 1) <= MaxPages * PageSize`). Beyond that limit the
  property is false of the code, as section 4 says of xCloud, Hostinger and
  Pantheon.

### Only model-checked

* **Liveness** under fairness (`push_live`, `parts_live`) and `ENABLED`.
* **Violations.** What the runs that expect a violation show is a trace of TLC.
* **Induction over data.** What a recursive definition computes for every input
  cannot be stated with an operator as a parameter. Where a proof needs it, the
  induction is over a set (`SetInduction`), and the lists are given by what
  their elements are (`Picked`) instead of by recursion.

## 7. Not modelled

The components with status `not_modelled` in `PROJECT.json`, each with its
reason, and what the notes of the others name:

* rendering (`web/views/`, `web/html.ts`, `web/expr.ts`, `web/signals.ts`),
  redaction and output are functions from a value to a text, without state;
* doctor's checks read and change nothing;
* keychains, access control lists, downloads and browsers are calls of the
  operating system, whose outcomes the modules above take as choices;
* the registration of commands and agents and the MCP client's configuration
  edit files of other programs one call at a time (plan, item 3);
* the shape of a provider's answer beyond what a property tells apart, the PHP
  the cPanel installer places beyond its steps, and texts.
