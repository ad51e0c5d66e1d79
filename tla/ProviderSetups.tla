--------------------------- MODULE ProviderSetups ---------------------------
(***************************************************************************)
(* Installing Novamira on a site whose provider has an API for it: WP      *)
(* Toolkit (cpanel-toolkit-setup.ts), Hostinger (hostinger-setup.ts),      *)
(* Cloudways (cloudways-setup.ts) and SandyWP (sandywp-setup.ts).  None of *)
(* them runs PHP: they upload, ask for activation and read back what the   *)
(* provider says, and every provider may answer before it has done the     *)
(* work, do it after the answer was lost, or not do it at all.  Hostinger  *)
(* is asked to activate a helper plugin of this run, which installs and    *)
(* activates Novamira and has to be removed afterwards.  The owner of the  *)
(* site may change the plugin while a setup runs.                          *)
(*                                                                         *)
(* An API's operations are waited for by ProviderOperations, with which    *)
(* this shares no state.                                                   *)
(* Versions are abstracted to old (below the minimum) and recent enough.   *)
(***************************************************************************)
EXTENDS ProviderOperations

CONSTANTS SetupHosts,  \* the kinds of setup explored
          OwnerEdits   \* bound on the changes the owner of the site makes

ASSUME SetupsAssumption ==
  OwnerEdits \in Nat /\ SetupHosts \subseteq {"toolkit", "hostinger", "cloudways", "sandywp"}

Answers3 == {"running", "ok", "failed"}
PluginStates == {"absent", "old", "old active", "inactive", "active"}
Old == {"old", "old active"}
HelperStates == {"none", "files", "active", "inactive"}
SetupSteps == {"look", "upload", "job", "installed", "turn on", "turned on",
               "ai", "put", "verify", "activate", "receipt", "off", "remaining", "end"}

VARIABLES wordpress,    \* what is true of the site: Novamira and its AI abilities
          helper,  \* the helper plugin of a Hostinger setup
          accepted,   \* what the provider accepted and has not carried out
          job,     \* how the provider reports the accepted upload
          deed,    \* the setup in progress
          ownerEdits,   \* how often the owner changed the plugin
          pluginShown    \* history: the plugin's states since the setup's last request

psVars == <<wordpress, helper, accepted, job, deed, ownerEdits, pluginShown>>

PsInit ==
  \E h \in SetupHosts, p \in PluginStates, on \in BOOLEAN,
     wants \in {"yes", "no", "default"} :
    /\ wordpress = [plugin |-> p, ai |-> on] /\ pluginShown = {p}
    /\ helper = "none" /\ accepted = {} /\ job = "none" /\ ownerEdits = 0
    /\ deed = [host |-> h, wants |-> wants, at |-> "look", answer |-> "running",
               ai |-> FALSE, named |-> FALSE, completed |-> FALSE]

\* The setup goes on at step s, or ends with an answer.
At(s) == deed.at = s /\ deed.answer = "running"
StepTo(s) == deed' = [deed EXCEPT !.at = s]
EndsWith(a) == deed' = [deed EXCEPT !.at = "end", !.answer = a]

\* A Hostinger setup that fails once it uploads names the directory of its
\* helper in the error, and cleans up when activation was attempted.
Thrown ==
  CASE deed.host = "hostinger" /\ deed.at \in {"activate", "receipt"} ->
         deed' = [deed EXCEPT !.at = "off", !.named = TRUE]
    [] deed.host = "hostinger" /\ deed.at \in {"put", "verify"} ->
         deed' = [deed EXCEPT !.at = "end", !.answer = "failed", !.named = TRUE]
    [] OTHER -> EndsWith("failed")

\* A write is answered, or its answer is lost with or without the write.
WriteRequest(effect, unchanged, s) ==
         \/ effect /\ (StepTo(s) \/ Thrown)
         \/ unchanged /\ Thrown

\* AI abilities are enabled when asked for, by default for a new install.
WantsAbilities(p) == deed.wants = "yes" \/ (deed.wants = "default" /\ p = "absent")

\* What the setup does about plugin state p, read from the inventory; d is the
\* setup so far.  SandyWP shows the plugin's directory only.
Decided(d, p) ==
  CASE p = "absent" \/ (p \in Old /\ d.host # "sandywp") ->
         [d EXCEPT !.at = "end", !.answer = "failed"]
    [] p = "inactive" /\ d.host # "sandywp" -> [d EXCEPT !.at = "turn on"]
    [] p = "active" /\ d.ai -> [d EXCEPT !.at = "ai"]
    [] OTHER -> [d EXCEPT !.at = "end", !.answer = "ok"]

\* The inventory is read before any write.  SandyWP cannot report a version, so
\* there any install is left alone; Hostinger needs its helper unless Novamira
\* is active and its AI abilities are not asked for.
LookAtSite ==
  /\ At("look")
  /\ LET p == wordpress.plugin
         d == [deed EXCEPT !.ai = WantsAbilities(p) /\ deed.host \in {"toolkit", "hostinger"}]
     IN deed' = CASE p = "absent" /\ d.host # "hostinger" -> [d EXCEPT !.at = "upload"]
                  [] p # "absent" /\ d.host = "sandywp" -> Decided(d, "absent")
                  [] p \notin Old /\ d.host = "hostinger" /\ (p # "active" \/ d.ai) ->
                       [d EXCEPT !.at = "put"]
                  [] OTHER -> Decided(d, p)
  /\ UNCHANGED <<wordpress, helper, accepted, job, ownerEdits>>

\* The archive is uploaded, once.
UploadPlugin ==
  /\ At("upload")
  /\ WriteRequest(accepted' = accepted \cup {"install"} /\ job' = "queued",
                  UNCHANGED <<accepted, job>>,
                  IF deed.host = "cloudways" THEN "installed" ELSE "job")
  /\ UNCHANGED <<wordpress, helper, ownerEdits>>

\* WP Toolkit and SandyWP report the job of an upload; Cloudways only shows the
\* plugin once it is there.
JobFinished ==
  /\ At("job") /\ job = "done"
  /\ StepTo("installed")
  /\ UNCHANGED <<wordpress, helper, accepted, job, ownerEdits>>

PluginRead == {wordpress.plugin}

Installed ==
  /\ At("installed")
  /\ \E p \in PluginRead : /\ deed.host = "cloudways" => p # "absent"
                           /\ deed' = Decided(deed, p)
  /\ UNCHANGED <<wordpress, helper, accepted, job, ownerEdits>>

TurnOn ==
  /\ At("turn on")
  /\ WriteRequest(accepted' = accepted \cup {"activate"}, UNCHANGED accepted, "turned on")
  /\ UNCHANGED <<wordpress, helper, job, ownerEdits>>

PluginActive == wordpress.plugin \in {"active", "old active"}

\* WP Toolkit looks once, Cloudways until the plugin is active.  Neither compares the
\* version again.
TurnedOn ==
  /\ At("turned on")
  /\ \/ PluginActive /\ deed' = Decided(deed, "active")
     \/ ~PluginActive /\ deed.host = "toolkit" /\ EndsWith("failed")
  /\ UNCHANGED <<wordpress, helper, accepted, job, ownerEdits>>

\* The two options are written and read back.
WriteAbilities ==
 /\ At("ai")
 /\ \/ wordpress' = [wordpress EXCEPT !.ai = TRUE] /\ (EndsWith("ok") \/ EndsWith("failed"))
    \/ UNCHANGED wordpress /\ EndsWith("failed")
 /\ UNCHANGED <<helper, accepted, job, ownerEdits>>

\* Hostinger: the archive and the helper are put into a directory of this run.
PutHelper ==
  /\ At("put")
  /\ WriteRequest(helper' = "files", UNCHANGED helper, "verify")
  /\ UNCHANGED <<wordpress, accepted, job, ownerEdits>>

\* The sizes of the uploaded files are verified before anything is activated.
VerifyHelper ==
  /\ At("verify") /\ StepTo("activate")
  /\ UNCHANGED <<wordpress, helper, accepted, job, ownerEdits>>

ActivateHelper ==
  /\ At("activate")
  /\ WriteRequest(accepted' = accepted \cup {"helper"}, UNCHANGED accepted, "receipt")
  /\ UNCHANGED <<wordpress, helper, job, ownerEdits>>

Receipt == helper = "active" /\ wordpress.plugin = "active"

HelperCompleted ==
        /\ At("receipt") /\ Receipt
        /\ deed' = [deed EXCEPT !.at = "off", !.completed = TRUE]
        /\ UNCHANGED <<wordpress, helper, accepted, job, ownerEdits>>

\* How the finally block leaves: with the answer of the setup, and a warning
\* that names the directory when it warned.
Cleaned(warned) ==
  deed' = [deed EXCEPT !.at = "end", !.named = @ \/ warned,
                       !.answer = IF deed.completed THEN "ok" ELSE "failed"]

\* The helper is deactivated, which may run its own removal or skip it.
HelperOff ==
  /\ At("off")
  /\ \/ /\ \/ helper' \in {"inactive", "none"} /\ helper # "none"
           \/ UNCHANGED helper
        /\ (StepTo("remaining") \/ Cleaned(TRUE))
     \/ UNCHANGED helper /\ Cleaned(TRUE)
  /\ UNCHANGED <<wordpress, accepted, job, ownerEdits>>

Remains(h) == h # "none"

\* What is left of it is looked up; an inactive helper is uninstalled.
HelperRemoved ==
  /\ At("remaining")
  /\ \/ helper # "active" /\ helper' \in {helper, "none"} /\ Cleaned(Remains(helper'))
     \/ helper = "active" /\ UNCHANGED helper /\ Cleaned(TRUE)
     \/ helper' \in {helper, "none"} /\ Cleaned(TRUE)
  /\ UNCHANGED <<wordpress, accepted, job, ownerEdits>>

\* Any read or poll may fail, be aborted or pass the deadline of five minutes.
GivesUp ==
  /\ deed.answer = "running"
  /\ deed.at \in {"look", "job", "installed", "turned on", "receipt", "verify"}
  /\ Thrown
  /\ UNCHANGED <<wordpress, helper, accepted, job, ownerEdits>>

\* The provider carries out what it accepted at any time, or fails to, and may
\* report an upload done that left nothing.
ProviderWorks ==
  \E a \in accepted :
    /\ accepted' = accepted \ {a}
    /\ \/ /\ a = "install"
          /\ \/ job' = "failed" /\ UNCHANGED wordpress
             \/ /\ job' = "done"
                /\ wordpress' \in [plugin : {wordpress.plugin, "inactive"} \cup
                                           (IF wordpress.plugin \in {"absent", "old active"}
                                              THEN {"active"} ELSE {}),
                                  ai : {wordpress.ai}]
          /\ UNCHANGED helper
       \/ /\ a = "activate"
          /\ wordpress' \in {wordpress,
                 [wordpress EXCEPT !.plugin = CASE @ = "inactive" -> "active"
                                                [] @ = "old" -> "old active" [] OTHER -> @]}
          /\ UNCHANGED <<helper, job>>
       \/ /\ a = "helper" /\ UNCHANGED job
          /\ \/ /\ helper \in {"files", "inactive"} /\ helper' = "active"
                /\ wordpress.plugin \notin Old
                /\ wordpress' = [plugin |-> "active", ai |-> wordpress.ai \/ deed.ai]
             \/ UNCHANGED helper /\ wordpress' \in {wordpress, [wordpress EXCEPT !.plugin =
                                                          IF @ = "absent" THEN "inactive" ELSE @]}
    /\ UNCHANGED <<deed, ownerEdits>>

\* The owner installs, updates, deactivates or deletes Novamira; its options
\* stay.
OwnerEdit ==
  /\ ownerEdits < OwnerEdits /\ ownerEdits' = ownerEdits + 1
  /\ \E p \in PluginStates \ {wordpress.plugin} :
       wordpress' = [wordpress EXCEPT !.plugin = p]
  /\ UNCHANGED <<helper, accepted, job, deed>>

PsNext ==
  /\ \/ LookAtSite \/ UploadPlugin \/ JobFinished \/ Installed \/ TurnOn \/ TurnedOn
     \/ WriteAbilities \/ PutHelper \/ VerifyHelper \/ ActivateHelper \/ HelperCompleted
     \/ HelperOff
     \/ HelperRemoved \/ GivesUp \/ ProviderWorks \/ OwnerEdit
  /\ pluginShown' = {wordpress'.plugin}
       \cup IF accepted' \subseteq accepted THEN pluginShown ELSE {}

PsSpec == PsInit /\ [][PsNext]_psVars

-----------------------------------------------------------------------------
(* Properties *)

\* Type invariant.
PsTypeOK ==
  /\ wordpress \in [plugin : PluginStates, ai : BOOLEAN]
  /\ helper \in HelperStates
  /\ accepted \subseteq {"install", "activate", "helper"}
  /\ job \in {"none", "queued", "done", "failed"}
  /\ deed \in [host : SetupHosts, wants : {"yes", "no", "default"}, at : SetupSteps,
               answer : Answers3, ai : BOOLEAN, named : BOOLEAN, completed : BOOLEAN]
  /\ ownerEdits \in 0..OwnerEdits /\ pluginShown \subseteq PluginStates

\* A setup says it worked only of a site that, after everything the setup asked
\* for, had a recent enough Novamira - active, except on SandyWP, which cannot
\* tell, and recent except on WP Toolkit and Cloudways, when its owner went back to
\* an old version after it was compared - and with its AI abilities on when they
\* are asked for: not when the provider accepted the work and dropped it, and not
\* when the owner activated an existing install that the helper never touched
\* (cpanel-toolkit-setup.ts 281-320, hostinger-setup.ts 309-330).
Shown ==
  \/ "active" \in pluginShown
  \/ "old active" \in pluginShown /\ ownerEdits > 0 /\ deed.host \in {"toolkit", "cloudways"}
ProvenSetups ==
  deed.answer = "ok" =>
    /\ Shown \/ (deed.host = "sandywp" /\ pluginShown # {"absent"})
    /\ deed.ai => wordpress.ai

\* When a Hostinger setup has ended, its helper is gone from the site or the
\* warnings or the error name its directory, although each of the requests that
\* remove it may fail and each of the provider's answers be late
\* (hostinger-setup.ts 331-386).
HelperNamed ==
  deed.answer # "running" /\ helper # "none" => deed.named

\* What a setup through a provider's API says, of the site and of what it left
\* there, is true.
HonestAnswers == ProvenSetups /\ HelperNamed

\* Success and failure are said only of what a provider said or did: of its
\* operations (hosting/operations.ts) and of the setups on its sites.
AnswersHonest == HonestProof /\ HonestAnswers

\* What it rests on: only Hostinger has a helper, which is named or about to be
\* cleaned up; an active plugin that was seen after the last request is what a
\* setup ends well with; nobody but the owner brings an old one.
HelperSteps == {"put", "verify", "activate", "receipt", "off", "remaining"}
PsInv ==
  /\ PsTypeOK
  /\ deed.answer = "running" <=> deed.at # "end"
  /\ wordpress.plugin \in pluginShown
  /\ ownerEdits = 0 /\ deed.at \notin {"look", "end"} => wordpress.plugin \notin Old
  /\ deed.at = "look" => helper = "none" /\ accepted = {} /\ ~deed.ai
  /\ deed.at \in HelperSteps => deed.host = "hostinger"
  /\ deed.at \in {"turn on", "turned on"} => deed.host \in {"toolkit", "cloudways"}
  /\ deed.host = "hostinger" => deed.at \in HelperSteps \cup {"look", "end"}
  /\ helper # "none" => deed.host = "hostinger" /\ (deed.named \/ deed.at \in HelperSteps)
  /\ deed.ai => deed.host \in {"toolkit", "hostinger"}
  /\ helper = "active" /\ deed.ai => wordpress.ai
  /\ deed.at = "ai" => Shown
  /\ deed.completed => /\ deed.at \in {"off", "remaining", "end"} /\ Shown
                       /\ deed.ai => wordpress.ai
  /\ HonestAnswers
=============================================================================
