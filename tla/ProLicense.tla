----------------------------- MODULE ProLicense -----------------------------
(***************************************************************************)
(* The Novamira Pro license and its installation on a site                 *)
(* (src/pro/service.ts, src/pro/php.ts): the stored key and the last4 file *)
(* beside it, saved and removed under a profile lock by any process; the   *)
(* confirmations of one dashboard; the license service and the site, where *)
(* a site CLI profile name may be connected to another site at any moment. *)
(***************************************************************************)
EXTENDS Naturals, FiniteSets

CONSTANTS LicenseKeys,
          Domains,   \* of the WordPress sites
          Saves,     \* calls of save() and remove()
          Reviews,   \* confirmations, each given out once (randomUUID)
          MaxMoves   \* bound: times the profile is connected elsewhere

ASSUME ProAssumption == {"none", "installed"} \cap LicenseKeys = {} /\ MaxMoves \in Nat

VARIABLES
  stored,   \* the key in the credential store, or "none"
  shownKey,    \* the key whose last four characters the metadata file holds
  saving,   \* saving[s]: [at, key, prior]
  damaged,  \* a save died half-way, or its rollback failed
  bound,    \* the domain the profile of the chosen site is connected to
  moves,
  proReview,   \* review[i]: [at, key, domain]; what the user saw and confirmed
  installWork,     \* work[i]: [key, url], what the installation itself read
  licensed, \* [review, key, domain] of every activation
  pro       \* pro[d]: "none" | "installed" | the key configured there

saveVars == <<stored, shownKey, saving, damaged>>
installVars == <<proReview, installWork, licensed, pro>>
proVars == <<saveVars, bound, moves, installVars>>

Stored == LicenseKeys \cup {"none"}

ProInit ==
  /\ stored \in Stored /\ shownKey = stored /\ damaged = FALSE
  /\ saving = [s \in Saves |-> [at |-> "idle", key |-> "none", prior |-> "none"]]
  /\ bound \in Domains /\ moves = 0
  /\ \E d \in Domains :
       /\ proReview = [i \in Reviews |-> [at |-> "idle", key |-> "none", domain |-> d]]
       /\ installWork = [i \in Reviews |-> [key |-> "none", url |-> d]]
  /\ licensed = {} /\ pro = [d \in Domains |-> "none"]

(***************************************************************************)
(* save() and remove(): the credential first, then the metadata, with the  *)
(* credential put back when the metadata cannot be written.  Afterwards    *)
(* the dashboard that saved drops its own confirmations, another does not. *)
(***************************************************************************)
InSave == {s \in Saves : saving[s].at \in {"replace", "metadata"}}

SaveBegins(s) ==
  /\ saving[s].at = "idle" /\ InSave = {}
  /\ \E k \in Stored :
       saving' = [saving EXCEPT ![s] = [at |-> "replace", key |-> k, prior |-> "none"]]
  /\ UNCHANGED <<stored, shownKey, damaged, bound, moves, installVars>>

ReplaceKey(s) ==
  /\ saving[s].at = "replace"
  /\ \/ /\ stored' = saving[s].key
        /\ saving' = [saving EXCEPT ![s].at = "metadata", ![s].prior = stored]
     \/ /\ saving' = [saving EXCEPT ![s].at = "over"] /\ UNCHANGED stored \* refused
  /\ UNCHANGED <<shownKey, damaged, bound, moves, installVars>>

\* plans.clear() forgets the confirmations that were not taken yet.
Cleared == [i \in Reviews |->
              IF proReview[i].at = "planned"
              THEN [proReview[i] EXCEPT !.at = "over"] ELSE proReview[i]]

WriteMetadata(s) ==
  /\ saving[s].at = "metadata"
  /\ shownKey' = saving[s].key
  /\ saving' = [saving EXCEPT ![s].at = "over"]
  /\ proReview' \in {proReview, Cleared} \* another process, or this dashboard
  /\ UNCHANGED <<stored, damaged, bound, moves, installWork, licensed, pro>>

PutBack(s) == saving[s].prior

MetadataFails(s) ==
  /\ saving[s].at = "metadata"
  /\ stored' = PutBack(s)
  /\ saving' = [saving EXCEPT ![s].at = "over"]
  /\ UNCHANGED <<shownKey, damaged, bound, moves, installVars>>

SaveDies(s) ==
  /\ saving[s].at \in {"replace", "metadata"}
  /\ saving' = [saving EXCEPT ![s].at = "over"]
  /\ damaged' = (damaged \/ saving[s].at = "metadata")
  /\ UNCHANGED <<stored, shownKey, bound, moves, installVars>>

\* The profile is connected to another site, here or by the site CLI.
Moves ==
  /\ moves < MaxMoves /\ moves' = moves + 1
  /\ bound' \in Domains \ {bound}
  /\ UNCHANGED <<saveVars, installVars>>

ToReview(i, label) == proReview' = [proReview EXCEPT ![i].at = label]
Elsewhere == UNCHANGED <<saveVars, bound, moves>>

\* plan(): the key, the profile's address, then the site's own answer.
PlanReadsKey(i) ==
  /\ proReview[i].at = "idle" /\ stored # "none"
  /\ proReview' = [proReview EXCEPT ![i].at = "lists", ![i].key = stored]
  /\ Elsewhere /\ UNCHANGED <<installWork, licensed, pro>>

PlanLists(i) ==
  /\ proReview[i].at = "lists"
  /\ proReview' = [proReview EXCEPT ![i].at = "asks", ![i].domain = bound]
  /\ Elsewhere /\ UNCHANGED <<installWork, licensed, pro>>

PlanAsks(i) ==
  /\ proReview[i].at = "asks"
  /\ ToReview(i, IF bound = proReview[i].domain THEN "planned" ELSE "over")
  /\ Elsewhere /\ UNCHANGED <<installWork, licensed, pro>>

ReviewExpires(i) ==
  /\ proReview[i].at = "planned" /\ ToReview(i, "over")
  /\ Elsewhere /\ UNCHANGED <<installWork, licensed, pro>>

Installing == {i \in Reviews : proReview[i].at \in
                 {"key", "relist", "reask", "activate", "download", "unpack", "configure"}}

NotBusy == Installing = {} \* busy: the reviews are all of one site

\* install() takes the confirmation, whatever happens next.
TakeReview(i) ==
  /\ proReview[i].at = "planned"
  /\ ToReview(i, IF NotBusy THEN "key" ELSE "over")
  /\ Elsewhere /\ UNCHANGED <<installWork, licensed, pro>>

\* Mutant of SameKey: the key is not compared with the one reviewed.
SameKeyAlways(i) == TRUE

SameKey(i) == stored = proReview[i].key \* the fingerprints

ReadKey(i) ==
  /\ proReview[i].at = "key"
  /\ installWork' = [installWork EXCEPT ![i].key = stored]
  /\ ToReview(i, IF stored # "none" /\ SameKey(i) THEN "relist" ELSE "over")
  /\ Elsewhere /\ UNCHANGED <<licensed, pro>>

Relist(i) ==
  /\ proReview[i].at = "relist"
  /\ installWork' = [installWork EXCEPT ![i].url = bound] /\ ToReview(i, "reask")
  /\ Elsewhere /\ UNCHANGED <<licensed, pro>>

Reask(i) ==
  /\ proReview[i].at = "reask"
  /\ ToReview(i, IF bound = installWork[i].url /\ installWork[i].url = proReview[i].domain
                 THEN "activate" ELSE "over")
  /\ Elsewhere /\ UNCHANGED <<installWork, licensed, pro>>

\* A lost answer is not retried: the license may be active all the same.
ActivateLicense(i) ==
  /\ proReview[i].at = "activate"
  /\ \/ /\ licensed' = licensed \cup
                         {[review |-> i, key |-> installWork[i].key,
                            domain |-> proReview[i].domain]}
        /\ \E label \in {"download", "over"} : ToReview(i, label)
     \/ ToReview(i, "over") /\ UNCHANGED licensed \* not accepted
  /\ Elsewhere /\ UNCHANGED <<installWork, pro>>

SignedDownload(i) ==
  /\ proReview[i].at = "download"
  /\ \E label \in {"unpack", "over"} : ToReview(i, label)
  /\ Elsewhere /\ UNCHANGED <<installWork, licensed, pro>>

\* Both programs refuse to run when the site is not the reviewed one.
AtReviewedSite(i) == bound = proReview[i].domain

InstallPro(i) ==
  /\ proReview[i].at = "unpack"
  /\ \/ /\ AtReviewedSite(i)
        /\ pro' = [pro EXCEPT ![bound] = IF @ = "none" THEN "installed" ELSE @]
        /\ \E label \in {"configure", "over"} : ToReview(i, label)
     \/ ToReview(i, "over") /\ UNCHANGED pro
  /\ Elsewhere /\ UNCHANGED <<installWork, licensed>>

ConfigurePro(i) ==
  /\ proReview[i].at = "configure"
  /\ \/ AtReviewedSite(i) /\ pro' = [pro EXCEPT ![bound] = installWork[i].key]
     \/ UNCHANGED pro
  /\ ToReview(i, "over")
  /\ Elsewhere /\ UNCHANGED <<installWork, licensed>>

SaveStep(s) ==
  SaveBegins(s) \/ ReplaceKey(s) \/ WriteMetadata(s) \/ MetadataFails(s) \/ SaveDies(s)

InstallStep(i) ==
  \/ PlanReadsKey(i) \/ PlanLists(i) \/ PlanAsks(i) \/ ReviewExpires(i) \/ TakeReview(i)
  \/ ReadKey(i) \/ Relist(i) \/ Reask(i) \/ ActivateLicense(i) \/ SignedDownload(i)
  \/ InstallPro(i) \/ ConfigurePro(i)

ProNext == Moves \/ (\E s \in Saves : SaveStep(s)) \/ (\E i \in Reviews : InstallStep(i))

ProSpec == ProInit /\ [][ProNext]_proVars

ProTypeOK ==
  /\ stored \in Stored /\ shownKey \in Stored /\ damaged \in BOOLEAN
  /\ saving \in [Saves -> [at : {"idle", "replace", "metadata", "over"},
                           key : Stored, prior : Stored]]
  /\ bound \in Domains /\ moves \in 0..MaxMoves
  /\ proReview \in [Reviews ->
          [at : {"idle", "lists", "asks", "planned", "key", "relist", "reask", "activate",
                 "download", "unpack", "configure", "over"}, key : Stored, domain : Domains]]
  /\ installWork \in [Reviews -> [key : Stored, url : Domains]]
  /\ licensed \subseteq [review : Reviews, key : LicenseKeys, domain : Domains]
  /\ pro \in [Domains -> Stored \cup {"installed"}]

(***************************************************************************)
(* What the property below rests on: an installation works with the        *)
(* reviewed key from its comparison on, and from the activation on that    *)
(* key is active at the reviewed domain; a license belongs to a review     *)
(* that can no longer change; one installation and one save at a time; and *)
(* a save between its two files knows what the metadata still shows.       *)
(***************************************************************************)
KeyAsReviewed ==
  \A i \in Reviews :
    proReview[i].at \in {"relist", "reask", "activate", "download", "unpack", "configure"} =>
      installWork[i].key = proReview[i].key /\ installWork[i].key \in LicenseKeys
ActiveFirst ==
  \A i \in Reviews : proReview[i].at \in {"download", "unpack", "configure"} =>
    [review |-> i, key |-> installWork[i].key, domain |-> proReview[i].domain] \in licensed
ReviewsOver ==
  \A l \in licensed : proReview[l.review].at \in {"download", "unpack", "configure", "over"}
OneAtATime ==
  /\ \A i, j \in Installing : i = j
  /\ \A s, t \in InSave : s = t
ShownInBetween ==
  /\ \A s \in Saves : saving[s].at = "metadata" =>
       stored = saving[s].key /\ (~damaged => saving[s].prior = shownKey)
  /\ ~damaged /\ (\A s \in Saves : saving[s].at # "metadata") => shownKey = stored

LicensedAsReviewed ==
  \A l \in licensed : l.key = proReview[l.review].key /\ l.domain = proReview[l.review].domain
ProWhereLicensed ==
  \A d \in Domains :
    /\ pro[d] # "none" => \E l \in licensed : l.domain = d
    /\ pro[d] \in LicenseKeys => \E l \in licensed : l.domain = d /\ l.key = pro[d]

(***************************************************************************)
(* A license is activated only for the key and the domain the user         *)
(* reviewed, a site gets Pro only where that happened and is configured    *)
(* only with a key that is active there, one installation runs at a time,  *)
(* and whenever no save is under way and none was cut off, the last four   *)
(* characters the dashboard shows are those of the stored key.             *)
(***************************************************************************)
ProAsReviewed ==
  /\ LicensedAsReviewed /\ ProWhereLicensed
  /\ Cardinality(Installing) <= 1
  /\ (InSave = {} /\ ~damaged) => shownKey = stored

ProInv ==
  /\ ProTypeOK /\ KeyAsReviewed /\ ActiveFirst /\ ReviewsOver /\ OneAtATime /\ ShownInBetween
  /\ LicensedAsReviewed /\ ProWhereLicensed
=============================================================================
