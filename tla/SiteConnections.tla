-------------------------- MODULE SiteConnections --------------------------
(***************************************************************************)
(* What the dashboard says about the connection of sites, and the Connect  *)
(* action (integration/profiles.ts, connection.ts, connect.ts, verdict.ts).*)
(* The site CLI owns the profiles; HQ only runs it, one child at a time or *)
(* a few from a pool, while the operator and other HQs run it too.  A      *)
(* profile is the site it is for and whether its credential is usable.     *)
(* The sites service (SitesService) shows both on one page; they share no  *)
(* state.                                                                  *)
(***************************************************************************)
EXTENDS SitesService

CONSTANTS Names,        \* names of site CLI profiles
          Sites,        \* the sites, one environment each
          Lanes,        \* the pool's concurrency
          Connects,     \* Connect actions, each pressed once
          Absent,       \* no profile of this name
          NoName        \* Connect without a name of the operator's

ASSUME ConnectionsAssumption ==
  /\ Lanes \in Nat \ {0} /\ IsFiniteSet(Names)
  /\ NoName \notin Names /\ Absent \notin Sites

VARIABLES
  profileSite,      \* Names -> Sites or Absent: the CLI's profiles
  usable,    \* the names whose credential works
  round,     \* the inventory: "idle" "listing" "asking" "answered"
  listed,    \* its `sites list`: Names -> Sites or Absent
  askedNames,     \* the names a lane has taken
  verdict,   \* Names -> what their `auth status` came to
  roundLate,      \* whether the round's deadline has passed
  shownConnection,    \* Sites -> the connection shown
  seen,      \* Names -> the credentials they had since the round began
  connect    \* the Connect actions: [at, site, name, proof]

cVars == << profileSite, usable, round, listed, askedNames, verdict, roundLate,
            shownConnection, seen, connect >>
cliVars   == << profileSite, usable >>
roundVars == << round, listed, askedNames, verdict, roundLate, shownConnection >>

Verdicts == {"connected", "reconnect_required", "unreachable", "unknown"}
States   == {"connected", "reconnect_required", "unavailable", "not_configured"}

Credential(n) == IF profileSite[n] = Absent THEN "absent"
                 ELSE IF n \in usable THEN "usable" ELSE "unusable"

(* What was seen of the profiles grows with every step that changes them.  *)
Watches ==
  seen' = [n \in Names |->
             IF round' = "idle" THEN {}
             ELSE (IF round = "idle" THEN {Credential(n)} ELSE seen[n])
                    \cup {Credential(n)'}]

CInit ==
  /\ profileSite \in [Names -> Sites \cup {Absent}]
  /\ usable \in SUBSET {n \in Names : profileSite[n] # Absent}
  /\ round = "idle" /\ listed = [n \in Names |-> Absent] /\ askedNames = {}
  /\ verdict = [n \in Names |-> "none"] /\ roundLate = FALSE
  /\ shownConnection = [s \in Sites |-> "none"]
  /\ seen = [n \in Names |-> {}]
  /\ connect = [c \in Connects |->
       [at |-> "idle", site |-> Absent, name |-> NoName, proof |-> "none"]]

-----------------------------------------------------------------------------
(* The site CLI, run by anyone: login, logout or expiry, remove, rename.   *)

Sets(n, s, works) ==
  /\ profileSite' = [profileSite EXCEPT ![n] = s]
  /\ usable' = IF works THEN usable \cup {n} ELSE usable \ {n}

OtherCli ==
  /\ \E n \in Names :
       \/ \E s \in Sites : profileSite[n] \in {Absent, s} /\ Sets(n, s, TRUE)
       \/ n \in usable /\ Sets(n, profileSite[n], FALSE)
       \/ profileSite[n] # Absent /\ Sets(n, Absent, FALSE)
       \/ \E m \in Names :
            /\ profileSite[n] # Absent /\ profileSite[m] = Absent
            /\ profileSite' = [profileSite EXCEPT ![m] = profileSite[n], ![n] = Absent]
            /\ usable' = IF n \in usable THEN (usable \ {n}) \cup {m} ELSE usable
  /\ UNCHANGED << roundVars, connect >>

-----------------------------------------------------------------------------
(* siteInventory(): listProfiles() and connectionsFromProfiles().          *)

RoundBegins ==
  /\ round = "idle" /\ round' = "listing"
  /\ UNCHANGED << cliVars, listed, askedNames, verdict, roundLate, shownConnection, connect >>

RoundDeadline ==
       /\ round \in {"listing", "asking"} /\ ~roundLate /\ roundLate' = TRUE
       /\ UNCHANGED << cliVars, round, listed, askedNames, verdict, shownConnection, connect >>

\* `sites list` answers; the profiles are asked about from here on.
ListAnswers ==
  /\ round = "listing" /\ ~roundLate
  /\ listed' = profileSite /\ round' = "asking"
  /\ UNCHANGED << cliVars, askedNames, verdict, roundLate, shownConnection, connect >>

\* It does not: every connection is unavailable.
ListFails ==
  /\ round = "listing"
  /\ shownConnection' = [s \in Sites |-> "unavailable"] /\ round' = "answered"
  /\ UNCHANGED << cliVars, listed, askedNames, verdict, roundLate, connect >>

Profiles == {n \in Names : listed[n] # Absent}

\* A lane takes the next profile.
TakeName(n) ==
      /\ round = "asking" /\ n \in Profiles \ askedNames
      /\ Cardinality({m \in askedNames : verdict[m] = "none"}) < Lanes
      /\ askedNames' = askedNames \cup {n}
      /\ UNCHANGED << cliVars, round, listed, verdict, roundLate, shownConnection, connect >>

\* stateFor(verdictFor(...)): the site may also not answer, or in no known form.
VerdictRead(n) ==
         CASE Credential(n) = "absent"   -> {"unknown"}
           [] Credential(n) = "usable"   -> {"connected", "unreachable", "unknown"}
           [] Credential(n) = "unusable" -> {"reconnect_required", "unknown"}

\* `auth status` ends, or is not started, or is killed, at the deadline.
StatusAnswers(n) ==
  /\ n \in askedNames /\ verdict[n] = "none"
  /\ \E v \in IF roundLate THEN {"unknown"} ELSE VerdictRead(n) :
       verdict' = [verdict EXCEPT ![n] = v]
  /\ UNCHANGED << cliVars, round, listed, askedNames, roundLate, shownConnection, connect >>

Matched(s) == {n \in Profiles : listed[n] = s}

\* Any connected profile wins, then any that wants authorizing again.
Summary(s) ==
  LET vs == {verdict[n] : n \in Matched(s)} IN
  IF vs = {} THEN "not_configured"
  ELSE IF "connected" \in vs THEN "connected"
  ELSE IF "reconnect_required" \in vs THEN "reconnect_required"
  ELSE "unavailable"

RoundAnswers ==
  /\ round = "asking" /\ \A n \in Profiles : verdict[n] # "none"
  /\ shownConnection' = [s \in Sites |-> Summary(s)] /\ round' = "answered"
  /\ UNCHANGED << cliVars, listed, askedNames, verdict, roundLate, connect >>

-----------------------------------------------------------------------------
(* createConnectAction().  `proof` notes what the action saw: "site", a    *)
(* usable profile of this very site, or one it made; "profile", a usable   *)
(* profile of a site that its status did not name.                         *)

Presses(c, s, n) ==
  /\ connect[c].at = "idle"
  /\ connect' = [connect EXCEPT ![c] =
       [at |-> "finding", site |-> s, name |-> n, proof |-> "none"]]
  /\ UNCHANGED << cliVars, roundVars >>

\* existingProfile(): one of the site's profiles, the asked one if it can be.
Existing(c) ==
  LET matches == {n \in Names : profileSite[n] = connect[c].site} IN
  IF connect[c].name \in matches THEN {connect[c].name}
  ELSE IF matches # {} THEN matches ELSE {connect[c].name}

Finds(c) ==
  /\ connect[c].at = "finding"
  /\ \E n \in Existing(c) \cup {connect[c].name} :   \* the listing may fail
       connect' = [connect EXCEPT ![c].name = n,
                     ![c].at = IF n = NoName THEN "login" ELSE "checking"]
  /\ UNCHANGED << cliVars, roundVars >>

\* Mutant of RightSite: the site in the status is not compared.
RightSiteAny(c, named) == TRUE

\* The status need not name the profile's site; the site it names is the action's.
RightSite(c, named) == named => profileSite[connect[c].name] = connect[c].site

\* What a status of a usable profile shows.
Proof(c, named) ==
  IF profileSite[connect[c].name] = connect[c].site THEN "site"
  ELSE IF named THEN "none" ELSE "profile"

\* `auth status` of the chosen profile decides whether to log in.
Checks(c) ==
  LET n == connect[c].name IN
  /\ connect[c].at = "checking"
  /\ \/ connect' = [connect EXCEPT ![c].at = "failed"]     \* no answer
     \/ /\ profileSite[n] = Absent
        /\ connect' = [connect EXCEPT ![c].at = "login"]
     \/ \E named \in BOOLEAN :
          /\ profileSite[n] # Absent
          /\ connect' =
               IF ~RightSite(c, named) THEN [connect EXCEPT ![c].at = "failed"]
               ELSE IF n \in usable
               THEN [connect EXCEPT ![c].at = "connected", ![c].proof = Proof(c, named)]
               ELSE [connect EXCEPT ![c].at = "login"]
  /\ UNCHANGED << cliVars, roundVars >>

(* `auth login`: the operator approves in the browser and the CLI writes   *)
(* the profile, under its own choice of name when none was asked for; or   *)
(* it fails, or is killed when it may already have written it.             *)
Logins(c) ==
  /\ connect[c].at = "login"
  /\ \/ UNCHANGED cliVars /\ connect' = [connect EXCEPT ![c].at = "failed"]
     \/ \E n \in IF connect[c].name = NoName THEN Names ELSE {connect[c].name} :
          /\ profileSite[n] \in {Absent, connect[c].site}
          /\ Sets(n, connect[c].site, TRUE)
          /\ \E end \in {"connected", "failed"} :
               connect' = [connect EXCEPT ![c].at = end, ![c].proof = "site"]
  /\ UNCHANGED roundVars

CNext ==
  /\ \/ OtherCli
     \/ RoundBegins \/ RoundDeadline \/ ListAnswers \/ ListFails \/ RoundAnswers
     \/ \E n \in Names : TakeName(n) \/ StatusAnswers(n)
     \/ \E c \in Connects :
          \/ \E s \in Sites, n \in Names \cup {NoName} : Presses(c, s, n)
          \/ Finds(c) \/ Checks(c) \/ Logins(c)
  /\ Watches

CSpec == CInit /\ [][CNext]_cVars

-----------------------------------------------------------------------------
CTypeOK ==
  /\ profileSite \in [Names -> Sites \cup {Absent}]
  /\ usable \subseteq {n \in Names : profileSite[n] # Absent}
  /\ round \in {"idle", "listing", "asking", "answered"}
  /\ listed \in [Names -> Sites \cup {Absent}] /\ askedNames \subseteq Profiles
  /\ verdict \in [Names -> Verdicts \cup {"none"}] /\ roundLate \in BOOLEAN
  /\ shownConnection \in [Sites -> States \cup {"none"}]
  /\ \A c \in Connects :
       /\ connect[c].at \in {"idle", "finding", "checking", "login",
                             "connected", "failed"}
       /\ connect[c].name \in Names \cup {NoName}
       /\ connect[c].proof \in {"none", "site", "profile"}

(* The connection shown is one there was: while the inventory was made, a  *)
(* profile listed for the site was usable, or was not, or, for "not        *)
(* configured", no profile had the site.  A profile that could not be read *)
(* in time, that another HQ logged out, removed or renamed in between,     *)
(* never turns into an answer nobody gave.                                 *)
HonestConnections ==
  round = "answered" => \A s \in Sites :
    LET mine == {n \in Profiles : listed[n] = s} IN
    /\ shownConnection[s] = "connected" => \E n \in mine : "usable" \in seen[n]
    /\ shownConnection[s] = "reconnect_required" => \E n \in mine : "unusable" \in seen[n]
    /\ shownConnection[s] = "not_configured" => mine = {}

(* Connect says "connected" only if it made a profile of the very site it  *)
(* was pressed for, or saw a usable profile whose status did not name      *)
(* another site, though names are removed, renamed and given to other      *)
(* sites between its listing and its check. Where the site CLI leaves the  *)
(* site out of the status, the answer is of whatever the name stands for.  *)
ConnectedToSite ==
  \A c \in Connects : connect[c].at = "connected" => connect[c].proof # "none"

(* What is said of a site's connection was seen of it, for the inventory   *)
(* and, unless the status named no site, for Connect                       *)
(* (integration/profiles.ts, connect.ts).                                  *)
TrueConnections == HonestConnections /\ ConnectedToSite

(* The sites that the dashboard shows, and which of them it calls          *)
(* connected, are those of the configuration and of the site CLI           *)
(* (web/services/sites.ts, integration/connection.ts).                     *)
SitesHonest == HonestInventory /\ TrueConnections

(* What it rests on: what is known of a profile was seen of it while the    *)
(* inventory was made.                                                     *)
ConnectRecords ==
  [at : {"idle", "finding", "checking", "login", "connected", "failed"},
   site : Sites \cup {Absent}, name : Names \cup {NoName},
   proof : {"none", "site", "profile"}]
Connecting == {"finding", "checking", "login"}
SeenOf(n) ==
  /\ round # "idle" => Credential(n) \in seen[n]
  /\ round \in {"idle", "listing"} => verdict[n] = "none"
  /\ verdict[n] = "connected" => "usable" \in seen[n]
  /\ verdict[n] = "reconnect_required" => "unusable" \in seen[n]
ConnInv ==
  /\ CTypeOK /\ connect \in [Connects -> ConnectRecords]
  /\ \A c \in Connects : connect[c].at \in Connecting => connect[c].site \in Sites
  /\ round \in {"idle", "listing"} => askedNames = {}
  /\ DOMAIN seen = Names /\ \A n \in Names : SeenOf(n)
  /\ TrueConnections
=============================================================================
