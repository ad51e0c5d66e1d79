----------------------------- MODULE MCHosting -----------------------------
(***************************************************************************)
(* The configuration and what HQ does on the network with it: requests,    *)
(* the cPanel installer, WHM's listings and sessions, for TLC.  They share *)
(* no state, so a behaviour of this module is one of a single part, chosen *)
(* at the start; the other parts rest in one of their initial states.      *)
(***************************************************************************)
EXTENDS MCConfigStore, HttpClient, Installer, WhmAccounts, TLC

VARIABLE part

Parts == {"config", "http", "installer", "listing", "session"}

Resting(p) == part # p
HostingInit ==
  /\ part \in Parts
  /\ Init
  /\ HttpInit /\ (Resting("http") => call = CHOOSE c \in HttpCalls : TRUE)
  /\ InstInit /\ (Resting("installer") => novamira = "absent")
  /\ ListInit /\ SessInit

Only(p) ==
  /\ part = p /\ UNCHANGED part
  /\ IF p = "config" THEN TRUE ELSE UNCHANGED storeVars
  /\ IF p = "http" THEN TRUE ELSE UNCHANGED httpVars
  /\ IF p = "installer" THEN TRUE ELSE UNCHANGED instVars
  /\ IF p = "listing" THEN TRUE ELSE UNCHANGED listVars
  /\ IF p = "session" THEN TRUE ELSE UNCHANGED sessVars

HostingNext ==
  \/ Only("config") /\ Next
  \/ Only("http") /\ HttpNext
  \/ Only("installer") /\ InstNext
  \/ Only("listing") /\ ListNext
  \/ Only("session") /\ SessNext

HostingSpec ==
  HostingInit /\ [][HostingNext]_<<part, storeVars, httpVars, instVars, listVars, sessVars>>

\* The setups are alike.
SetupSymmetry == Permutations(Setups)

\* The state of the part has its type, its lists keep their limits, and a part
\* with proofs fits the inductive invariants that they rest on.
HostingTypeOK ==
  CASE part = "config" -> StoreInv /\ SecretsInv [] part = "http" -> HttpInv
    [] part = "installer" -> InstInv [] part = "listing" -> ListInv
    [] part = "session" -> SessInv
=============================================================================
