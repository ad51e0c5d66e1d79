---------------------------- MODULE MCProviders ----------------------------
(***************************************************************************)
(* The journal of hosting actions and the clients of the hosting providers *)
(* for TLC: what a request becomes, what it may leave behind, how its      *)
(* outcome is proved, and which inventories and sessions the clients keep. *)
(* The parts share no state, so a behaviour is one of a single part,       *)
(* chosen at the start; the others rest in one of their initial states.    *)
(***************************************************************************)
EXTENDS MCHistory, ProviderOperations, ProviderSetups, ProviderActions,
        ProviderInventories, CpanelSites, ProviderSessions, TLC

VARIABLE part

Parts == {"retention", "polls", "operations", "setups", "actions", "inventory", "discovery", "tokens"}

\* A domain that begins with www may be one of its own.
MCDomains == {<<"d1">>, <<"www", "d1">>, <<"d2">>}

\* The journal is looked at twice: three requests fill it while one answer is under way,
\* and two pollers race for the rows of two requests.
OnePoll == Cardinality({p \in Pollers : poll[p] # NoPoll}) <= 1
TwoRequests == Cardinality({c \in Calls : phase[c] # "new"}) <= 2

Resting(p) == part # p
ProvidersInit ==
  /\ part \in Parts
  /\ (Resting("actions") => wish = CHOOSE w \in Wishes : TRUE) /\ ActInit
  /\ (Resting("inventory") =>
        /\ lister = [provider |-> CHOOSE p \in InventoryProviders : TRUE, paged |-> TRUE,
                     toolkit |-> FALSE, user |-> FALSE]
        /\ account = <<>>) /\ InventoryInit
  /\ (Resting("setups") =>
        /\ wordpress = [plugin |-> "absent", ai |-> FALSE]
        /\ deed = [host |-> CHOOSE h \in SetupHosts : TRUE, wants |-> "no", at |-> "look",
                   answer |-> "running", ai |-> FALSE, named |-> FALSE, completed |-> FALSE]) /\ PsInit
  /\ (Resting("operations") => operation = [of |-> CHOOSE o \in Watched : TRUE, id |-> FALSE])
  /\ OperationsInit
  /\ (Resting("tokens") => cacheKind = CHOOSE k \in SessionKinds : TRUE) /\ PsnInit
  /\ Init
  /\ (Resting("discovery") => cpanel = [domains |-> <<>>, toolkit |-> FALSE, installs |-> <<>>,
                                        wordpress |-> {}]) /\ CpInit

Only(p) ==
  /\ part = p /\ UNCHANGED part
  /\ IF p \in {"retention", "polls"} THEN TRUE ELSE UNCHANGED vars
  /\ IF p = "operations" THEN TRUE ELSE UNCHANGED opVars
  /\ IF p = "setups" THEN TRUE ELSE UNCHANGED psVars
  /\ IF p = "actions" THEN TRUE ELSE UNCHANGED actVars
  /\ IF p = "inventory" THEN TRUE ELSE UNCHANGED inventoryVars
  /\ IF p = "discovery" THEN TRUE ELSE UNCHANGED cpVars
  /\ IF p = "tokens" THEN TRUE ELSE UNCHANGED sessionVars

ProvidersNext ==
  \/ Only("retention") /\ Next /\ OnePoll'
  \/ Only("polls") /\ Next /\ TwoRequests'
  \/ Only("operations") /\ OperationsNext
  \/ Only("setups") /\ PsNext
  \/ Only("actions") /\ ActNext
  \/ Only("inventory") /\ InventoryNext
  \/ Only("discovery") /\ CpNext
  \/ Only("tokens") /\ PsnNext

ProvidersSpec ==
  ProvidersInit /\ [][ProvidersNext]_<<part, vars, opVars, psVars, actVars, inventoryVars, cpVars,
                                      sessionVars>>

\* The state of the part has its type, and what is counted keeps its limit.
ProvidersTypeOK ==
  CASE part \in {"retention", "polls"} -> TypeOK [] part = "operations" -> OpInv
    [] part = "setups" -> PsInv [] part = "actions" -> ActInv
    [] part = "inventory" -> InventoryInv [] part = "discovery" -> DiscoveryInv
    [] part = "tokens" -> PsnTypeOK /\ TokenInv

\* Nothing is listed or claimed that is not there, and what is left out is said:
\* by the clients that page and by cPanel's discovery (cpanel-sites.ts:239-327).
InventoriesHonest == InventoryHonest /\ DiscoveryHonest
=============================================================================
