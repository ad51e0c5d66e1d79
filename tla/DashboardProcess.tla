------------------------- MODULE DashboardProcess -------------------------
(***************************************************************************)
(* The `dashboard` command and the process that runs it (cli/dashboard.ts, *)
(* listen() and close() of web/server.ts, desktop/main.ts): invocations    *)
(* that look for a running dashboard, compete for the loopback ports with  *)
(* each other and with other programs, serve, and are stopped.             *)
(***************************************************************************)
EXTENDS Naturals, FiniteSets

CONSTANTS Dashes,       \* invocations of the command
          PortAttempts, \* DASHBOARD_PORT_ATTEMPTS
          NoPort

ASSUME DashboardAssumption ==
  /\ PortAttempts \in Nat \ {0} /\ NoPort \notin Nat
  /\ {"free", "other"} \cap Dashes = {}

VARIABLES
  portHolder, \* who listens on each port: "free", "other" or an invocation
  dash,       \* the invocations
  job,        \* Dashes -> its accepted run: "none" "running" "cancelled" "settled"
  wasDash     \* history: the ports a dashboard has listened on

dpVars == << portHolder, dash, job, wasDash >>

Ports == 0 .. PortAttempts - 1
PortHolders == Dashes \cup {"free", "other"}
DashAt == {"start", "probing", "listening", "probing_again", "opening",
           "ready", "serving", "closing", "returned", "exited", "killed",
           "reused", "failed"}

(* What an invocation was asked: --open, --listen of the preferred port,    *)
(* and whether the desktop's serve() or the terminal runs it.              *)
Asked == [open : BOOLEAN, explicit : BOOLEAN, role : {"cli", "desktop"}]

FirstDash(a) ==
  [at |-> "start", ask |-> a, probes |-> {}, found |-> {}, next |-> 0, url |-> NoPort,
   missed |-> FALSE, browser |-> "none", won |-> FALSE]
DInit ==
  /\ portHolder \in [Ports -> {"free", "other"}]
  /\ dash \in [Dashes -> {FirstDash(a) :
                          a \in {b \in Asked : b.role = "desktop" => b.explicit /\ ~b.open}}]
  /\ job = [d \in Dashes |-> "none"]
  /\ wasDash = {}

DashTo(d, at) == dash' = [dash EXCEPT ![d].at = at]

(* The desktop lets the system choose the port: 127.0.0.1:0.               *)
AnyPort(d) == dash[d].ask.role = "desktop"
(* One explicit address, or the preferred port and those after it.         *)
Candidates(d) == IF dash[d].ask.explicit THEN {0} ELSE Ports
LeastOf(S) == CHOOSE p \in S : \A q \in S : p <= q

(* --open asks every candidate at once; otherwise it listens right away.    *)
PortPreflight(d) ==
  /\ dash[d].at = "start"
  /\ dash' = [dash EXCEPT ![d].at = IF dash[d].ask.open THEN "probing" ELSE "listening",
                          ![d].probes = IF dash[d].ask.open THEN Candidates(d) ELSE {}]
  /\ UNCHANGED << portHolder, job, wasDash >>

(* Only a dashboard sends the identity header.                             *)
IsDashboard(p) == portHolder[p] \in Dashes

(* A probe answers for itself; a slow one counts as no dashboard.           *)
Probe(d, p) ==
  /\ dash[d].at = "probing" /\ p \in dash[d].probes
  /\ \E late \in BOOLEAN :
       dash' = [dash EXCEPT ![d].probes = @ \ {p},
                            ![d].found = IF IsDashboard(p) /\ ~late
                                           THEN @ \cup {p} ELSE @]
  /\ UNCHANGED << portHolder, job, wasDash >>

(* The first that answered is reused; nothing is started.                  *)
Probed(d) ==
  /\ dash[d].at = "probing" /\ dash[d].probes = {}
  /\ IF dash[d].found # {}
       THEN dash' = [dash EXCEPT ![d].at = "opening",
                                 ![d].url = LeastOf(dash[d].found)]
       ELSE DashTo(d, "listening")
  /\ UNCHANGED << portHolder, job, wasDash >>

-----------------------------------------------------------------------------
(* The candidate is free: the server owns it.                              *)
Bind(d) ==
  /\ dash[d].at = "listening" /\ dash[d].next \in Candidates(d)
  /\ \E p \in IF AnyPort(d) THEN Ports ELSE {dash[d].next} :
       /\ portHolder[p] = "free"
       /\ portHolder' = [portHolder EXCEPT ![p] = d]
       /\ wasDash' = wasDash \cup {p}
       /\ dash' = [dash EXCEPT ![d].at = "opening", ![d].url = p, ![d].won = TRUE]
  /\ UNCHANGED job

(* Mutant of AfterConflict: a conflict ends the command, as if the address  *)
(* had been asked for without --open.                                      *)
ConflictFails(d) == IF dash[d].ask.explicit THEN "failed" ELSE "listening"
(* Only the implicit ports are tried one after another; --open asks again  *)
(* who holds an explicit one.                                              *)
AfterConflict(d) == IF ~dash[d].ask.explicit THEN "listening"
                    ELSE IF dash[d].ask.open THEN "probing_again" ELSE "failed"

InUse(d) ==
  /\ dash[d].at = "listening" /\ dash[d].next \in Candidates(d)
  /\ portHolder[dash[d].next] # "free" /\ ~AnyPort(d)
  /\ dash' = [dash EXCEPT ![d].at = AfterConflict(d), ![d].next = @ + 1]
  /\ UNCHANGED << portHolder, job, wasDash >>

(* EACCES, no address, a bound address that is not loopback, or no          *)
(* candidate left: the command fails and holds nothing.                    *)
CannotListen(d) ==
  /\ dash[d].at = "listening"
  /\ dash' = [dash EXCEPT ![d].at = "failed",
                          ![d].missed = dash[d].next \in Candidates(d)]
  /\ UNCHANGED << portHolder, job, wasDash >>

(* Between the first probe and the bind another invocation may have won.   *)
ProbeAgain(d) ==
  /\ dash[d].at = "probing_again"
  /\ \E late \in BOOLEAN :
       dash' = [dash EXCEPT ![d].at = IF IsDashboard(0) /\ ~late THEN "opening" ELSE "failed",
                            ![d].url = IF IsDashboard(0) /\ ~late THEN 0 ELSE @,
                            ![d].missed = late \/ ~IsDashboard(0)]
  /\ UNCHANGED << portHolder, job, wasDash >>

(* A browser that cannot be opened is a warning. The invocation that        *)
(* reused a dashboard is done; the one that listens goes on to serve.      *)
OpenBrowser(d) ==
  /\ dash[d].at = "opening"
  /\ \E b \in IF dash[d].ask.open THEN {"opened", "warned"} ELSE {"none"} :
       dash' = [dash EXCEPT ![d].at = IF dash[d].won THEN "ready" ELSE "reused",
                            ![d].browser = b]
  /\ UNCHANGED << portHolder, job, wasDash >>

(* The two signals are listened to only from here on.                      *)
Serve(d) ==
  /\ dash[d].at = "ready"
  /\ DashTo(d, "serving")
  /\ UNCHANGED << portHolder, job, wasDash >>

(* A page starts a run; the server has been listening since the bind.      *)
Accept(d) ==
  /\ dash[d].won /\ dash[d].at \in {"opening", "ready", "serving"}
  /\ job[d] = "none"
  /\ job' = [job EXCEPT ![d] = "running"]
  /\ UNCHANGED << portHolder, dash, wasDash >>

(* A run ends by itself, or once its abort signal reached it.              *)
Settle(d) ==
  /\ job[d] \in {"running", "cancelled"}
  /\ dash[d].at \notin {"exited", "killed"}
  /\ job' = [job EXCEPT ![d] = "settled"]
  /\ UNCHANGED << portHolder, dash, wasDash >>

-----------------------------------------------------------------------------
Freed(d) == [p \in Ports |-> IF portHolder[p] = d THEN "free" ELSE portHolder[p]]

Cancelled(d) == IF job[d] = "running" THEN "cancelled" ELSE job[d]

(* SIGINT, SIGTERM, or the abort signal: close(), begun once. The desktop   *)
(* raises SIGTERM when its lifeline, the standard input, ends.             *)
Stop(d) ==
  /\ dash[d].at = "serving"
  /\ DashTo(d, "closing")
  /\ job' = [job EXCEPT ![d] = Cancelled(d)]
  /\ UNCHANGED << portHolder, wasDash >>

(* A signal before its listeners are there ends the process as it is.      *)
Killed(d) ==
  /\ dash[d].at \notin {"serving", "closing", "returned", "exited", "killed",
                        "reused", "failed"}
  /\ portHolder' = Freed(d)
  /\ DashTo(d, "killed")
  /\ UNCHANGED << job, wasDash >>

(* The listener is closed, its connections destroyed: closed() resolves     *)
(* with that event, whatever else close() still waits for, and the handler *)
(* returns.                                                                *)
Closed(d) ==
  /\ dash[d].at = "closing"
  /\ portHolder' = Freed(d)
  /\ DashTo(d, "returned")
  /\ UNCHANGED << job, wasDash >>

(* The terminal's process ends when nothing is left to run; the desktop's   *)
(* exits with the code of main().                                          *)
MayExit(d) == dash[d].ask.role = "desktop" \/ job[d] # "cancelled"

ExitDash(d) ==
  /\ dash[d].at = "returned" /\ MayExit(d)
  /\ DashTo(d, "exited")
  /\ UNCHANGED << portHolder, job, wasDash >>

(* Another program takes or leaves a port.                                 *)
Foreign(p) ==
  /\ portHolder[p] \in {"free", "other"}
  /\ portHolder' = [portHolder EXCEPT ![p] = IF @ = "free" THEN "other" ELSE "free"]
  /\ UNCHANGED << dash, job, wasDash >>

DNext ==
  \/ \E d \in Dashes :
       \/ PortPreflight(d) \/ Probed(d) \/ Bind(d) \/ InUse(d) \/ CannotListen(d)
       \/ ProbeAgain(d) \/ OpenBrowser(d) \/ Serve(d) \/ Accept(d) \/ Settle(d)
       \/ Stop(d) \/ Killed(d) \/ Closed(d) \/ ExitDash(d)
       \/ \E p \in Ports : Probe(d, p)
  \/ \E p \in Ports : Foreign(p)

DSpec == DInit /\ [][DNext]_dpVars

DTypeOK ==
  /\ portHolder \in [Ports -> PortHolders]
  /\ \A d \in Dashes :
       /\ dash[d].at \in DashAt /\ dash[d].ask \in Asked
       /\ dash[d].probes \subseteq Ports /\ dash[d].found \subseteq Ports
       /\ dash[d].next \in 0 .. PortAttempts
       /\ dash[d].url \in Ports \cup {NoPort}
  /\ job \in [Dashes -> {"none", "running", "cancelled", "settled"}]

-----------------------------------------------------------------------------
(* What the command told its user was so (cli/dashboard.ts:345-530): the   *)
(* URL it printed and opened is one a dashboard listened on; a listener is  *)
(* held exactly by an invocation that is still to stop; --open of an        *)
(* explicit address fails only if no dashboard answered there, whoever won *)
(* the race for the port; and a terminal's process that was asked to stop   *)
(* is gone only after the run it had accepted was cancelled and settled.    *)
DashboardHonest ==
  /\ \A d \in Dashes :
       /\ dash[d].url # NoPort => dash[d].url \in wasDash
       /\ (dash[d].at = "failed" /\ dash[d].ask.open /\ dash[d].ask.explicit)
            => dash[d].missed
       /\ (dash[d].at = "exited" /\ dash[d].ask.role = "cli")
            => job[d] \in {"none", "settled"}
  /\ \A p \in Ports : portHolder[p] \in Dashes =>
       /\ dash[portHolder[p]].url = p
       /\ dash[portHolder[p]].at \in {"opening", "ready", "serving", "closing"}

(* What it rests on. An invocation that was given one explicit address has  *)
(* not tried another; what it found or was bound to is a dashboard's port;  *)
(* a run that was not cancelled when its process began to close is none.   *)
DashRecords ==
  [at : DashAt, ask : Asked, probes : SUBSET Ports, found : SUBSET Ports,
   next : 0 .. PortAttempts, url : Ports \cup {NoPort}, missed : BOOLEAN,
   browser : {"none", "opened", "warned"}, won : BOOLEAN]
Jobs == {"none", "running", "cancelled", "settled"}

KnownPorts(r) == /\ r.found \subseteq wasDash
                 /\ r.url # NoPort => r.url \in wasDash
OneAddress(r) ==
  r.ask.explicit => /\ r.at \in {"start", "probing", "listening"} => r.next = 0
                    /\ r.at = "failed" /\ r.ask.open => r.missed
EndsItsRun(r, run) ==
  /\ r.at \in {"closing", "returned"} => run # "running"
  /\ r.at = "exited" /\ r.ask.role = "cli" => run \in {"none", "settled"}
Listens == {"opening", "ready", "serving", "closing"}
HeldByListener(p) ==
  portHolder[p] \in Dashes =>
    /\ p \in wasDash /\ dash[portHolder[p]].won /\ dash[portHolder[p]].url = p
    /\ dash[portHolder[p]].at \in Listens

DashInv ==
  /\ portHolder \in [Ports -> PortHolders] /\ dash \in [Dashes -> DashRecords]
  /\ job \in [Dashes -> Jobs] /\ wasDash \in SUBSET Ports
  /\ \A d \in Dashes : /\ KnownPorts(dash[d]) /\ OneAddress(dash[d])
                       /\ EndsItsRun(dash[d], job[d])
  /\ \A p \in Ports : HeldByListener(p)
=============================================================================
