---------------------------- MODULE XrayService ----------------------------
(* The dinit service xray: the shell script etc/xray/run, the proxy process *)
(* it starts in the background, the routing rules it sets up around it, and *)
(* dinit stopping, killing and restarting it (etc/dinit.d/xray).            *)
(*                                                                          *)
(* The shell runs a pending trap between any two commands, also inside the  *)
(* EXIT trap, and then goes on where it was; a trapped signal ends `wait`.  *)
(* dinit signals the whole process group: the shell, the proxy and an ip    *)
(* command that happens to be running. The tun device xray0 exists while    *)
(* the proxy holds it; a route over it disappears with it.                  *)
EXTENDS Naturals

CONSTANT MaxStarts      \* bound on the times dinit starts the script

ASSUME ServiceAssumption == MaxStarts \in Nat \ {0}

VARIABLES
  pc,           \* the script's next command; "down" when it does not run
  trap,         \* the next command of cleanup, "none" outside it
  pending,      \* the shell has a SIGTERM it has not acted on
  xpid,         \* whether the variable xpid is set
  xray,         \* the proxy: "none", "starting", "up" (xray0 exists)
  termed,       \* the proxy has received SIGTERM
  net,          \* rules 100 and 200, the route of table 200, xray0 up
  dinit,        \* "started", "stopping" or "stopped"
  starts,
  clean         \* history: the script ended by itself, not by a signal

scriptVars == <<pc, trap, pending, xpid>>
procVars == <<xray, termed>>
dinitVars == <<dinit, starts, clean>>
vars == <<scriptVars, procVars, net, dinitVars>>

(* Mutant of NextCommand: rule 200 and its route before rule 100.            *)
TunnelFirst ==
  [boot |-> "spawn", spawn |-> "setpid", setpid |-> "loop", loop |-> "linkup",
   linkup |-> "route", route |-> "add200", add200 |-> "add100", add100 |-> "wait",
   wait |-> "end"]

(* The script's commands in order, 13 to 27, and those of cleanup, 3 to 11.  *)
NextCommand ==
  [boot |-> "spawn", spawn |-> "setpid", setpid |-> "loop", loop |-> "linkup",
   linkup |-> "add100", add100 |-> "route", route |-> "add200", add200 |-> "wait",
   wait |-> "end"]

NextCleanup ==
  [kill |-> "reap", reap |-> "del200", del200 |-> "del100", del100 |-> "delroute",
   delroute |-> "linkdown", linkdown |-> "none"]

IpCommands ==
  {"linkup", "add100", "route", "add200", "del200", "del100", "delroute", "linkdown"}

Init ==
  /\ pc = "boot" /\ trap = "none" /\ pending = FALSE /\ xpid = FALSE
  /\ xray = "none" /\ termed = FALSE
  /\ net = [rule100 |-> FALSE, rule200 |-> FALSE, route |-> FALSE, up |-> FALSE]
  /\ dinit = "started" /\ starts = 1 /\ clean = FALSE

------------------------------------------------------------------------------
(* What a command does to the network. An ip command about a device that     *)
(* does not exist, a rule that is there already or one that is not there     *)
(* fails, and the script goes on.                                            *)
NetAfter(command) ==
  CASE command = "linkup"   -> [net EXCEPT !.up = (xray = "up")]
    [] command = "add100"   -> [net EXCEPT !.rule100 = TRUE]
    [] command = "route"    -> [net EXCEPT !.route = @ \/ net.up]
    [] command = "add200"   -> [net EXCEPT !.rule200 = TRUE]
    [] command = "del200"   -> [net EXCEPT !.rule200 = FALSE]
    [] command = "del100"   -> [net EXCEPT !.rule100 = FALSE]
    [] command = "delroute" -> [net EXCEPT !.route = FALSE]
    [] command = "linkdown" -> [net EXCEPT !.up = FALSE, !.route = FALSE]
    [] OTHER -> net

NoDevice == [net EXCEPT !.up = FALSE, !.route = FALSE]

(* Mutants of Returns: cleanup without its wait; `while :; do wait; done`.   *)
ReturnsUnreaped(command) ==
  /\ command = "loop" => xray = "up"
  /\ command = "wait" => xray = "none"

NeverReturns(command) ==
  /\ command = "loop" => xray = "up"
  /\ command = "reap" => xray = "none"
  /\ command # "wait"

(* The loop of 18 ends once xray0 exists; the waits of 5 and 27 once the     *)
(* proxy is gone. With xpid unset wait takes every child for its argument.   *)
Returns(command) ==
  /\ command = "loop" => xray = "up"
  /\ command \in {"wait", "reap"} => xray = "none"

Command ==
  /\ pc \in DOMAIN NextCommand /\ trap = "none" /\ ~pending
  /\ Returns(pc)
  /\ pc' = NextCommand[pc]
  /\ xpid' = (xpid \/ pc = "setpid")
  /\ xray' = IF pc = "spawn" THEN "starting" ELSE xray
  /\ net' = NetAfter(pc)
  /\ UNCHANGED <<trap, pending, termed, dinitVars>>

(* kill $xpid has no argument while xpid is unset.                           *)
CleanupCommand ==
  /\ trap # "none" /\ ~pending
  /\ Returns(trap)
  /\ trap' = NextCleanup[trap]
  /\ termed' = (termed \/ (trap = "kill" /\ xpid /\ xray # "none"))
  /\ net' = NetAfter(trap)
  /\ UNCHANGED <<pc, pending, xpid, xray, dinitVars>>

(* What is left of a cleanup that another one interrupts would find nothing  *)
(* to do: it is left out.                                                    *)
TrapTerm ==
  /\ pending
  /\ trap' = "kill" /\ pending' = FALSE
  /\ pc' = IF pc = "wait" THEN "end" ELSE pc
  /\ UNCHANGED <<xpid, procVars, net, dinitVars>>

(* Mutant of TrapExit: `trap cleanup INT TERM`.                              *)
NoExitTrap ==
  /\ pc = "end" /\ trap = "none" /\ ~pending
  /\ pc' = "exit"
  /\ UNCHANGED <<trap, pending, xpid, procVars, net, dinitVars>>

TrapExit ==
  /\ pc = "end" /\ trap = "none" /\ ~pending
  /\ pc' = "exit" /\ trap' = "kill"
  /\ UNCHANGED <<pending, xpid, procVars, net, dinitVars>>

ScriptEnds ==
  /\ pc = "exit" /\ trap = "none" /\ ~pending
  /\ pc' = "down" /\ clean' = TRUE
  /\ UNCHANGED <<trap, pending, xpid, procVars, net, dinit, starts>>

------------------------------------------------------------------------------
(* The proxy creates xray0, or dies, on its own or after SIGTERM.            *)
ProxyUp ==
  /\ xray = "starting"
  /\ xray' = "up"
  /\ UNCHANGED <<scriptVars, termed, net, dinitVars>>

ProxyDies ==
  /\ xray # "none"
  /\ xray' = "none" /\ termed' = FALSE /\ net' = NoDevice
  /\ UNCHANGED <<scriptVars, dinitVars>>

------------------------------------------------------------------------------
(* dinit stops the service: SIGTERM to the process group. Before line 13 the *)
(* shell dies of it; an ip command that is running may die of it before it   *)
(* has done anything, and the shell takes the next one.                      *)
Stop ==
  /\ dinit = "started" /\ pc # "down"
  /\ dinit' = "stopping"
  /\ termed' = (xray # "none")
  /\ pending' = (pc # "boot")
  /\ \/ pc # "boot" /\ UNCHANGED <<pc, trap>>
     \/ pc = "boot" /\ pc' = "down" /\ UNCHANGED trap
     \/ pc \in IpCommands /\ trap = "none" /\ pc' = NextCommand[pc] /\ UNCHANGED trap
     \/ trap \in IpCommands /\ trap' = NextCleanup[trap] /\ UNCHANGED pc
  /\ UNCHANGED <<xpid, xray, net, starts, clean>>

(* The stop timeout: SIGKILL to the process group.                           *)
Kill ==
  /\ dinit = "stopping" /\ pc # "down"
  /\ pc' = "down" /\ trap' = "none" /\ pending' = FALSE
  /\ xray' = "none" /\ termed' = FALSE /\ net' = NoDevice
  /\ UNCHANGED <<xpid, dinitVars>>

Stopped ==
  /\ dinit = "stopping" /\ pc = "down"
  /\ dinit' = "stopped"
  /\ UNCHANGED <<scriptVars, procVars, net, starts, clean>>

(* dinit starts the script: on request, or because it ended (restart = true).*)
Start ==
  /\ dinit \in {"started", "stopped"} /\ pc = "down" /\ starts < MaxStarts
  /\ dinit' = "started" /\ starts' = starts + 1 /\ clean' = FALSE
  /\ pc' = "boot" /\ xpid' = FALSE
  /\ UNCHANGED <<trap, pending, procVars, net>>

Script == Command \/ CleanupCommand \/ TrapTerm \/ TrapExit \/ ScriptEnds

Next == Script \/ ProxyUp \/ ProxyDies \/ Stop \/ Kill \/ Stopped \/ Start

Spec == Init /\ [][Next]_vars

(* The shell is scheduled and a proxy that was sent SIGTERM exits. Nothing   *)
(* says that the proxy ever creates xray0.                                   *)
FairSpec == Spec /\ WF_vars(Script) /\ WF_vars(termed /\ ProxyDies)

------------------------------------------------------------------------------
(* Every variable keeps its type.                                            *)
TypeOK ==
  /\ pc \in DOMAIN NextCommand \cup {"end", "exit", "down"}
  /\ trap \in DOMAIN NextCleanup \cup {"none"}
  /\ pending \in BOOLEAN /\ xpid \in BOOLEAN
  /\ xray \in {"none", "starting", "up"} /\ termed \in BOOLEAN
  /\ net \in [rule100 : BOOLEAN, rule200 : BOOLEAN, route : BOOLEAN, up : BOOLEAN]
  /\ dinit \in {"started", "stopping", "stopped"}
  /\ starts \in 1 .. MaxStarts /\ clean \in BOOLEAN

(* Traffic is never sent into the tunnel while the proxy's own traffic has   *)
(* no rule that keeps it out, whatever stop, kill or crash comes when, and   *)
(* whatever rules an earlier run left behind (23 before 24 before 25).       *)
NoRoutingLoop == net.rule200 /\ net.route => net.rule100

(* A script that comes to its end by itself has put the routing back and has *)
(* no proxy running, however often it was interrupted (13 and 4-10).         *)
CleanExit ==
  clean => ~net.rule100 /\ ~net.rule200 /\ ~net.route /\ xray = "none"

(* There are never two proxies: when the script starts, the last one is gone.*)
OneProxy == pc \in {"boot", "spawn", "down"} => xray = "none"

(* Once the script waits for the proxy, the proxy's death ends the script,   *)
(* and so lets dinit restart it.                                             *)
DeathIsNoticed == (pc = "wait" /\ xray = "none") ~> pc = "down"
=============================================================================
