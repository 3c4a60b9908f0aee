------------------------------ MODULE DockerTools ------------------------------
(***************************************************************************)
(* The docker tools that wait or look around (tools/docker-tools.ts over   *)
(* src/modules/docker): dockerCheckContainerHealth polls a port until a    *)
(* deadline, dockerDiscoverPort asks one source after another for a port.  *)
(* Reserving and releasing a port are PortRegistry's.                      *)
(*                                                                         *)
(* Timers fire when the server's event loop is free: a synchronous call in *)
(* between makes one late, but not without bound.                          *)
(***************************************************************************)
EXTENDS Integers, FiniteSetsExt

CONSTANTS
  PollCap,          (* the longest a poll may take, 2000 ms                *)
  Sleep,            (* between two polls, 200 ms                           *)
  Late,             (* bound: how late the event loop comes to a timer     *)
  Budgets,          (* timeouts that callers ask for                       *)
  MaxChanges        (* bound: changes of what listens, or of the sources   *)

ASSUME DockerConstants ==
  /\ PollCap \in Nat \ {0} /\ Sleep \in Nat \ {0} /\ Late \in Nat
  /\ Budgets \subseteq Nat

VARIABLES
  clock,            (* Date.now(), from the start of a call on             *)
  service,          (* what the port answers                               *)
  changes,
  wait,             (* the health check: its step, its budget, when its    *)
                    (* next event and its timer are due, what it got       *)
  discovery,        (* the port search: [step, outcome]                    *)
  sources,          (* source of ports -> what it says                     *)
  installed,        (* the module's files are on disk                      *)
  (* History, read by no guard: *)
  goodSince,        (* when the service began to answer as expected        *)
  saidSoFar         (* source -> all that it said during the search        *)

dockerVars == <<clock, service, changes, wait, discovery, sources, installed,
                goodSince, saidSoFar>>

(* What a request to the port meets: the expected status, and a body that  *)
(* follows or never comes; another status; a refused connection; silence.  *)
Services == {"good", "no body", "other", "refused", "silent"}
Good == {"good", "no body"}

NoWait == [step |-> "idle", budget |-> 0, event |-> 0, due |-> 0, got |-> "none",
           outcome |-> "none"]
NoDiscovery == [step |-> "idle", outcome |-> "none"]

(* Of the ports only this matters: whose they are, and that there is none, *)
(* or one that is no port, or a registry that cannot be read.              *)
Layers == <<"envVar", "registry", "docker ps", "fallback">>
Says(layer) ==
  {"nothing", layer} \union IF layer \in {"envVar", "registry"} THEN {"malformed"} ELSE {}

DockerInit ==
  /\ clock = 0
  /\ service \in Services
  /\ changes = 0
  /\ wait = NoWait
  /\ discovery = NoDiscovery
  /\ sources = [layer \in {Layers[i] : i \in 1..4} |-> "nothing"]
  /\ installed \in BOOLEAN
  /\ goodSince = 0
  /\ saidSoFar = [layer \in DOMAIN sources |-> {}]

Outside == <<service, changes, sources, goodSince>>
Searching == <<discovery, saidSoFar>>

-------------------------------------------------------------------------------
(* waitForHealthy                                                          *)

(* importDockerModule: files that are gone are an error of their own.      *)
StartWait ==
  /\ wait = NoWait /\ clock = 0
  /\ \E budget \in Budgets :
       wait' = IF installed THEN [NoWait EXCEPT !.step = "loop", !.budget = budget]
               ELSE [NoWait EXCEPT !.step = "over", !.outcome = "ModulePrerequisiteFailed"]
  /\ UNCHANGED <<clock, Outside, Searching, installed>>

Remaining == wait.budget - clock

(* Mutant: every poll has its full time.                                   *)
PerPollUncut == PollCap

(* The time that a poll may take is cut to what remains of the budget.     *)
PerPoll == Min({PollCap, Remaining})

(* A poll sends a request, or the budget is over.  Silence lasts until the *)
(* abort, and so does a body that does not come; all else is there at once.*)
Poll ==
  /\ wait.step = "loop"
  /\ \/ /\ Remaining <= 0
        /\ wait' = [wait EXCEPT !.step = "over", !.outcome = "TimeoutError"]
     \/ /\ Remaining > 0
        /\ wait' = [wait EXCEPT
                      !.step = "fetch", !.got = service, !.due = clock + PerPoll,
                      !.event = IF service \in {"silent", "no body"} THEN clock + PerPoll
                                ELSE clock]
  /\ UNCHANGED <<clock, Outside, Searching, installed>>

SleepsOrStops(w) ==
  IF w.budget > clock
  THEN [w EXCEPT !.step = "sleep", !.event = clock + Min({Sleep, w.budget - clock})]
  ELSE [w EXCEPT !.step = "over", !.outcome = "TimeoutError"]

(* The expected status makes the wait succeed, be its body aborted.        *)
Answered ==
  /\ wait.step = "fetch" /\ wait.got \in Good /\ clock >= wait.event
  /\ wait' = [wait EXCEPT !.step = "over", !.outcome = "healthy"]
  /\ UNCHANGED <<clock, Outside, Searching, installed>>

(* An answer is lost to the abort if the event loop comes late to both.    *)
Unanswered ==
  /\ wait.step = "fetch" /\ clock >= wait.event
  /\ wait.got \in {"other", "refused", "silent"} \/ (wait.got = "good" /\ clock >= wait.due)
  /\ wait' = SleepsOrStops(wait)
  /\ UNCHANGED <<clock, Outside, Searching, installed>>

Wake ==
  /\ wait.step = "sleep"
  /\ clock >= wait.event
  /\ wait' = [wait EXCEPT !.step = "loop"]
  /\ UNCHANGED <<clock, Outside, Searching, installed>>

(* Time passes until the next event, and while the loop comes late to it.  *)
TimePasses ==
  /\ wait.step \in {"fetch", "sleep"}
  /\ clock < wait.event + Late
  /\ clock' = clock + 1
  /\ UNCHANGED <<Outside, wait, Searching, installed>>

(* The container comes up, goes down, is taken over by another.            *)
ServiceChanges ==
  /\ wait.step \in {"fetch", "sleep"}
  /\ changes < MaxChanges
  /\ changes' = changes + 1
  /\ service' \in Services \ {service}
  /\ goodSince' = IF service \in Good THEN goodSince ELSE clock
  /\ UNCHANGED <<clock, wait, sources, Searching, installed>>

-------------------------------------------------------------------------------
(* discoverPort                                                            *)

StartDiscovery ==
  /\ discovery = NoDiscovery
  /\ discovery' = IF installed THEN [NoDiscovery EXCEPT !.step = "envVar"]
                  ELSE [step |-> "over", outcome |-> "ModulePrerequisiteFailed"]
  /\ saidSoFar' = [layer \in DOMAIN sources |-> {sources[layer]}]
  /\ UNCHANGED <<clock, Outside, wait, installed>>

NextLayer(layer) ==
  CASE layer = "envVar"    -> "registry"
    [] layer = "registry"  -> "docker ps"
    [] layer = "docker ps" -> "fallback"
    [] layer = "fallback"  -> "over"

(* A source that names a port ends the search, and so does a registry that *)
(* throws; a source without a port, or with what is no port, is passed over.*)
AskLayer ==
  LET layer == discovery.step IN
  /\ layer \in DOMAIN sources
  /\ \/ /\ sources[layer] = layer
        /\ discovery' = [step |-> "over", outcome |-> layer]
     \/ /\ layer = "registry" /\ sources[layer] = "malformed"
        /\ discovery' = [step |-> "over", outcome |-> "MalformedInput"]
     \/ /\ sources[layer] # layer
        /\ ~(layer = "registry" /\ sources[layer] = "malformed")
        /\ discovery' = [step |-> NextLayer(layer),
                         outcome |-> IF layer = "fallback" THEN "PortNotDiscovered" ELSE "none"]
  /\ UNCHANGED <<clock, Outside, wait, saidSoFar, installed>>

(* Other runs reserve and release ports, containers start and stop.  The   *)
(* arguments of the call, and its environment, stay.                       *)
SourceChanges ==
  /\ discovery.step # "over"
  /\ changes < MaxChanges
  /\ changes' = changes + 1
  /\ \E layer \in IF discovery = NoDiscovery THEN DOMAIN sources ELSE {"registry", "docker ps"} :
       \E said \in Says(layer) \ {sources[layer]} :
         /\ sources' = [sources EXCEPT ![layer] = said]
         /\ saidSoFar' = [saidSoFar EXCEPT ![layer] = @ \union {said}]
  /\ UNCHANGED <<clock, service, wait, discovery, installed, goodSince>>

-------------------------------------------------------------------------------
(* The two calls share nothing: a behaviour is about one or the other.     *)
DockerNext ==
  \/ /\ discovery = NoDiscovery
     /\ StartWait \/ Poll \/ Answered \/ Unanswered \/ Wake \/ TimePasses \/ ServiceChanges
  \/ /\ wait = NoWait
     /\ StartDiscovery \/ AskLayer \/ SourceChanges

-------------------------------------------------------------------------------
(* Properties *)

(* "a single hung poll can never consume the entire budget"                *)
(* (ContainerHealth.ts:12).  A wait is over when its budget is, but for one*)
(* late timer, however many timers were late before; and one that times    *)
(* out has not overlooked a service that answered as expected for longer   *)
(* than a hung poll, a sleep, both late, and a last poll so short that its *)
(* answer is lost to a late event loop.                                    *)
WaitKeepsItsTime ==
  /\ wait.step \in {"fetch", "sleep", "loop"} => clock <= wait.budget + Late
  /\ wait.outcome = "TimeoutError" /\ service \in Good =>
       clock - goodSince <= PollCap + Sleep + 3 * Late

(* The search ends with the most authoritative source that named a port:   *)
(* a source before it can only have named one later than it was asked, and *)
(* it fails for want of a port on all sides, or for a broken registry that *)
(* it has come to.                                                         *)
SearchInOrder ==
  discovery.step = "over" /\ installed =>
    LET silent(layer) == saidSoFar[layer] # {layer} IN
    /\ discovery.outcome # "envVar" => silent("envVar")
    /\ discovery.outcome \in {"docker ps", "fallback", "PortNotDiscovered"} => silent("registry")
    /\ discovery.outcome \in {"fallback", "PortNotDiscovered"} => silent("docker ps")
    /\ discovery.outcome = "PortNotDiscovered" => silent("fallback")
    /\ discovery.outcome = "MalformedInput" => "malformed" \in saidSoFar["registry"]
    /\ discovery.outcome \in DOMAIN sources =>
         discovery.outcome \in saidSoFar[discovery.outcome]

(* Whatever comes, goes or is late while a docker tool looks, it answers   *)
(* in time and with what there was.                                        *)
DockerAnswersHold == WaitKeepsItsTime /\ SearchInOrder
===============================================================================
