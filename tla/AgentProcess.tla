---------------------------- MODULE AgentProcess ----------------------------
(***************************************************************************)
(* The life of `fjord-agent serve api` (cmd/fjord-agent): three controllers*)
(* are started, each with a signal listener of its own, then the servers,  *)
(* with another listener; a signal or a failing server ends in an orderly  *)
(* shutdown.  The kubelet signals, kills and starts the container again.   *)
(*                                                                         *)
(* Of the controllers the LoadBalancer controller is the whole of          *)
(* LoadBalancerController.tla, run by this process; of the one for         *)
(* TargetGroupBindings it matters here whether its Run has returned, and   *)
(* of the one for ClusterNetworkPolicies that it listens: nobody waits for *)
(* its Run.                                                                *)
(***************************************************************************)
EXTENDS Naturals, Sequences

CONSTANTS
    Services, Addresses, None, Foreign, Edits,
    MaxChanges,
    MaxFailures     \* bound: signals, kills, failing requests and servers

ASSUME BoundsOfAgent == MaxChanges \in Nat /\ MaxFailures \in Nat

VARIABLES
    services, nodes, granted, serviceCache, nodeCache, started, queue, pass, changes, failures

LB == INSTANCE LoadBalancerController
loadBalancer ==
    <<services, nodes, granted, serviceCache, nodeCache, started, queue, pass, changes, failures>>

ASSUME EditsOfAgent == \A rules \in Edits : rules \subseteq LB!Needed

Controllers == {"cnp", "tgb", "lb"}
\* In the order in which shutdownServers goes through them.
Servers == <<"api", "injector">>

VARIABLES
    main,       \* where serveAPI is
    armed,      \* the signal listeners
    told,       \* this process has been sent its signal
    cancelled,  \* the contexts that are done
    alive,      \* of "tgb" and "lb": their Run has not returned
    open,       \* the servers that accept requests
    inflight,   \* the servers that have one, looked at from the shutdown on
    draining,   \* shutdownServers: the server it waits for
    expired     \* shutdownTimeout has passed

process == <<main, armed, told, cancelled, alive, open, inflight, draining, expired>>
agentVars == <<loadBalancer, process>>

AgentTypeOK ==
    /\ LB!TypeOK
    /\ main \in {"down", "cnp", "tgb", "lb", "listen", "serve", "drain", "wait"}
    /\ armed \subseteq Controllers \cup {"main"} /\ cancelled \subseteq Controllers \cup {"main"}
    /\ told \in BOOLEAN /\ expired \in BOOLEAN
    /\ alive \subseteq {"tgb", "lb"}
    /\ open \subseteq {"api", "injector"} /\ inflight \subseteq {"api", "injector"}
    /\ draining \in 0..Len(Servers)
    /\ main = "down" => alive = {} /\ ~started /\ ~pass.running

NoProcess ==
    /\ main = "down" /\ armed = {} /\ cancelled = {} /\ told = FALSE /\ alive = {}
    /\ open = {} /\ inflight = {} /\ draining = 0 /\ expired = FALSE

AgentInit == LB!Init /\ NoProcess
-----------------------------------------------------------------------------
(* serveAPI.                                                                *)

Boot ==
    /\ main = "down" /\ main' = "cnp"
    /\ UNCHANGED <<loadBalancer, armed, told, cancelled, alive, open, inflight, draining, expired>>

After == [cnp |-> "tgb", tgb |-> "lb", lb |-> "listen"]

\* startCNPController, startTargetGroupBindingController and
\* startLoadBalancerController: NotifyContext, and Run in the background.
StartController(c) ==
    /\ main = c /\ main' = After[c]
    /\ armed' = armed \cup {c} /\ alive' = alive \cup ({c} \ {"cnp"})
    /\ UNCHANGED <<loadBalancer, told, cancelled, open, inflight, draining, expired>>

\* runUntilSignal, up to its select.
Listen ==
    /\ main = "listen" /\ main' = "serve"
    /\ armed' = armed \cup {"main"}
    /\ open' = {Servers[i] : i \in DOMAIN Servers}
    /\ UNCHANGED <<loadBalancer, told, cancelled, alive, inflight, draining, expired>>

\* Whatever is in flight when the shutdown begins.
BeginDrain == main' = "drain" /\ inflight' \in SUBSET open

\* The select: the context is done, or a server has returned an error.
Interrupted ==
    /\ main = "serve" /\ "main" \in cancelled /\ BeginDrain
    /\ UNCHANGED <<loadBalancer, armed, told, cancelled, alive, open, draining, expired>>

Failure == failures < MaxFailures /\ failures' = failures + 1
apart == <<services, nodes, granted, serviceCache, nodeCache, started, queue, pass, changes>>

ServerFails(s) ==
    /\ main = "serve" /\ s \in open /\ Failure
    /\ main' = "drain" /\ open' = open \ {s} /\ inflight' \in SUBSET open'
    /\ UNCHANGED <<apart, armed, told, cancelled, alive, draining, expired>>

\* Shutdown of the next server closes its listener first.
CloseListener ==
    /\ main = "drain" /\ draining < Len(Servers)
    /\ draining > 0 => Servers[draining] \notin inflight \/ expired
    /\ draining' = draining + 1
    /\ open' = open \ {Servers[draining + 1]}
    /\ UNCHANGED <<loadBalancer, main, armed, told, cancelled, alive, inflight, expired>>

\* The deferred calls: the listener of runUntilSignal, the LoadBalancer
\* controller's stop, which does not wait, and the other controller's, which does.
Stop ==
    /\ main' = "wait"
    /\ armed' = armed \ {"main", "lb", "tgb"}
    /\ cancelled' = cancelled \cup {"lb", "tgb"}

\* The last Shutdown has returned, and runUntilSignal with it.
DrainEnds ==
    /\ main = "drain" /\ draining = Len(Servers)
    /\ Servers[draining] \notin inflight \/ expired
    /\ Stop
    /\ UNCHANGED <<loadBalancer, told, alive, open, inflight, draining, expired>>

\* Mutant: the timeout covers the first server only.
ShutdownTimeout_First ==
    /\ main = "drain" /\ ~expired /\ draining <= 1 /\ expired' = TRUE
    /\ UNCHANGED <<loadBalancer, main, armed, told, cancelled, alive, open, inflight, draining>>

\* One timeout for all servers.
ShutdownTimeout ==
    /\ main = "drain" /\ ~expired /\ expired' = TRUE
    /\ UNCHANGED <<loadBalancer, main, armed, told, cancelled, alive, open, inflight, draining>>

\* Nothing of the process is left.
Gone ==
    /\ main' = "down" /\ armed' = {} /\ cancelled' = {} /\ told' = FALSE /\ alive' = {}
    /\ open' = {} /\ inflight' = {} /\ draining' = 0 /\ expired' = FALSE
    /\ started' = FALSE /\ queue' = FALSE /\ pass' = LB!NoPass
    /\ serviceCache' = [s \in Services |-> None] /\ nodeCache' = {}
    /\ UNCHANGED <<services, nodes, granted, changes>>

\* Mutant: stop only cancels.
Exit_NoWait ==
    /\ main = "wait"
    /\ Gone /\ UNCHANGED failures

\* `<-done` has returned, startCNPController's stop does not wait either.
Exit ==
    /\ main = "wait" /\ "tgb" \notin alive
    /\ Gone /\ UNCHANGED failures

Main ==
    \/ Listen \/ Interrupted \/ CloseListener \/ DrainEnds \/ Exit
    \/ \E c \in Controllers : StartController(c)
-----------------------------------------------------------------------------
(* Signals.                                                                 *)

\* SIGTERM reaches the listeners there are; the first one replaced the default.
Signal ==
    /\ main # "down" /\ ~told /\ Failure
    /\ armed # {}
    /\ told' = TRUE /\ cancelled' = cancelled \cup armed
    /\ UNCHANGED <<apart, main, armed, alive, open, inflight, draining, expired>>

SignalByDefault == main # "down" /\ ~told /\ Failure /\ armed = {} /\ Gone

\* SIGKILL at the end of the grace period: the signal came before the listener of
\* runUntilSignal, and the servers go on.
KillAfterGrace ==
    /\ told /\ main = "serve" /\ "main" \notin cancelled
    /\ Gone /\ UNCHANGED failures

\* Out of memory, a node that fails, SIGKILL by somebody.
Kill == main # "down" /\ Failure /\ Gone
-----------------------------------------------------------------------------
(* The rest of the process.                                                 *)

\* TargetGroupBindingController.Run sees that its context is done and returns
\* after its workers.
EndRun ==
    /\ "tgb" \in alive \cap cancelled
    /\ alive' = alive \ {"tgb"}
    /\ UNCHANGED <<loadBalancer, main, armed, told, cancelled, open, inflight, draining, expired>>

\* TargetGroupBindingController.Run returns the error of its first step,
\* garbageCollectLegacyMirrorServices, which may take its time; it is logged and
\* nothing starts it again.
RunFails ==
    /\ "tgb" \in alive /\ Failure
    /\ alive' = alive \ {"tgb"}
    /\ UNCHANGED <<apart, main, armed, told, cancelled, open, inflight, draining, expired>>

Arrive(s) ==
    /\ main = "drain" /\ s \in open /\ inflight' = inflight \cup {s}
    /\ UNCHANGED <<loadBalancer, main, armed, told, cancelled, alive, open, draining, expired>>

Answer(s) ==
    /\ s \in inflight /\ inflight' = inflight \ {s}
    /\ UNCHANGED <<loadBalancer, main, armed, told, cancelled, alive, open, draining, expired>>
-----------------------------------------------------------------------------
(* The LoadBalancer controller in this process.                             *)

Running == "lb" \in alive
Live == Running /\ "lb" \notin cancelled

\* Informers and requests need a context that is not done.
Informers == LB!Start \/ LB!DeliverNodes \/ LB!Resync \/ \E s \in Services : LB!DeliverService(s)
Passing == LB!StartPass \/ LB!EndPass \/ \E s \in Services : LB!SkipService(s) \/ LB!ClaimConflict(s)

Inform == Live /\ Informers /\ UNCHANGED process
Pass == Running /\ Passing /\ UNCHANGED process
Claim(s) == Live /\ LB!Claim(s) /\ UNCHANGED process
ClaimFails(s) == Live /\ LB!ClaimFails(s) /\ UNCHANGED process

\* The context is done before the answer of UpdateStatus.
ClaimCancelled(s) ==
    /\ Running /\ ~Live /\ s \in pass.todo /\ LB!Claimable(s)
    /\ \/ UNCHANGED services
       \/ LB!MayWrite /\ LB!Current(s) /\ services' = [services EXCEPT ![s].ingress = pass.desired]
    /\ LB!Abort
    /\ UNCHANGED <<nodes, granted, serviceCache, nodeCache, started, queue, changes, failures,
                   process>>

\* Run returns between two passes, or while it waits for its caches.
LoadBalancerEnds ==
    /\ Running /\ ~Live /\ ~pass.running
    /\ alive' = alive \ {"lb"} /\ started' = FALSE /\ queue' = FALSE
    /\ serviceCache' = [s \in Services |-> None] /\ nodeCache' = {}
    /\ UNCHANGED <<services, nodes, granted, pass, changes, failures,
                   main, armed, told, cancelled, open, inflight, draining, expired>>

LoadBalancer == Inform \/ Pass \/ \E s \in Services : Claim(s)

Users ==
    /\ \/ LB!ChangeNodes \/ LB!Grant
       \/ \E s \in Services : LB!ApplyService(s) \/ LB!ForeignClaim(s) \/ LB!DeleteService(s)
    /\ UNCHANGED process
-----------------------------------------------------------------------------
AgentNext ==
    \/ Boot \/ Main \/ ShutdownTimeout
    \/ Signal \/ SignalByDefault \/ KillAfterGrace \/ Kill
    \/ RunFails \/ EndRun
    \/ \E s \in {"api", "injector"} : ServerFails(s) \/ Arrive(s) \/ Answer(s)
    \/ LoadBalancer \/ LoadBalancerEnds \/ Users
    \/ \E s \in Services : ClaimFails(s) \/ ClaimCancelled(s)

AgentSpec == AgentInit /\ [][AgentNext]_agentVars

\* The process goes on, time passes, contexts that are done are noticed, the
\* kubelet restarts the container and ends one that outlives its grace period.
\* A request in flight need not ever be answered.
AgentFairSpec ==
    /\ AgentSpec
    /\ WF_agentVars(Boot) /\ WF_agentVars(Main) /\ WF_agentVars(ShutdownTimeout) /\ WF_agentVars(KillAfterGrace)
    /\ WF_agentVars(EndRun) /\ WF_agentVars(Pass)
    /\ WF_agentVars(Live /\ LB!Start /\ UNCHANGED process)
    /\ WF_agentVars(Live /\ LB!DeliverNodes /\ UNCHANGED process)
    /\ WF_agentVars(Live /\ LB!Resync /\ UNCHANGED process)
    /\ \A s \in Services :
          /\ WF_agentVars(Live /\ LB!DeliverService(s) /\ UNCHANGED process)
          /\ WF_agentVars(Claim(s))
-----------------------------------------------------------------------------
\* An ingress is written only to an unclaimed Service, also by a controller whose
\* context is done and by one that a new process runs.
ClaimsOnlyUnclaimed == [][LB!ClaimStep]_agentVars

\* Whatever pass was aborted, whenever the process was signalled, killed or left
\* by a failing server: in the end every eligible Service is claimed, if the rules
\* missing in the ClusterRole have been added by then.
Claims == LB!Claims

\* serveAPI has returned; Kill counts as a failure.
Exits == main = "wait" /\ main' = "down" /\ failures' = failures

\* shutdownServers waits "up to shutdownTimeout for in-flight requests to finish",
\* and the TargetGroupBinding controller is not "killed mid-reconcile when the
\* process exits": a process that exits by itself cuts neither off.
GracefulExit ==
    [][Exits => (inflight = {} \/ expired) /\ "tgb" \notin alive]_agentVars

\* Once it is on its way out the process gets there by itself, whatever requests
\* hang and whichever controller is busy.
Leaves == main \in {"drain", "wait"} ~> main = "down"

\* serveAPI "serves until the process receives a termination signal": a process that
\* was signalled is never left to SIGKILL at the end of the grace period.
SignalEnds == [][told /\ main # "down" /\ main' = "down" /\ failures' = failures => Exits]_agentVars

\* The LoadBalancer controller "shuts down gracefully alongside serveAPI's HTTP
\* servers rather than being killed mid-reconcile".
LoadBalancerGraceful ==
    [][Exits => ~pass.running]_agentVars

\* A controller that serveAPI has started reconciles for as long as it serves.
ControllersStayUp == [](main = "serve" /\ ~told => "tgb" \in alive)
=============================================================================
