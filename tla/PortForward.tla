----------------------------- MODULE PortForward -----------------------------
(***************************************************************************)
(* The Prometheus port-forward that a control plane server owns            *)
(* (prometheus_port_forward.py): one kubectl child process, started at the *)
(* beginning of the server's lifespan or by a request that finds the       *)
(* endpoint not ready, and stopped at its end.  The manager has no lock.   *)
(*                                                                         *)
(* The processes of the control plane are not part of this module;         *)
(* ControlPlaneProcess says when a server may take these steps.            *)
(***************************************************************************)
EXTENDS Naturals

CONSTANTS
    Pids,           \* ids of control plane processes
    Threads,        \* the lifespan and the concurrent requests of a server
    Tunnels,        \* kubectl port-forward processes, each started once
    NoTunnel

ASSUME TunnelAssumption == NoTunnel \notin Tunnels

VARIABLES
    tunnel,         \* the kubectl processes
    handle,         \* each manager's _process
    step,           \* where a thread of the server is in its manager
    contended       \* history: two threads of one server were in start at once

pfVars == <<tunnel, handle, step, contended>>

StartSteps == {"start", "running", "spawn", "wait"}

PortForwardTypeOK ==
    /\ tunnel \in [Tunnels -> {"unused", "starting", "bound", "exited"}]
    /\ handle \in [Pids -> Tunnels \cup {NoTunnel}]
    /\ step \in [Pids -> [Threads -> {"idle", "ensure", "poll"} \cup StartSteps]]
    /\ contended \in BOOLEAN

PortForwardInit ==
    /\ tunnel = [t \in Tunnels |-> "unused"]
    /\ handle = [p \in Pids |-> NoTunnel]
    /\ step = [p \in Pids |-> [q \in Threads |-> "idle"]]
    /\ contended = FALSE

Alive(t) == t # NoTunnel /\ tunnel[t] \in {"starting", "bound"}

\* the endpoint answers on the local port
EndpointUp == \E t \in Tunnels : tunnel[t] = "bound"

(* A thread goes on, to s if its probe of the endpoint succeeds and to f   *)
(* otherwise; a probe may time out although the endpoint is up.            *)
Step(p, q, s) ==
    /\ step' = [step EXCEPT ![p][q] = s]
    /\ contended' = (contended \/ (s \in StartSteps /\
                        \E o \in Threads \ {q} : step[p][o] \in StartSteps))

Probe(p, q, s, f) ==
    \/ EndpointUp /\ Step(p, q, s)
    \/ Step(p, q, f)

\* The lifespan calls start, a request ensure_running
Enter(p, q, first) ==
    /\ step[p][q] = "idle"
    /\ Step(p, q, first)
    /\ UNCHANGED <<tunnel, handle>>

\* ensure_running: nothing to do if the endpoint is ready or the child runs
EnsureProbe(p, q) ==
    /\ step[p][q] = "ensure"
    /\ Probe(p, q, "idle", "poll")
    /\ UNCHANGED <<tunnel, handle>>

EnsurePoll(p, q) ==
    /\ step[p][q] = "poll"
    /\ Step(p, q, IF Alive(handle[p]) THEN "idle" ELSE "start")
    /\ UNCHANGED <<tunnel, handle>>

\* start: reuse a ready endpoint, then a child that is still starting
StartProbe(p, q) ==
    /\ step[p][q] = "start"
    /\ Probe(p, q, "idle", "running")
    /\ UNCHANGED <<tunnel, handle>>

StartRunning(p, q) ==
    /\ step[p][q] = "running"
    /\ Step(p, q, IF Alive(handle[p]) THEN "idle" ELSE "spawn")
    /\ UNCHANGED <<tunnel, handle>>

\* the new child replaces whatever _process was; without kubectl there is none
StartSpawn(p, q) ==
    /\ step[p][q] = "spawn"
    /\ \/ \E t \in Tunnels :
             /\ tunnel[t] = "unused"
             /\ tunnel' = [tunnel EXCEPT ![t] = "starting"]
             /\ handle' = [handle EXCEPT ![p] = t]
             /\ Step(p, q, "wait")
       \/ Step(p, q, "idle") /\ UNCHANGED <<tunnel, handle>>

\* until the endpoint is ready, the child has exited or startup_timeout
StartWait(p, q) ==
    /\ step[p][q] = "wait"
    /\ Step(p, q, "idle")
    /\ UNCHANGED <<tunnel, handle>>

ManagerStep(p, q) ==
    \/ EnsureProbe(p, q) \/ EnsurePoll(p, q) \/ StartProbe(p, q)
    \/ StartRunning(p, q) \/ StartSpawn(p, q) \/ StartWait(p, q)

\* Mutant: stop forgets the child without ending it
StopForgets(p) ==
    /\ handle' = [handle EXCEPT ![p] = NoTunnel]
    /\ UNCHANGED <<tunnel, step, contended>>

\* stop: SIGTERM, five seconds, SIGKILL for the child it knows
Stop(p) ==
    /\ tunnel' = IF Alive(handle[p]) THEN [tunnel EXCEPT ![handle[p]] = "exited"] ELSE tunnel
    /\ handle' = [handle EXCEPT ![p] = NoTunnel]
    /\ UNCHANGED <<step, contended>>

\* the server's process is gone: its threads and its manager with it
Forget(p) ==
    /\ handle' = [handle EXCEPT ![p] = NoTunnel]
    /\ step' = [step EXCEPT ![p] = [q \in Threads |-> "idle"]]
    /\ UNCHANGED <<tunnel, contended>>

(* kubectl binds the local port, or exits if another one has it; it may    *)
(* also lose its connection to the cluster.                                *)
TunnelBinds(t) ==
    /\ tunnel[t] = "starting"
    /\ tunnel' = [tunnel EXCEPT ![t] = IF EndpointUp THEN "exited" ELSE "bound"]
    /\ UNCHANGED <<handle, step, contended>>

TunnelBreaks(t) ==
    /\ tunnel[t] \in {"starting", "bound"}
    /\ tunnel' = [tunnel EXCEPT ![t] = "exited"]
    /\ UNCHANGED <<handle, step, contended>>

TunnelStep == \E t \in Tunnels : TunnelBinds(t) \/ TunnelBreaks(t)
=============================================================================
