------------------------- MODULE ControlPlaneProcess -------------------------
(***************************************************************************)
(* The control plane as a background process (control_plane_process.py):   *)
(* the commands start, restart and stop, which find the server by the port *)
(* it listens on or by a pid file, and the life of the server processes    *)
(* they launch (control_plane_web.py: create_app, lifespan, main).         *)
(*                                                                         *)
(* A server interrupts the jobs left open in the database while its module *)
(* is imported, then starts its port-forward, and only then binds the      *)
(* port.  Its manager of the port-forward is PortForward.  A process id    *)
(* may be used again by another program.                                   *)
(***************************************************************************)
EXTENDS PortForward, FiniteSets

CONSTANTS
    Managers,       \* command line calls that may run at the same time
    MaxCommands,    \* bound on the commands given
    Lifespan,       \* the thread of a server that runs its lifespan
    NoPid

ASSUME ProcessAssumption ==
    /\ NoPid \notin Pids
    /\ Lifespan \in Threads
    /\ MaxCommands \in Nat

VARIABLES
    proc,           \* the processes by id: servers, "other" programs, "free"
    port,           \* who listens on the control plane's port
    pidFile,        \* server-<port>.pid
    cmd,            \* the commands: operation, step, pid under consideration
    commands,       \* how many were given
    job,            \* a persistent job: its row and the process of its thread
    \* history: a command overlapped another one, lost sight of its server or
    \* could not list the listeners; a server was killed; a pid was reused
    \* between the reading of its command line and the signal
    disturbed, killed, reused

osVars == <<proc, port, pidFile>>
cmdVars == <<cmd, commands>>
historyVars == <<disturbed, killed, reused>>
vars == <<pfVars, osVars, cmdVars, job, historyVars>>

Operations == {"start", "restart", "stop"}
Servers == {"importing", "lifespan", "binding", "serving", "draining"}
Server(p) == p # NoPid /\ proc[p] \in Servers
CmdSteps == {"none", "probe", "listener", "file", "check", "kill", "wait_exit",
             "unlink", "launch", "write_pid", "wait_ready"}
Idle == [op |-> "stop", step |-> "none", pid |-> NoPid, seen |-> FALSE]

TypeOK ==
    /\ PortForwardTypeOK
    /\ proc \in [Pids -> Servers \cup {"free", "other"}]
    /\ port \in Pids \cup {NoPid} /\ pidFile \in Pids \cup {NoPid}
    /\ cmd \in [Managers -> [op : Operations, step : CmdSteps,
                             pid : Pids \cup {NoPid}, seen : BOOLEAN]]
    /\ commands \in 0..MaxCommands
    /\ job \in [row : {"none", "open", "interrupted"}, owner : Pids \cup {NoPid}]
    /\ disturbed \in BOOLEAN /\ killed \in BOOLEAN /\ reused \in BOOLEAN

Init ==
    /\ PortForwardInit
    /\ proc = [p \in Pids |-> "free"]
    /\ port = NoPid /\ pidFile = NoPid
    /\ cmd = [m \in Managers |-> Idle]
    /\ commands = 0
    /\ job = [row |-> "none", owner |-> NoPid]
    /\ disturbed = FALSE /\ killed = FALSE /\ reused = FALSE

----------------------------------------------------------------------------
(* The processes.                                                          *)

Become(p, s) == proc' = [proc EXCEPT ![p] = s]
Released(p) == IF port = p THEN NoPid ELSE port
Orphaned(p) == IF job.owner = p THEN [job EXCEPT !.owner = NoPid] ELSE job

\* import: the runners' constructors interrupt the jobs that are open
Import(p) ==
    /\ proc[p] = "importing"
    /\ Become(p, "lifespan")
    /\ job' = IF job.row = "open" THEN [job EXCEPT !.row = "interrupted"] ELSE job
    /\ Enter(p, Lifespan, "start")
    /\ UNCHANGED <<port, pidFile, cmdVars, historyVars>>

\* port_forward.start has returned
LifespanStarted(p) ==
    /\ proc[p] = "lifespan" /\ step[p][Lifespan] = "idle"
    /\ Become(p, "binding")
    /\ UNCHANGED <<pfVars, port, pidFile, cmdVars, job, historyVars>>

\* a server that cannot bind the port runs the end of its lifespan
Bind(p) ==
    /\ proc[p] = "binding"
    /\ IF port = NoPid THEN port' = p /\ Become(p, "serving")
       ELSE UNCHANGED port /\ Become(p, "draining")
    /\ UNCHANGED <<pfVars, pidFile, cmdVars, job, historyVars>>

SubmitJob(p) ==
    /\ proc[p] = "serving" /\ job.row = "none"
    /\ job' = [row |-> "open", owner |-> p]
    /\ UNCHANGED <<pfVars, osVars, cmdVars, historyVars>>

\* GET /api/connections calls ensure_running
Request(p, q) ==
    /\ proc[p] = "serving" /\ q # Lifespan
    /\ Enter(p, q, "ensure")
    /\ UNCHANGED <<osVars, cmdVars, job, historyVars>>

ManagerWorks(p, q) ==
    /\ Server(p) /\ ManagerStep(p, q)
    /\ UNCHANGED <<osVars, cmdVars, job, historyVars>>

(* The end of the lifespan, once no request is left: port_forward.stop and *)
(* the shutdown of the runners, with their threads gone or left behind;    *)
(* then the process exits.                                                 *)
Drain(p) ==
    /\ proc[p] = "draining" /\ handle[p] # NoTunnel
    /\ \A q \in Threads : step[p][q] = "idle"
    /\ Stop(p)
    /\ UNCHANGED <<osVars, cmdVars, job, historyVars>>

Exit(p) ==
    /\ proc[p] = "draining" /\ handle[p] = NoTunnel
    /\ \A q \in Threads : step[p][q] = "idle"
    /\ Become(p, "free")
    /\ port' = Released(p) /\ job' = Orphaned(p)
    /\ UNCHANGED <<pfVars, pidFile, cmdVars, historyVars>>

\* killed, or ended by an error, without the end of the lifespan
Dies(p) ==
    /\ Server(p)
    /\ Become(p, "free")
    /\ port' = Released(p) /\ job' = Orphaned(p)
    /\ Forget(p)
    /\ killed' = TRUE
    /\ UNCHANGED <<pidFile, cmdVars, disturbed, reused>>

\* another program gets a free id, and may listen on the port
OtherStarts(p) ==
    /\ proc[p] = "free"
    /\ Become(p, "other")
    /\ port' \in {port} \cup (IF port = NoPid THEN {p} ELSE {})
    /\ reused' = (reused \/ \E m \in Managers : cmd[m].pid = p /\ cmd[m].seen)
    /\ UNCHANGED <<pfVars, pidFile, cmdVars, job, disturbed, killed>>

OtherEnds(p) ==
    /\ proc[p] = "other"
    /\ Become(p, "free")
    /\ port' = Released(p)
    /\ UNCHANGED <<pfVars, pidFile, cmdVars, job, historyVars>>

----------------------------------------------------------------------------
(* The commands.                                                           *)

Healthy == Server(port)
At(m, s) == cmd[m].step = s
Cmd(m, s) == cmd' = [cmd EXCEPT ![m].step = s]
Consider(m, p, s) ==
    cmd' = [cmd EXCEPT ![m] = [op |-> @.op, step |-> s, pid |-> p, seen |-> FALSE]]
Saw(m) ==
    cmd' = [cmd EXCEPT ![m] = [op |-> @.op, step |-> "kill", pid |-> @.pid, seen |-> TRUE]]
Done(m) == cmd' = [cmd EXCEPT ![m] = Idle]

Give(m, op) ==
    /\ At(m, "none") /\ commands < MaxCommands
    /\ commands' = commands + 1
    /\ cmd' = [cmd EXCEPT ![m] =
                  [op |-> op, step |-> IF op = "start" THEN "probe" ELSE "listener",
                   pid |-> NoPid, seen |-> FALSE]]
    /\ disturbed' = (disturbed \/ \E o \in Managers \ {m} : ~At(o, "none"))
    /\ UNCHANGED <<pfVars, osVars, job, killed, reused>>

\* start leaves a healthy server alone; a busy one may miss the 2 s timeout
ProbeHealth(m) ==
    /\ At(m, "probe")
    /\ \/ Healthy /\ Done(m)
       \/ Cmd(m, "listener")
    /\ UNCHANGED <<pfVars, osVars, commands, job, historyVars>>

\* ss finds the process that listens on the port, if ss works
Listener(m) ==
    /\ At(m, "listener")
    /\ \E works \in BOOLEAN :
          /\ disturbed' = (disturbed \/ ~works)
          /\ IF works /\ port # NoPid THEN Consider(m, port, "check")
             ELSE IF cmd[m].op = "start" THEN Cmd(m, "launch")
             ELSE Cmd(m, "file")
    /\ UNCHANGED <<pfVars, osVars, commands, job, killed, reused>>

\* _managed_pid_from_file: a pid that is no control plane is forgotten
PidFile(m) ==
    /\ At(m, "file")
    /\ IF Server(pidFile)
       THEN Consider(m, pidFile, "check") /\ UNCHANGED pidFile
       ELSE /\ pidFile' = NoPid
            /\ IF cmd[m].op = "stop" THEN Done(m) ELSE Cmd(m, "launch")
    /\ UNCHANGED <<pfVars, proc, port, commands, job, historyVars>>

\* Mutant: a pid found on the port is not checked
CheckNothing(m) ==
    /\ At(m, "check")
    /\ Saw(m)
    /\ UNCHANGED <<pfVars, osVars, commands, job, historyVars>>

\* the command line of the pid decides whether it may be stopped
Check(m) ==
    /\ At(m, "check")
    /\ IF Server(cmd[m].pid)
       THEN Saw(m)
       ELSE Done(m)
    /\ UNCHANGED <<pfVars, osVars, commands, job, historyVars>>

(* _stop_process sends SIGTERM.  A serving process drains, one that has    *)
(* not begun to serve just ends, and so does another program.              *)
Kill(m) ==
    LET p == cmd[m].pid
    IN  /\ At(m, "kill")
        /\ IF proc[p] = "free"
           THEN Done(m) /\ UNCHANGED <<proc, port, job, handle, step, killed>>
           ELSE /\ Cmd(m, "wait_exit")
                /\ IF proc[p] \in {"serving", "draining"}
                   THEN Become(p, "draining") /\ UNCHANGED <<port, job, handle, step, killed>>
                   ELSE /\ Become(p, "free")
                        /\ port' = Released(p) /\ job' = Orphaned(p)
                        /\ handle' = [handle EXCEPT ![p] = NoTunnel]
                        /\ step' = [step EXCEPT ![p] = [q \in Threads |-> "idle"]]
                        /\ killed' = TRUE
    /\ UNCHANGED <<tunnel, contended, pidFile, commands, disturbed, reused>>

\* Mutant: the command goes on without waiting for the process to end
DoNotWait(m) ==
    /\ At(m, "wait_exit")
    /\ CASE cmd[m].op = "stop" -> Cmd(m, "unlink")
         [] OTHER              -> Cmd(m, "launch")
    /\ UNCHANGED <<pfVars, osVars, commands, job, historyVars>>

\* until the pid is gone; after eight seconds RuntimeError ends the command
WaitExit(m) ==
    /\ At(m, "wait_exit")
    /\ \/ /\ proc[cmd[m].pid] = "free"
          /\ IF cmd[m].op = "stop" THEN Cmd(m, "unlink") ELSE Cmd(m, "launch")
          /\ UNCHANGED disturbed
       \/ /\ proc[cmd[m].pid] # "free"
          /\ Done(m)
          /\ disturbed' = TRUE
    /\ UNCHANGED <<pfVars, osVars, commands, job, killed, reused>>

Unlink(m) ==
    /\ At(m, "unlink")
    /\ pidFile' = NoPid
    /\ Done(m)
    /\ UNCHANGED <<pfVars, proc, port, commands, job, historyVars>>

\* the new process, or OSError
Launch(m) ==
    /\ At(m, "launch")
    /\ \/ \E p \in Pids :
             /\ proc[p] = "free"
             /\ Become(p, "importing")
             /\ Consider(m, p, "write_pid")
             /\ reused' = (reused \/ \E o \in Managers : cmd[o].pid = p /\ cmd[o].seen)
       \/ Done(m) /\ UNCHANGED <<proc, reused>>
    /\ UNCHANGED <<pfVars, port, pidFile, commands, job, disturbed, killed>>

WritePid(m) ==
    /\ At(m, "write_pid")
    /\ pidFile' = cmd[m].pid
    /\ Cmd(m, "wait_ready")
    /\ UNCHANGED <<pfVars, proc, port, commands, job, historyVars>>

(* The command returns when the server answers, has exited, or after       *)
(* startup_timeout, with the server perhaps still on its way.              *)
WaitReady(m) ==
    /\ At(m, "wait_ready")
    /\ Done(m)
    /\ disturbed' = (disturbed \/ (Server(cmd[m].pid) /\ port # cmd[m].pid))
    /\ UNCHANGED <<pfVars, osVars, commands, job, killed, reused>>

CommandStep(m) ==
    \/ ProbeHealth(m) \/ Listener(m) \/ PidFile(m) \/ Check(m) \/ Kill(m)
    \/ WaitExit(m) \/ Unlink(m) \/ Launch(m) \/ WritePid(m) \/ WaitReady(m)

ServerStep(p) ==
    \/ Import(p) \/ LifespanStarted(p) \/ Bind(p) \/ SubmitJob(p)
    \/ \E q \in Threads : Request(p, q) \/ ManagerWorks(p, q)
    \/ Drain(p) \/ Exit(p) \/ Dies(p)

Next ==
    \/ \E m \in Managers : CommandStep(m) \/ \E op \in Operations : Give(m, op)
    \/ \E p \in Pids : ServerStep(p) \/ OtherStarts(p) \/ OtherEnds(p)
    \/ TunnelStep /\ UNCHANGED <<osVars, cmdVars, job, historyVars>>

Spec == Init /\ [][Next]_vars

----------------------------------------------------------------------------
(* A job is interrupted by a starting server only after the process that   *)
(* works on it has ended, as long as commands are given one after the      *)
(* other and none loses sight of its server: a stop that times out, a      *)
(* server that is slower than startup_timeout, an ss that fails.           *)
LiveJobNotInterrupted ==
    ~disturbed => (job.row = "interrupted" => job.owner = NoPid)

(* The commands end control plane processes only: another program can be   *)
(* hit only if it got the pid between the look at the command line and the *)
(* signal.  A stale pid file alone does no harm.                           *)
SignalsOnlyServers ==
    [][\A m \in Managers :
          At(m, "kill") /\ ~At(m, "kill")' /\ ~reused
              => proc[cmd[m].pid] # "other"]_vars

(* A tunnel that runs has a manager that will stop it, unless a server was *)
(* killed or two threads of one server were in start at the same time: the *)
(* later child then replaces the earlier one in _process.                  *)
TunnelHasOwner ==
    \A t \in Tunnels :
        Alive(t) => killed \/ contended \/ \E p \in Pids : Server(p) /\ handle[p] = t
=============================================================================
