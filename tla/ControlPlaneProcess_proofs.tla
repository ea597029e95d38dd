----------------------- MODULE ControlPlaneProcess_proofs -----------------------
(***************************************************************************)
(* What the commands of the control plane and the manager of its port-     *)
(* forward guarantee, proved for every number of process ids, overlapping  *)
(* commands, requests and kubectl children.                                *)
(***************************************************************************)
EXTENDS ControlPlaneProcess, TLAPS

\* A job is worked on by a server that has served and has not ended.
OwnerServes ==
    job.owner # NoPid =>
        /\ proc[job.owner] \in {"serving", "draining"}
        /\ job.row # "none"

\* A command that is about to signal has looked at the command line of its
\* pid, and what it has seen there was no other program.
SeenServer ==
    \A m \in Managers :
        /\ At(m, "kill") => cmd[m].seen
        /\ cmd[m].seen => cmd[m].pid # NoPid
        /\ cmd[m].seen /\ ~reused => proc[cmd[m].pid] # "other"

\* The steps at which a command has one pid in hand, and those at which it has
\* made sure that no server is left.
InHand == {"check", "kill", "wait_exit", "write_pid", "wait_ready"}
Cleared == {"file", "unlink", "launch"}
Launched == {"write_pid", "wait_ready"}

\* Commands come one after the other.
OneCommand == \A m, o \in Managers : ~At(m, "none") /\ ~At(o, "none") => m = o

\* Any server is the one in the command's hand, and there is none once the
\* command has made sure of it.
ServerInHand ==
    \A m \in Managers : \A p \in Pids :
        /\ cmd[m].step \in Cleared => ~Server(p)
        /\ cmd[m].step \in InHand => (Server(p) => p = cmd[m].pid)

\* A server holds the port, unless it has just been launched.
ServerOnPort ==
    (\A m \in Managers : cmd[m].step \notin Launched) =>
        \A p \in Pids : Server(p) => port = p

OneServer == ~disturbed => OneCommand /\ ServerInHand /\ ServerOnPort

\* Unless two threads were in start together, the one that is about to start a
\* child is alone there and its manager has no child that runs.
LoneStart ==
    ~contended =>
        /\ \A p \in Pids : \A q, r \in Threads :
               step[p][q] \in StartSteps /\ step[p][r] \in StartSteps => q = r
        /\ \A p \in Pids, q \in Threads :
               step[p][q] = "spawn" => ~Alive(handle[p])

\* A manager's child has been started.
HandleStarted ==
    \A p \in Pids : handle[p] # NoTunnel => tunnel[handle[p]] # "unused"

ProcessInv ==
    /\ TypeOK
    /\ OwnerServes /\ SeenServer
    /\ OneServer /\ LiveJobNotInterrupted
    /\ LoneStart /\ HandleStarted /\ TunnelHasOwner

-----------------------------------------------------------------------------
USE TunnelAssumption, ProcessAssumption DEF TunnelAssumption, ProcessAssumption

(* The initial state satisfies the inductive invariant: nothing runs, no   *)
(* command has been given.                                                 *)
LEMMA ProcessInit == Init => ProcessInv
<1> SUFFICES ASSUME Init PROVE ProcessInv
  OBVIOUS
<1> USE DEF Init, PortForwardInit, Idle, At
<1>1. TypeOK
  <2>1. PortForwardTypeOK
    BY DEF PortForwardTypeOK, StartSteps
  <2>2. cmd \in [Managers -> [op : Operations, step : CmdSteps,
                             pid : Pids \cup {NoPid}, seen : BOOLEAN]]
    BY DEF CmdSteps, Operations
  <2>3. proc \in [Pids -> Servers \cup {"free", "other"}]
    BY DEF Servers
  <2>4. job \in [row : {"none", "open", "interrupted"}, owner : Pids \cup {NoPid}]
    OBVIOUS
  <2>5. port \in Pids \cup {NoPid} /\ pidFile \in Pids \cup {NoPid}
    OBVIOUS
  <2>6. commands \in 0..MaxCommands
    OBVIOUS
  <2>7. disturbed \in BOOLEAN /\ killed \in BOOLEAN /\ reused \in BOOLEAN
    OBVIOUS
  <2> QED
    BY <2>1, <2>2, <2>3, <2>4, <2>5, <2>6, <2>7, Zenon DEF TypeOK
<1>2. OwnerServes /\ SeenServer /\ LiveJobNotInterrupted
  BY DEF OwnerServes, SeenServer, LiveJobNotInterrupted
<1>3. OneServer
  BY DEF OneServer, OneCommand, ServerInHand, ServerOnPort, Server, Servers
<1>4. LoneStart /\ HandleStarted /\ TunnelHasOwner
  BY DEF LoneStart, HandleStarted, TunnelHasOwner, Alive, StartSteps
<1> QED
  BY <1>1, <1>2, <1>3, <1>4 DEF ProcessInv

Commands == [op : Operations, step : CmdSteps, pid : Pids \cup {NoPid}, seen : BOOLEAN]

\* Command m becomes c, the others stay what they are.
Becomes(m, c) ==
    /\ cmd' \in [Managers -> Commands]
    /\ cmd'[m] = c
    /\ \A o \in Managers \ {m} : cmd'[o] = cmd[o]

(* What the four ways of moving a command on do to its record: the next    *)
(* step, a new pid in hand, the look at its command line, and the end.     *)
LEMMA CommandMoves ==
    ASSUME TypeOK, NEW m \in Managers, NEW s \in CmdSteps, NEW p \in Pids \cup {NoPid}
    PROVE  /\ Cmd(m, s) =>
                Becomes(m, [op |-> cmd[m].op, step |-> s, pid |-> cmd[m].pid,
                            seen |-> cmd[m].seen])
           /\ Consider(m, p, s) =>
                Becomes(m, [op |-> cmd[m].op, step |-> s, pid |-> p, seen |-> FALSE])
           /\ Saw(m) =>
                Becomes(m, [op |-> cmd[m].op, step |-> "kill", pid |-> cmd[m].pid,
                            seen |-> TRUE])
           /\ Done(m) => Becomes(m, Idle)
<1> USE DEF Becomes
<1>1. cmd \in [Managers -> Commands]
  BY DEF TypeOK, Commands
<1>2. cmd[m] = [op |-> cmd[m].op, step |-> cmd[m].step, pid |-> cmd[m].pid,
                seen |-> cmd[m].seen]
  BY <1>1 DEF Commands
<1>3. /\ cmd[m].op \in Operations /\ cmd[m].pid \in Pids \cup {NoPid}
      /\ cmd[m].seen \in BOOLEAN
  BY <1>1 DEF Commands
<1>4. ASSUME NEW c \in Commands, cmd' = [cmd EXCEPT ![m] = c] PROVE Becomes(m, c)
  BY <1>1, <1>4
<1>5. Done(m) => Becomes(m, Idle)
  <2>1. Idle \in Commands
    BY DEF Idle, Commands, Operations, CmdSteps
  <2> QED
    BY <2>1, <1>4 DEF Done
<1>6. ASSUME Cmd(m, s)
      PROVE  Becomes(m, [op |-> cmd[m].op, step |-> s, pid |-> cmd[m].pid,
                         seen |-> cmd[m].seen])
  <2> DEFINE c == [op |-> cmd[m].op, step |-> s, pid |-> cmd[m].pid, seen |-> cmd[m].seen]
  <2>1. c \in Commands
    BY <1>3 DEF Commands
  <2>2. [cmd[m] EXCEPT !.step = s] = c
    BY <1>1, <1>2 DEF Commands
  <2>3. cmd' = [cmd EXCEPT ![m] = c]
    BY <1>6, <2>2 DEF Cmd
  <2> QED
    BY <2>1, <2>3, <1>4
<1>7. ASSUME Consider(m, p, s)
      PROVE  Becomes(m, [op |-> cmd[m].op, step |-> s, pid |-> p, seen |-> FALSE])
  <2> DEFINE c == [op |-> cmd[m].op, step |-> s, pid |-> p, seen |-> FALSE]
  <2>1. c \in Commands
    BY <1>3 DEF Commands
  <2> QED
    BY <1>7, <2>1, <1>4 DEF Consider
<1>8. ASSUME Saw(m)
      PROVE  Becomes(m, [op |-> cmd[m].op, step |-> "kill", pid |-> cmd[m].pid,
                         seen |-> TRUE])
  <2> DEFINE c == [op |-> cmd[m].op, step |-> "kill", pid |-> cmd[m].pid, seen |-> TRUE]
  <2>1. c \in Commands
    BY <1>3 DEF Commands, CmdSteps
  <2> QED
    BY <1>8, <2>1, <1>4 DEF Saw
<1> QED
  BY <1>5, <1>6, <1>7, <1>8

(* What a command given to an idle manager starts with.                    *)
LEMMA CommandGiven ==
    ASSUME TypeOK, NEW m \in Managers, NEW op \in Operations, Give(m, op)
    PROVE  Becomes(m, [op |-> op, step |-> IF op = "start" THEN "probe" ELSE "listener",
                       pid |-> NoPid, seen |-> FALSE])
<1> DEFINE c == [op |-> op, step |-> IF op = "start" THEN "probe" ELSE "listener",
                 pid |-> NoPid, seen |-> FALSE]
<1>1. cmd \in [Managers -> Commands]
  BY DEF TypeOK, Commands
<1>2. c \in Commands
  BY DEF Commands, CmdSteps
<1>3. cmd' = [cmd EXCEPT ![m] = c]
  BY DEF Give
<1> QED
  BY <1>1, <1>2, <1>3 DEF Becomes

(* A manager's step keeps the types of the manager's state.                *)
LEMMA ManagerTypes ==
    ASSUME PortForwardTypeOK, NEW p \in Pids, NEW q \in Threads, ManagerStep(p, q)
    PROVE  PortForwardTypeOK'
<1> USE DEF PortForwardTypeOK, StartSteps, Step, Probe
<1>1. CASE EnsureProbe(p, q)  BY <1>1 DEF EnsureProbe
<1>2. CASE EnsurePoll(p, q)   BY <1>2 DEF EnsurePoll
<1>3. CASE StartProbe(p, q)
  <2>1. CASE Step(p, q, "idle")
    BY <1>3, <2>1 DEF StartProbe
  <2>2. CASE Step(p, q, "running")
    BY <1>3, <2>2 DEF StartProbe
  <2> QED
    BY <1>3, <2>1, <2>2 DEF StartProbe
<1>4. CASE StartRunning(p, q) BY <1>4 DEF StartRunning
<1>5. CASE StartSpawn(p, q)
  <2>1. step' \in [Pids -> [Threads -> {"idle", "ensure", "poll"} \cup StartSteps]]
    BY <1>5 DEF StartSpawn
  <2>2. /\ tunnel' \in [Tunnels -> {"unused", "starting", "bound", "exited"}]
        /\ handle' \in [Pids -> Tunnels \cup {NoTunnel}]
    BY <1>5 DEF StartSpawn
  <2> QED
    BY <1>5, <2>1, <2>2 DEF StartSpawn
<1>6. CASE StartWait(p, q)    BY <1>6 DEF StartWait
<1> QED
  BY <1>1, <1>2, <1>3, <1>4, <1>5, <1>6 DEF ManagerStep

(* A thread that enters the manager keeps the types of its state.          *)
LEMMA EnterTypes ==
    ASSUME PortForwardTypeOK, NEW p \in Pids, NEW q \in Threads,
           NEW s \in {"start", "ensure"}, Enter(p, q, s)
    PROVE  PortForwardTypeOK'
BY DEF PortForwardTypeOK, StartSteps, Step, Enter

(* Every step keeps the types of the processes, the commands, the job and  *)
(* the port-forward.                                                       *)
LEMMA ProcessTypes == TypeOK /\ SeenServer /\ [Next]_vars => TypeOK'
<1> SUFFICES ASSUME TypeOK, SeenServer, [Next]_vars PROVE TypeOK'
  OBVIOUS
<1> USE DEF TypeOK
<1>k. ASSUME UNCHANGED pfVars PROVE PortForwardTypeOK'
  BY <1>k DEF PortForwardTypeOK, pfVars
<1>s. ASSUME NEW p \in Pids PROVE
        /\ Import(p) => TypeOK'
        /\ LifespanStarted(p) \/ Bind(p) \/ SubmitJob(p) => TypeOK'
        /\ Exit(p) \/ OtherStarts(p) \/ OtherEnds(p) => TypeOK'
        /\ Dies(p) => TypeOK'
        /\ Drain(p) => TypeOK'
  <2> USE DEF Become, Released, Orphaned, Servers, osVars, cmdVars, historyVars
  <2>1. ASSUME Import(p) PROVE TypeOK'
    <3>1. PortForwardTypeOK'
      BY <2>1, EnterTypes DEF Import
    <3> QED
      BY <2>1, <3>1 DEF Import
  <2>2. ASSUME LifespanStarted(p) \/ Bind(p) \/ SubmitJob(p) PROVE TypeOK'
    <3>1. UNCHANGED pfVars
      BY <2>2 DEF LifespanStarted, Bind, SubmitJob
    <3> QED
      BY <2>2, <3>1, <1>k DEF LifespanStarted, Bind, SubmitJob
  <2>3. ASSUME Exit(p) \/ OtherStarts(p) \/ OtherEnds(p) PROVE TypeOK'
    <3>1. UNCHANGED pfVars
      BY <2>3 DEF Exit, OtherStarts, OtherEnds
    <3> QED
      BY <2>3, <3>1, <1>k DEF Exit, OtherStarts, OtherEnds
  <2>4. ASSUME Dies(p) PROVE TypeOK'
    <3>1. PortForwardTypeOK'
      BY <2>4 DEF Dies, Forget, PortForwardTypeOK, StartSteps
    <3> QED
      BY <2>4, <3>1 DEF Dies
  <2>5. ASSUME Drain(p) PROVE TypeOK'
    <3>1. PortForwardTypeOK'
      BY <2>5 DEF Drain, Stop, PortForwardTypeOK, StartSteps, Alive
    <3> QED
      BY <2>5, <3>1 DEF Drain
  <2> QED
    BY <2>1, <2>2, <2>3, <2>4, <2>5
<1>r. ASSUME NEW p \in Pids, NEW q \in Threads, Request(p, q) \/ ManagerWorks(p, q)
      PROVE  TypeOK'
  <2>1. PortForwardTypeOK'
    BY <1>r, EnterTypes, ManagerTypes DEF Request, ManagerWorks
  <2> QED
    BY <1>r, <2>1 DEF Request, ManagerWorks, osVars, cmdVars, historyVars
<1>c. ASSUME NEW m \in Managers PROVE
        /\ \A op \in Operations : Give(m, op) => TypeOK'
        /\ CommandStep(m) => TypeOK'
  <2> USE DEF osVars, historyVars, CmdSteps
  <2>m. ASSUME NEW c, Becomes(m, c) PROVE
          cmd' \in [Managers -> [op : Operations, step : CmdSteps,
                                pid : Pids \cup {NoPid}, seen : BOOLEAN]]
    BY <2>m DEF Becomes, Commands
  <2>1. ASSUME NEW op \in Operations, Give(m, op) PROVE TypeOK'
    <3>1. disturbed' \in BOOLEAN /\ commands' \in 0..MaxCommands
      BY <2>1 DEF Give
    <3> QED
      BY <2>1, <1>k, <2>m, <3>1, CommandGiven DEF Give
  <2>2. CASE ProbeHealth(m)
    BY <2>2, <1>k, <2>m, CommandMoves DEF ProbeHealth
  <2>3. CASE Listener(m)
    BY <2>3, <1>k, <2>m, CommandMoves DEF Listener
  <2>4. CASE PidFile(m)
    BY <2>4, <1>k, <2>m, CommandMoves DEF PidFile
  <2>5. CASE Check(m)
    BY <2>5, <1>k, <2>m, CommandMoves DEF Check
  <2>6. CASE Kill(m)
    <3>1. cmd[m].pid \in Pids
      BY <2>6 DEF Kill, SeenServer, At
    <3>2. PortForwardTypeOK'
      <4>1. handle' \in [Pids -> Tunnels \cup {NoTunnel}]
        BY <2>6, <3>1 DEF Kill, PortForwardTypeOK
      <4>2. step' \in [Pids -> [Threads -> {"idle", "ensure", "poll"} \cup StartSteps]]
        BY <2>6, <3>1 DEF Kill, PortForwardTypeOK
      <4> QED
        BY <2>6, <4>1, <4>2 DEF Kill, PortForwardTypeOK
    <3>3. cmd' \in [Managers -> [op : Operations, step : CmdSteps,
                                 pid : Pids \cup {NoPid}, seen : BOOLEAN]]
      BY <2>6, <2>m, CommandMoves DEF Kill
    <3> QED
      BY <2>6, <3>1, <3>2, <3>3 DEF Kill, Become, Released, Orphaned, Servers
  <2>7. CASE WaitExit(m)
    BY <2>7, <1>k, <2>m, CommandMoves DEF WaitExit
  <2>8. CASE Unlink(m)
    BY <2>8, <1>k, <2>m, CommandMoves DEF Unlink
  <2>9. CASE Launch(m)
    <3>1. cmd' \in [Managers -> [op : Operations, step : CmdSteps,
                                 pid : Pids \cup {NoPid}, seen : BOOLEAN]]
      BY <2>9, <2>m, CommandMoves DEF Launch
    <3>2. reused' \in BOOLEAN
      BY <2>9 DEF Launch
    <3> QED
      BY <2>9, <1>k, <3>1, <3>2 DEF Launch, Become, Servers
  <2>10. CASE WritePid(m)
    BY <2>10, <1>k, <2>m, CommandMoves DEF WritePid
  <2>11. CASE WaitReady(m)
    BY <2>11, <1>k, <2>m, CommandMoves DEF WaitReady
  <2> QED
    BY <2>1, <2>2, <2>3, <2>4, <2>5, <2>6, <2>7, <2>8, <2>9, <2>10, <2>11
       DEF CommandStep
<1>t. ASSUME TunnelStep, UNCHANGED <<osVars, cmdVars, job, historyVars>> PROVE TypeOK'
  <2>1. PortForwardTypeOK'
    BY <1>t DEF TunnelStep, TunnelBinds, TunnelBreaks, PortForwardTypeOK
  <2> QED
    BY <1>t, <2>1 DEF osVars, cmdVars, historyVars
<1>u. ASSUME UNCHANGED vars PROVE TypeOK'
  BY <1>u, <1>k DEF vars, osVars, cmdVars, historyVars
<1> QED
  BY <1>s, <1>r, <1>c, <1>t, <1>u DEF Next, ServerStep

(* A job keeps its owner only while that server serves or drains: whoever  *)
(* ends the process takes the job's thread with it.                        *)
LEMMA OwnerServesKept ==
    TypeOK /\ SeenServer /\ OwnerServes /\ [Next]_vars => OwnerServes'
<1> SUFFICES ASSUME TypeOK, SeenServer, OwnerServes, [Next]_vars PROVE OwnerServes'
  OBVIOUS
<1> USE DEF OwnerServes
<1>t. /\ proc \in [Pids -> Servers \cup {"free", "other"}]
      /\ job \in [row : {"none", "open", "interrupted"}, owner : Pids \cup {NoPid}]
  BY DEF TypeOK
<1>u. ASSUME UNCHANGED <<proc, job>> PROVE OwnerServes'
  BY <1>u
<1>s. ASSUME NEW p \in Pids PROVE
        ServerStep(p) \/ OtherStarts(p) \/ OtherEnds(p) => OwnerServes'
  <2> USE DEF Become, Orphaned
  <2>1. CASE Import(p)
    BY <2>1, <1>t DEF Import
  <2>2. CASE LifespanStarted(p)
    BY <2>2, <1>t DEF LifespanStarted
  <2>3. CASE Bind(p)
    BY <2>3, <1>t DEF Bind
  <2>4. CASE SubmitJob(p)
    BY <2>4, <1>t DEF SubmitJob, osVars
  <2>5. ASSUME NEW q \in Threads, Request(p, q) \/ ManagerWorks(p, q) PROVE OwnerServes'
    BY <2>5, <1>u DEF Request, ManagerWorks, osVars
  <2>6. CASE Drain(p)
    BY <2>6, <1>u DEF Drain, osVars
  <2>7. CASE Exit(p)
    BY <2>7, <1>t DEF Exit
  <2>8. CASE Dies(p)
    BY <2>8, <1>t DEF Dies
  <2>9. CASE OtherStarts(p)
    BY <2>9, <1>t DEF OtherStarts
  <2>10. CASE OtherEnds(p)
    BY <2>10, <1>t DEF OtherEnds
  <2> QED
    BY <2>1, <2>2, <2>3, <2>4, <2>5, <2>6, <2>7, <2>8, <2>9, <2>10 DEF ServerStep
<1>c. ASSUME NEW m \in Managers, CommandStep(m) PROVE OwnerServes'
  <2>1. CASE Kill(m)
    <3>1. cmd[m].pid \in Pids
      BY <2>1 DEF Kill, SeenServer, At, TypeOK
    <3> QED
      BY <2>1, <3>1, <1>t DEF Kill, Become, Orphaned
  <2>2. CASE Launch(m)
    BY <2>2, <1>t DEF Launch, Become
  <2>3. CASE ~Kill(m) /\ ~Launch(m)
    <3>1. UNCHANGED <<proc, job>>
      BY <1>c, <2>3 DEF CommandStep, ProbeHealth, Listener, PidFile, Check, WaitExit, Unlink,
                        WritePid, WaitReady, osVars
    <3> QED
      BY <3>1
  <2> QED
    BY <2>1, <2>2, <2>3
<1>g. ASSUME NEW m \in Managers, NEW op \in Operations, Give(m, op) PROVE OwnerServes'
  BY <1>g, <1>u DEF Give, osVars
<1>r. ASSUME UNCHANGED <<osVars, job>> PROVE OwnerServes'
  BY <1>r, <1>u DEF osVars
<1> QED
  BY <1>s, <1>c, <1>g, <1>r DEF Next, vars

(* A command at its signal saw a server, and the pid has not gone to       *)
(* another program since, or reused would tell.                            *)
LEMMA SeenServerKept == TypeOK /\ SeenServer /\ [Next]_vars => SeenServer'
<1> SUFFICES ASSUME TypeOK, SeenServer, [Next]_vars PROVE SeenServer'
  OBVIOUS
<1>t. /\ proc \in [Pids -> Servers \cup {"free", "other"}]
      /\ \A m \in Managers : cmd[m].pid \in Pids \cup {NoPid} /\ cmd[m].seen \in BOOLEAN
      /\ reused \in BOOLEAN
  BY DEF TypeOK
<1>k. ASSUME UNCHANGED <<cmd, reused>>,
             \A p \in Pids : proc'[p] = "other" => proc[p] = "other"
      PROVE  SeenServer'
  BY <1>k, <1>t DEF SeenServer, At
<1>s. ASSUME NEW p \in Pids PROVE
        ServerStep(p) \/ OtherStarts(p) \/ OtherEnds(p) => SeenServer'
  <2> USE DEF Become, cmdVars, historyVars, osVars
  <2>1. CASE Import(p)
    BY <2>1, <1>t, <1>k DEF Import
  <2>2. CASE LifespanStarted(p)
    BY <2>2, <1>t, <1>k DEF LifespanStarted
  <2>3. CASE Bind(p)
    BY <2>3, <1>t, <1>k DEF Bind
  <2>4. CASE SubmitJob(p)
    BY <2>4, <1>k DEF SubmitJob
  <2>5. ASSUME NEW q \in Threads, Request(p, q) \/ ManagerWorks(p, q) PROVE SeenServer'
    BY <2>5, <1>k DEF Request, ManagerWorks
  <2>6. CASE Drain(p)
    BY <2>6, <1>k DEF Drain
  <2>7. CASE Exit(p)
    BY <2>7, <1>t, <1>k DEF Exit
  <2>8. CASE Dies(p)
    BY <2>8, <1>t, <1>k DEF Dies
  <2>9. CASE OtherStarts(p)
    BY <2>9, <1>t DEF OtherStarts, SeenServer, At
  <2>10. CASE OtherEnds(p)
    BY <2>10, <1>t, <1>k DEF OtherEnds
  <2> QED
    BY <2>1, <2>2, <2>3, <2>4, <2>5, <2>6, <2>7, <2>8, <2>9, <2>10 DEF ServerStep
<1>m. ASSUME NEW m \in Managers, NEW c, Becomes(m, c), reused => reused',
             \A p \in Pids : proc'[p] = "other" => proc[p] = "other",
             c.step = "kill" => c.seen,
             c.seen => c.pid # NoPid /\ (~reused' => proc[c.pid] # "other")
      PROVE  SeenServer'
  <2>1. ASSUME NEW o \in Managers PROVE
          /\ cmd'[o].step = "kill" => cmd'[o].seen
          /\ cmd'[o].seen => /\ cmd'[o].pid # NoPid
                             /\ ~reused' => proc'[cmd'[o].pid] # "other"
    <3>1. cmd'[o].pid \in Pids \cup {NoPid}
      BY <1>m DEF Becomes, Commands
    <3>2. CASE o = m
      BY <3>1, <3>2, <1>m DEF Becomes
    <3>3. CASE o # m
      BY <3>1, <3>3, <1>m DEF Becomes, SeenServer, At
    <3> QED
      BY <3>2, <3>3
  <2> QED
    BY <2>1 DEF SeenServer, At
<1>c. ASSUME NEW m \in Managers, CommandStep(m) PROVE SeenServer'
  <2> USE DEF At, osVars, historyVars
  <2> DEFINE Move(s) == [op |-> cmd[m].op, step |-> s, pid |-> cmd[m].pid,
                         seen |-> cmd[m].seen]
             Look(p, s) == [op |-> cmd[m].op, step |-> s, pid |-> p, seen |-> FALSE]
  <2>k. /\ cmd[m].step = "kill" => cmd[m].seen
        /\ cmd[m].seen => cmd[m].pid # NoPid /\ (~reused => proc[cmd[m].pid] # "other")
    BY DEF SeenServer
  <2>d. ASSUME Done(m), reused => reused',
               \A p \in Pids : proc'[p] = "other" => proc[p] = "other"
        PROVE  SeenServer'
    <3>1. Becomes(m, Idle)
      BY <2>d, CommandMoves DEF CmdSteps
    <3> QED
      BY <2>d, <3>1, <1>m DEF Idle
  <2>v. ASSUME NEW s \in CmdSteps \ {"kill"}, Cmd(m, s), UNCHANGED reused,
               \A p \in Pids : proc'[p] = "other" => proc[p] = "other"
        PROVE  SeenServer'
    <3>1. Becomes(m, Move(s))
      BY <2>v, CommandMoves DEF CmdSteps
    <3> QED
      BY <2>v, <2>k, <3>1, <1>m
  <2>l. ASSUME NEW s \in CmdSteps \ {"kill"}, NEW p \in Pids, Consider(m, p, s),
               reused => reused',
               \A x \in Pids : proc'[x] = "other" => proc[x] = "other"
        PROVE  SeenServer'
    <3>1. Becomes(m, Look(p, s))
      BY <2>l, CommandMoves
    <3> QED
      BY <2>l, <3>1, <1>m
  <2>1. CASE ProbeHealth(m)
    BY <2>1, <2>d, <2>v DEF ProbeHealth, CmdSteps
  <2>2. CASE Listener(m)
    BY <2>2, <2>v, <2>l DEF Listener, TypeOK, CmdSteps
  <2>3. CASE PidFile(m)
    BY <2>3, <2>d, <2>v, <2>l DEF PidFile, TypeOK, Server, CmdSteps
  <2>4. CASE Check(m)
    <3>1. CASE Server(cmd[m].pid)
      <4>1. Becomes(m, [op |-> cmd[m].op, step |-> "kill", pid |-> cmd[m].pid, seen |-> TRUE])
        BY <2>4, <3>1, CommandMoves DEF Check, CmdSteps
      <4> QED
        BY <2>4, <3>1, <4>1, <1>m DEF Check, Server, Servers
    <3>2. CASE ~Server(cmd[m].pid)
      BY <2>4, <3>2, <2>d DEF Check
    <3> QED
      BY <3>1, <3>2
  <2>5. CASE Kill(m)
    <3>1. \A p \in Pids : proc'[p] = "other" => proc[p] = "other"
      BY <2>5, <1>t DEF Kill, Become
    <3>2. CASE proc[cmd[m].pid] = "free"
      BY <2>5, <3>1, <3>2, <2>d DEF Kill
    <3>3. CASE proc[cmd[m].pid] # "free"
      BY <2>5, <3>1, <3>3, <2>v DEF Kill, CmdSteps
    <3> QED
      BY <3>2, <3>3
  <2>6. CASE WaitExit(m)
    BY <2>6, <2>d, <2>v DEF WaitExit, CmdSteps
  <2>7. CASE Unlink(m)
    BY <2>7, <2>d DEF Unlink
  <2>8. CASE Launch(m)
    <3>1. reused => reused'
      BY <2>8 DEF Launch
    <3>2. \A p \in Pids : proc'[p] = "other" => proc[p] = "other"
      BY <2>8, <1>t DEF Launch, Become
    <3>3. Done(m) \/ \E p \in Pids : Consider(m, p, "write_pid")
      BY <2>8 DEF Launch
    <3> QED
      BY <3>1, <3>2, <3>3, <2>d, <2>l DEF CmdSteps
  <2>9. CASE WritePid(m)
    BY <2>9, <2>v DEF WritePid, CmdSteps
  <2>10. CASE WaitReady(m)
    BY <2>10, <2>d DEF WaitReady
  <2> QED
    BY <1>c, <2>1, <2>2, <2>3, <2>4, <2>5, <2>6, <2>7, <2>8, <2>9, <2>10 DEF CommandStep
<1>g. ASSUME NEW m \in Managers, NEW op \in Operations, Give(m, op) PROVE SeenServer'
  BY <1>g, <1>t, CommandGiven DEF Give, SeenServer, At, Becomes, osVars
<1>r. ASSUME UNCHANGED <<osVars, cmdVars, historyVars>> PROVE SeenServer'
  BY <1>r, <1>k DEF osVars, cmdVars, historyVars
<1> QED
  BY <1>s, <1>c, <1>g, <1>r DEF Next, vars

(* The steps of processes and kubectl children leave the commands alone,   *)
(* start no server and take the port from none that goes on.               *)
LEMMA ServersKept ==
    ASSUME TypeOK, NEW p \in Pids,
           ServerStep(p) \/ OtherStarts(p) \/ OtherEnds(p)
    PROVE  /\ UNCHANGED <<cmd, disturbed>>
           /\ \A x \in Pids : Server(x)' => Server(x) /\ (port = x => port' = x)
<1> DEFINE Kept == /\ UNCHANGED <<cmd, disturbed>>
                   /\ \A x \in Pids : Server(x)' => Server(x) /\ (port = x => port' = x)
<1> USE DEF Server, Servers, Become, Released, osVars, cmdVars, historyVars
<1>t. proc \in [Pids -> Servers \cup {"free", "other"}] /\ port \in Pids \cup {NoPid}
  BY DEF TypeOK
<1>1. Import(p) \/ LifespanStarted(p) \/ SubmitJob(p) => Kept
  BY <1>t DEF Import, LifespanStarted, SubmitJob
<1>2. Bind(p) => Kept
  BY <1>t DEF Bind
<1>3. \A q \in Threads : Request(p, q) \/ ManagerWorks(p, q) => Kept
  BY DEF Request, ManagerWorks
<1>4. Drain(p) => Kept
  BY DEF Drain
<1>5. Exit(p) => Kept
  BY <1>t DEF Exit
<1>6. Dies(p) => Kept
  BY <1>t DEF Dies
<1>7. OtherStarts(p) => Kept
  BY <1>t DEF OtherStarts
<1>8. OtherEnds(p) => Kept
  BY <1>t DEF OtherEnds
<1> QED
  BY <1>1, <1>2, <1>3, <1>4, <1>5, <1>6, <1>7, <1>8 DEF ServerStep

(* As long as commands do not overlap and none loses sight of its server,  *)
(* there is one server at most: a command that is about to launch one has  *)
(* seen the last one gone.                                                 *)
LEMMA OneServerKept == TypeOK /\ SeenServer /\ OneServer /\ [Next]_vars => OneServer'
<1> SUFFICES ASSUME TypeOK, SeenServer, OneServer, [Next]_vars PROVE OneServer'
  OBVIOUS
<1>t. /\ proc \in [Pids -> Servers \cup {"free", "other"}]
      /\ port \in Pids \cup {NoPid} /\ disturbed \in BOOLEAN
  BY DEF TypeOK
<1>k. ASSUME UNCHANGED <<cmd, disturbed>>,
             \A x \in Pids : Server(x)' => Server(x) /\ (port = x => port' = x)
      PROVE  OneServer'
  BY <1>k DEF OneServer, OneCommand, ServerInHand, ServerOnPort, At
<1>s. ASSUME NEW p \in Pids, ServerStep(p) \/ OtherStarts(p) \/ OtherEnds(p)
      PROVE  OneServer'
  BY <1>s, <1>k, ServersKept
<1>m. ASSUME NEW m \in Managers, NEW c, Becomes(m, c),
             \A o \in Managers \ {m} : At(o, "none"),
             \A p \in Pids : Server(p)' =>
                 /\ c.step \notin Cleared
                 /\ c.step \in InHand => p = c.pid
                 /\ c.step \notin Launched => port' = p
      PROVE  OneServer'
  <2>1. cmd'[m] = c /\ \A o \in Managers \ {m} : cmd'[o].step = "none"
    BY <1>m DEF Becomes, At
  <2>2. OneCommand'
    BY <2>1 DEF OneCommand, At
  <2>3. ServerInHand'
    BY <2>1, <1>m DEF ServerInHand, Cleared, InHand
  <2>4. ServerOnPort'
    BY <2>1, <1>m DEF ServerOnPort
  <2> QED
    BY <2>2, <2>3, <2>4 DEF OneServer
<1>c. ASSUME NEW m \in Managers, CommandStep(m) PROVE OneServer'
  <2> SUFFICES ASSUME ~disturbed' PROVE OneServer'
    BY DEF OneServer
  <2> USE DEF At, osVars, historyVars
  <2> DEFINE Move(s) == [op |-> cmd[m].op, step |-> s, pid |-> cmd[m].pid,
                         seen |-> cmd[m].seen]
             Look(p, s) == [op |-> cmd[m].op, step |-> s, pid |-> p, seen |-> FALSE]
  <2>a. ~disturbed /\ cmd[m].step # "none"
    BY <1>c, <1>t DEF CommandStep, ProbeHealth, Listener, PidFile, Check, Kill, WaitExit,
                      Unlink, Launch, WritePid, WaitReady
  <2>o. \A o \in Managers \ {m} : At(o, "none")
    BY <2>a DEF OneServer, OneCommand
  <2>p. \A p \in Pids : Server(p) =>
            /\ cmd[m].step \notin Cleared
            /\ cmd[m].step \in InHand => p = cmd[m].pid
            /\ cmd[m].step \notin Launched => port = p
    BY <2>a, <2>o DEF OneServer, ServerInHand, ServerOnPort, Launched
  <2>d. ASSUME Done(m), \A p \in Pids : Server(p)' => port' = p PROVE OneServer'
    <3>1. Becomes(m, Idle)
      BY CommandMoves, <2>d DEF CmdSteps
    <3> QED
      BY <3>1, <2>d, <2>o, <1>m DEF Idle, Cleared, InHand
  <2>v. ASSUME NEW s \in CmdSteps, Cmd(m, s),
               \A p \in Pids : Server(p)' =>
                   /\ s \notin Cleared
                   /\ s \in InHand => p = cmd[m].pid
                   /\ s \notin Launched => port' = p
        PROVE  OneServer'
    <3>1. Becomes(m, Move(s))
      BY CommandMoves, <2>v
    <3> QED
      BY <3>1, <2>v, <2>o, <1>m
  <2>l. ASSUME NEW s \in CmdSteps, NEW x \in Pids, Consider(m, x, s),
               \A p \in Pids : Server(p)' =>
                   s \notin Cleared /\ p = x /\ (s \notin Launched => port' = p)
        PROVE  OneServer'
    <3>1. Becomes(m, Look(x, s))
      BY CommandMoves, <2>l
    <3> QED
      BY <3>1, <2>l, <2>o, <1>m
  <2>f. UNCHANGED osVars => \A p \in Pids \cup {NoPid} :
            (Server(p)' <=> Server(p)) /\ port' = port
    BY DEF Server
  <2> USE DEF Cleared, InHand, Launched, CmdSteps
  <2>1. CASE ProbeHealth(m)
    BY <2>1, <2>p, <2>f, <2>d, <2>v DEF ProbeHealth
  <2>2. CASE Listener(m)
    <3>1. CASE port # NoPid /\ Consider(m, port, "check")
      BY <2>2, <3>1, <2>p, <2>f, <2>l, <1>t DEF Listener
    <3>2. CASE port = NoPid /\ (Cmd(m, "launch") \/ Cmd(m, "file"))
      <4>1. \A p \in Pids : ~Server(p)'
        BY <2>2, <3>2, <2>p, <2>f DEF Listener
      <4> QED
        BY <3>2, <4>1, <2>v
    <3> QED
      BY <2>2, <3>1, <3>2, <2>a, <1>t DEF Listener
  <2>3. CASE PidFile(m)
    <3>1. \A p \in Pids : ~Server(p)' /\ ~Server(p)
      BY <2>3, <2>p DEF PidFile, Server
    <3>2. ~Server(pidFile)
      BY <3>1 DEF Server, TypeOK
    <3> QED
      BY <2>3, <3>1, <3>2, <2>d, <2>v DEF PidFile
  <2>4. CASE Check(m)
    <3>1. CASE Server(cmd[m].pid)
      <4>1. Becomes(m, [op |-> cmd[m].op, step |-> "kill", pid |-> cmd[m].pid, seen |-> TRUE])
        BY <2>4, <3>1, CommandMoves DEF Check
      <4> QED
        BY <2>4, <4>1, <2>p, <2>f, <2>o, <1>m DEF Check
    <3>2. CASE ~Server(cmd[m].pid)
      BY <2>4, <3>2, <2>p, <2>f, <2>d DEF Check
    <3> QED
      BY <3>1, <3>2
  <2>5. CASE Kill(m)
    <3>1. \A p \in Pids : Server(p)' => Server(p) /\ (port = p => port' = p)
      BY <2>5, <1>t DEF Kill, Become, Released, Server, Servers
    <3>2. CASE proc[cmd[m].pid] = "free"
      BY <2>5, <3>1, <3>2, <2>p, <2>d DEF Kill
    <3>3. CASE proc[cmd[m].pid] # "free"
      BY <2>5, <3>1, <3>3, <2>p, <2>v DEF Kill
    <3> QED
      BY <3>2, <3>3
  <2>6. CASE WaitExit(m)
    <3>1. proc[cmd[m].pid] = "free" /\ (Cmd(m, "unlink") \/ Cmd(m, "launch"))
      BY <2>6 DEF WaitExit
    <3>2. \A p \in Pids : ~Server(p)'
      BY <2>6, <3>1, <2>p, <2>f DEF WaitExit, Server, Servers
    <3> QED
      BY <3>1, <3>2, <2>v
  <2>7. CASE Unlink(m)
    <3>1. \A p \in Pids : ~Server(p)'
      BY <2>7, <2>p DEF Unlink, Server
    <3> QED
      BY <2>7, <3>1, <2>d DEF Unlink
  <2>8. CASE Launch(m)
    <3>1. \A p \in Pids : ~Server(p)
      BY <2>8, <2>p DEF Launch
    <3>2. CASE Done(m) /\ UNCHANGED proc
      BY <3>1, <3>2, <2>d DEF Server
    <3>3. ASSUME NEW x \in Pids, Become(x, "importing"), Consider(m, x, "write_pid")
          PROVE  OneServer'
      <4>1. \A p \in Pids : Server(p)' => p = x
        BY <3>1, <3>3, <1>t DEF Become, Server
      <4> QED
        BY <3>3, <4>1, <2>l
    <3> QED
      BY <2>8, <3>2, <3>3 DEF Launch
  <2>9. CASE WritePid(m)
    <3>1. \A p \in Pids : Server(p)' => Server(p)
      BY <2>9 DEF WritePid, Server
    <3> QED
      BY <2>9, <3>1, <2>p, <2>v DEF WritePid
  <2>10. CASE WaitReady(m)
    <3>1. \A p \in Pids : Server(p) => p = cmd[m].pid /\ port = cmd[m].pid
      BY <2>10, <2>p, <1>t DEF WaitReady
    <3> QED
      BY <2>10, <3>1, <2>f, <2>d DEF WaitReady
  <2> QED
    BY <1>c, <2>1, <2>2, <2>3, <2>4, <2>5, <2>6, <2>7, <2>8, <2>9, <2>10 DEF CommandStep
<1>g. ASSUME NEW m \in Managers, NEW op \in Operations, Give(m, op) PROVE OneServer'
  <2> SUFFICES ASSUME ~disturbed' PROVE OneServer'
    BY DEF OneServer
  <2> DEFINE c == [op |-> op, step |-> IF op = "start" THEN "probe" ELSE "listener",
                   pid |-> NoPid, seen |-> FALSE]
  <2>1. ~disturbed /\ \A o \in Managers : At(o, "none")
    BY <1>g, <1>t DEF Give
  <2>2. \A p \in Pids : Server(p)' => port' = p
    BY <1>g, <2>1 DEF Give, Server, OneServer, ServerOnPort, At, Launched, osVars
  <2>3. c.step \notin Cleared \cup InHand
    BY DEF Cleared, InHand
  <2>4. Becomes(m, c)
    BY <1>g, CommandGiven
  <2> QED
    BY <2>1, <2>2, <2>3, <2>4, <1>m
<1>r. ASSUME UNCHANGED <<osVars, cmdVars, historyVars>> PROVE OneServer'
  BY <1>r, <1>k DEF osVars, cmdVars, historyVars, Server
<1> QED
  BY <1>s, <1>c, <1>g, <1>r DEF Next, vars

(* A server that starts interrupts the open jobs; it is then the only      *)
(* server, so that the process that worked on them is gone.                *)
LEMMA LiveJobKept ==
    ASSUME TypeOK, OwnerServes, OneServer, LiveJobNotInterrupted, SeenServer, [Next]_vars
    PROVE  LiveJobNotInterrupted'
<1> USE DEF LiveJobNotInterrupted
<1>t. /\ job \in [row : {"none", "open", "interrupted"}, owner : Pids \cup {NoPid}]
      /\ disturbed \in BOOLEAN
  BY DEF TypeOK
<1>u. ASSUME disturbed => disturbed',
             job'.row = "interrupted" =>
                 job.row = "interrupted" /\ (job.owner = NoPid => job'.owner = NoPid)
      PROVE  LiveJobNotInterrupted'
  BY <1>u
<1>o. ASSUME NEW p \in Pids, job' = Orphaned(p), disturbed => disturbed'
      PROVE  LiveJobNotInterrupted'
  BY <1>o, <1>t DEF Orphaned
<1>s. ASSUME NEW p \in Pids, ServerStep(p) PROVE LiveJobNotInterrupted'
  <2>d. UNCHANGED disturbed
    BY <1>s, ServersKept
  <2>1. CASE Import(p)
    <3> SUFFICES ASSUME ~disturbed, job.row = "open" PROVE job.owner = NoPid
      BY <2>1, <2>d, <1>t DEF Import
    <3>1. Server(p)
      BY <2>1 DEF Import, Server, Servers
    <3>2. \A x \in Pids : Server(x) => x = p
      <4>1. CASE \A m \in Managers : cmd[m].step \notin Launched
        BY <4>1, <3>1 DEF OneServer, ServerOnPort
      <4>2. CASE \E m \in Managers : cmd[m].step \in Launched
        BY <4>2, <3>1 DEF OneServer, ServerInHand, Launched, InHand
      <4> QED
        BY <4>1, <4>2
    <3> SUFFICES ASSUME job.owner # NoPid PROVE FALSE
      OBVIOUS
    <3>3. Server(job.owner) /\ job.owner \in Pids
      BY <1>t DEF OwnerServes, Server, Servers
    <3> QED
      BY <2>1, <3>2, <3>3 DEF OwnerServes, Import
  <2>2. CASE SubmitJob(p)
    BY <2>2, <2>d, <1>u DEF SubmitJob
  <2>3. CASE Exit(p) \/ Dies(p)
    BY <2>3, <2>d, <1>o DEF Exit, Dies
  <2>4. CASE \/ LifespanStarted(p) \/ Bind(p) \/ Drain(p)
             \/ \E q \in Threads : Request(p, q) \/ ManagerWorks(p, q)
    BY <2>4, <2>d, <1>u DEF LifespanStarted, Bind, Drain, Request, ManagerWorks
  <2> QED
    BY <1>s, <2>1, <2>2, <2>3, <2>4 DEF ServerStep
<1>e. ASSUME NEW p \in Pids, OtherStarts(p) \/ OtherEnds(p) PROVE LiveJobNotInterrupted'
  BY <1>e, <1>u DEF OtherStarts, OtherEnds, historyVars
<1>c. ASSUME NEW m \in Managers, CommandStep(m) PROVE LiveJobNotInterrupted'
  <2>1. CASE Kill(m)
    <3>1. cmd[m].pid \in Pids
      BY <2>1 DEF Kill, SeenServer, At, TypeOK
    <3>2. UNCHANGED disturbed /\ (UNCHANGED job \/ job' = Orphaned(cmd[m].pid))
      BY <2>1 DEF Kill
    <3> QED
      BY <3>1, <3>2, <1>o, <1>u
  <2>2. CASE ~Kill(m)
    <3> USE DEF historyVars
    <3>1. CASE ProbeHealth(m) \/ PidFile(m) \/ Check(m) \/ Unlink(m)
      BY <3>1, <1>u DEF ProbeHealth, PidFile, Check, Unlink
    <3>2. CASE Listener(m) \/ WaitReady(m)
      BY <3>2, <1>u DEF Listener, WaitReady
    <3>3. CASE WaitExit(m)
      BY <3>3, <1>u DEF WaitExit
    <3>4. CASE Launch(m)
      BY <3>4, <1>u DEF Launch
    <3>5. CASE WritePid(m)
      BY <3>5, <1>u DEF WritePid
    <3> QED
      BY <1>c, <2>2, <3>1, <3>2, <3>3, <3>4, <3>5 DEF CommandStep
  <2> QED
    BY <2>1, <2>2
<1>g. ASSUME NEW m \in Managers, NEW op \in Operations, Give(m, op)
      PROVE  LiveJobNotInterrupted'
  BY <1>g, <1>u DEF Give
<1>r. ASSUME UNCHANGED <<job, historyVars>> PROVE LiveJobNotInterrupted'
  BY <1>r, <1>u DEF historyVars
<1> QED
  BY <1>s, <1>e, <1>c, <1>g, <1>r DEF Next, vars

(* The threads of the managers move only by Step; whatever else happens to *)
(* the port-forward kills children or makes a manager forget one.          *)
LEMMA ManagerMoves ==
    ASSUME TypeOK, NEW p \in Pids, ServerStep(p) \/ OtherStarts(p) \/ OtherEnds(p)
    PROVE  \/ /\ UNCHANGED <<tunnel, handle>>
              /\ UNCHANGED <<step, contended>> \/ \E q \in Threads, s \in {"start", "ensure"} :
                                                    Enter(p, q, s)
           \/ \E q \in Threads : Server(p) /\ ManagerStep(p, q)
           \/ Stop(p)
           \/ Forget(p)
<1> USE DEF pfVars
<1>1. CASE Import(p)
  BY <1>1 DEF Import, Enter
<1>2. CASE Drain(p)
  BY <1>2 DEF Drain
<1>3. CASE Dies(p)
  BY <1>3 DEF Dies
<1>4. CASE \E q \in Threads : Request(p, q)
  BY <1>4 DEF Request, Enter
<1>5. CASE \E q \in Threads : ManagerWorks(p, q)
  BY <1>5 DEF ManagerWorks
<1>6. CASE \/ LifespanStarted(p) \/ Bind(p) \/ SubmitJob(p) \/ Exit(p)
           \/ OtherStarts(p) \/ OtherEnds(p)
  BY <1>6 DEF LifespanStarted, Bind, SubmitJob, Exit, OtherStarts, OtherEnds
<1> QED
  BY <1>1, <1>2, <1>3, <1>4, <1>5, <1>6 DEF ServerStep

(* What a command or a kubectl child may do to the managers: a signal that *)
(* ends a server resets its manager, a child binds or exits.               *)
LEMMA OthersMove ==
    ASSUME TypeOK, SeenServer, [Next]_vars,
           ~\E p \in Pids : ServerStep(p) \/ OtherStarts(p) \/ OtherEnds(p)
    PROVE  \/ UNCHANGED pfVars
           \/ \E p \in Pids : Forget(p)
           \/ TunnelStep
<1>1. ASSUME NEW m \in Managers, Kill(m)
      PROVE  UNCHANGED pfVars \/ \E p \in Pids : Forget(p)
  <2>1. cmd[m].pid \in Pids
    BY <1>1 DEF Kill, SeenServer, At, TypeOK
  <2> QED
    BY <1>1, <2>1 DEF Kill, Forget, pfVars
<1>2. ASSUME NEW m \in Managers, CommandStep(m), ~Kill(m) PROVE UNCHANGED pfVars
  BY <1>2 DEF CommandStep, ProbeHealth, Listener, PidFile, Check, WaitExit, Unlink, Launch,
              WritePid, WaitReady
<1>3. ASSUME NEW m \in Managers, NEW op \in Operations, Give(m, op) PROVE UNCHANGED pfVars
  BY <1>3 DEF Give
<1>4. UNCHANGED vars => UNCHANGED pfVars
  BY DEF vars
<1> QED
  BY <1>1, <1>2, <1>3, <1>4 DEF Next

PfInv == PortForwardTypeOK /\ LoneStart /\ HandleStarted

(* Only a child that is just started becomes alive.                        *)
LEMMA ChildrenEnd ==
    ASSUME PortForwardTypeOK, NEW p \in Pids
    PROVE  /\ Stop(p) \/ TunnelStep =>
                \A t \in Tunnels : /\ Alive(t)' => Alive(t)
                                   /\ tunnel[t] # "unused" => tunnel'[t] # "unused"
           /\ Stop(p) => \A t \in Tunnels : t = handle[p] => ~Alive(t)'
BY DEF Stop, TunnelStep, TunnelBinds, TunnelBreaks, Alive, PortForwardTypeOK

(* A manager's step, by the child it may start.                            *)
LEMMA ManagerCases ==
    ASSUME NEW p, NEW q, ManagerStep(p, q)
    PROVE  \/ /\ UNCHANGED <<tunnel, handle>>
              /\ \E s \in {"idle", "poll", "start", "running", "spawn"} :
                    /\ Step(p, q, s)
                    /\ s \in StartSteps \ {"start"} => step[p][q] \in StartSteps
                    /\ s = "spawn" => ~Alive(handle[p])
           \/ /\ step[p][q] = "spawn"
              /\ Step(p, q, "wait")
              /\ \E t \in Tunnels :
                    /\ tunnel[t] = "unused"
                    /\ tunnel' = [tunnel EXCEPT ![t] = "starting"]
                    /\ handle' = [handle EXCEPT ![p] = t]
<1> USE DEF Probe, StartSteps
<1>1. CASE EnsureProbe(p, q)  BY <1>1 DEF EnsureProbe
<1>2. CASE EnsurePoll(p, q)   BY <1>2 DEF EnsurePoll
<1>3. CASE StartProbe(p, q)   BY <1>3 DEF StartProbe
<1>4. CASE StartRunning(p, q) BY <1>4 DEF StartRunning
<1>5. CASE StartSpawn(p, q)   BY <1>5 DEF StartSpawn
<1>6. CASE StartWait(p, q)    BY <1>6 DEF StartWait
<1> QED
  BY <1>1, <1>2, <1>3, <1>4, <1>5, <1>6 DEF ManagerStep

(* A thread that moves on keeps its lone place in start, if it is not      *)
(* recorded as contended.                                                  *)
LEMMA LoneStep ==
    ASSUME PfInv, NEW p \in Pids, NEW q \in Threads,
           NEW s \in {"idle", "ensure", "poll"} \cup StartSteps, Step(p, q, s), ~contended'
    PROVE  /\ ~contended
           /\ \A x \in Pids, a, b \in Threads :
                  step'[x][a] \in StartSteps /\ step'[x][b] \in StartSteps => a = b
           /\ \A x \in Pids, a \in Threads :
                  step'[x][a] = IF x = p /\ a = q THEN s ELSE step[x][a]
<1>t. /\ step \in [Pids -> [Threads -> {"idle", "ensure", "poll"} \cup StartSteps]]
      /\ contended \in BOOLEAN
  BY DEF PfInv, PortForwardTypeOK
<1>1. ~contended /\ (s \in StartSteps => \A o \in Threads \ {q} : step[p][o] \notin StartSteps)
  BY <1>t DEF Step
<1>2. \A x \in Pids, a \in Threads :
         step'[x][a] = IF x = p /\ a = q THEN s ELSE step[x][a]
  BY <1>t DEF Step
<1>3. \A x \in Pids, a, b \in Threads :
         step[x][a] \in StartSteps /\ step[x][b] \in StartSteps => a = b
  BY <1>1 DEF PfInv, LoneStart
<1> QED
  BY <1>1, <1>2, <1>3

(* Whatever the threads, commands and children do, a manager that is about *)
(* to start a child has none that runs, unless two threads of one server   *)
(* were in start together.                                                 *)
LEMMA LoneStartKept ==
    TypeOK /\ SeenServer /\ LoneStart /\ HandleStarted /\ [Next]_vars
        => LoneStart' /\ HandleStarted'
<1> SUFFICES ASSUME TypeOK, SeenServer, LoneStart, HandleStarted, [Next]_vars
             PROVE  LoneStart' /\ HandleStarted'
  OBVIOUS
<1>p. PfInv /\ PortForwardTypeOK
  BY DEF PfInv, TypeOK
<1>t. /\ tunnel \in [Tunnels -> {"unused", "starting", "bound", "exited"}]
      /\ handle \in [Pids -> Tunnels \cup {NoTunnel}]
      /\ step \in [Pids -> [Threads -> {"idle", "ensure", "poll"} \cup StartSteps]]
  BY <1>p DEF PortForwardTypeOK
<1>e. ASSUME NEW p \in Pids, NEW q \in Threads,
             NEW s \in {"idle", "ensure", "poll", "start", "running", "spawn"},
             Step(p, q, s), UNCHANGED <<tunnel, handle>>,
             s = "spawn" => ~Alive(handle[p])
      PROVE  LoneStart' /\ HandleStarted'
  <2>1. HandleStarted'
    BY <1>e DEF HandleStarted
  <2>2. ASSUME ~contended'
        PROVE  \A x \in Pids, a \in Threads : step'[x][a] = "spawn" => ~Alive(handle[x])'
    <3>1. ~contended /\ \A x \in Pids, a \in Threads :
             step'[x][a] = IF x = p /\ a = q THEN s ELSE step[x][a]
      BY <1>e, <1>p, <2>2, LoneStep DEF StartSteps
    <3> QED
      BY <1>e, <3>1 DEF LoneStart, Alive
  <2>3. ASSUME ~contended'
        PROVE  \A x \in Pids, a, b \in Threads :
                  step'[x][a] \in StartSteps /\ step'[x][b] \in StartSteps => a = b
    BY <1>e, <1>p, <2>3, LoneStep DEF StartSteps
  <2> QED
    BY <2>1, <2>2, <2>3 DEF LoneStart
<1>w. ASSUME NEW p \in Pids, NEW q \in Threads, NEW t \in Tunnels,
             step[p][q] = "spawn", Step(p, q, "wait"), tunnel[t] = "unused",
             tunnel' = [tunnel EXCEPT ![t] = "starting"],
             handle' = [handle EXCEPT ![p] = t]
      PROVE  LoneStart' /\ HandleStarted'
  <2>1. HandleStarted'
    BY <1>w, <1>t, TunnelAssumption DEF HandleStarted
  <2>2. ASSUME ~contended'
        PROVE  \A x \in Pids, a \in Threads : step'[x][a] = "spawn" => ~Alive(handle[x])'
    <3>1. /\ ~contended
          /\ \A x \in Pids, a \in Threads :
                step'[x][a] = IF x = p /\ a = q THEN "wait" ELSE step[x][a]
          /\ \A a \in Threads : step'[p][a] \in StartSteps => a = q
      BY <1>w, <1>p, <2>2, LoneStep DEF StartSteps
    <3>2. ASSUME NEW x \in Pids, NEW a \in Threads, step'[x][a] = "spawn"
          PROVE  ~Alive(handle[x])'
      <4>1. x # p /\ step[x][a] = "spawn"
        BY <3>1, <3>2 DEF StartSteps
      <4>2. handle'[x] = handle[x] /\ handle[x] # t
        BY <4>1, <1>w, <1>t DEF HandleStarted
      <4>3. ~Alive(handle[x])
        BY <4>1, <3>1 DEF LoneStart
      <4> QED
        BY <4>2, <4>3, <1>w, <1>t DEF Alive
    <3> QED
      BY <3>2
  <2>3. ASSUME ~contended'
        PROVE  \A x \in Pids, a, b \in Threads :
                  step'[x][a] \in StartSteps /\ step'[x][b] \in StartSteps => a = b
    BY <1>w, <1>p, <2>3, LoneStep DEF StartSteps
  <2> QED
    BY <2>1, <2>2, <2>3 DEF LoneStart
<1>u. ASSUME UNCHANGED pfVars PROVE LoneStart' /\ HandleStarted'
  BY <1>u DEF pfVars, LoneStart, HandleStarted, Alive
<1>s. ASSUME NEW p \in Pids, Stop(p) PROVE LoneStart' /\ HandleStarted'
  <2>1. UNCHANGED <<step, contended>>
    BY <1>s DEF Stop
  <2>2. \A x \in Pids : handle'[x] = handle[x] \/ handle'[x] = NoTunnel
    BY <1>s, <1>t DEF Stop
  <2>3. \A t \in Tunnels : /\ Alive(t)' => Alive(t)
                           /\ tunnel[t] # "unused" => tunnel'[t] # "unused"
    BY <1>s, <1>p, ChildrenEnd
  <2>4. ~Alive(NoTunnel)'
    BY DEF Alive
  <2>5. \A x \in Pids : Alive(handle[x])' => Alive(handle[x])
    BY <2>2, <2>3, <2>4, <1>t DEF Alive
  <2> QED
    BY <2>1, <2>2, <2>3, <2>5, <1>t DEF LoneStart, HandleStarted
<1>f. ASSUME NEW p \in Pids, Forget(p) PROVE LoneStart' /\ HandleStarted'
  <2>1. UNCHANGED <<tunnel, contended>>
    BY <1>f DEF Forget
  <2>2. \A x \in Pids, a \in Threads :
           step'[x][a] = IF x = p THEN "idle" ELSE step[x][a]
    BY <1>f, <1>t DEF Forget
  <2>3. \A x \in Pids : handle'[x] = IF x = p THEN NoTunnel ELSE handle[x]
    BY <1>f, <1>t DEF Forget
  <2>4. HandleStarted'
    BY <2>1, <2>3 DEF HandleStarted
  <2> QED
    BY <2>1, <2>2, <2>3, <2>4 DEF LoneStart, StartSteps, Alive
<1>b. ASSUME TunnelStep PROVE LoneStart' /\ HandleStarted'
  <2>1. UNCHANGED <<step, contended, handle>>
    BY <1>b DEF TunnelStep, TunnelBinds, TunnelBreaks
  <2>2. \A t \in Tunnels : /\ tunnel'[t] \in {"starting", "bound"} => Alive(t)
                           /\ tunnel[t] # "unused" => tunnel'[t] # "unused"
    BY <1>b, <1>t DEF TunnelStep, TunnelBinds, TunnelBreaks, Alive
  <2> QED
    BY <2>1, <2>2, <1>t DEF LoneStart, HandleStarted, Alive
<1>1. ASSUME NEW p \in Pids, ServerStep(p) \/ OtherStarts(p) \/ OtherEnds(p)
      PROVE  LoneStart' /\ HandleStarted'
  <2>1. CASE UNCHANGED <<tunnel, handle, step, contended>>
    BY <2>1, <1>u DEF pfVars
  <2>2. CASE \E q \in Threads, s \in {"start", "ensure"} : Enter(p, q, s)
    BY <2>2, <1>e DEF Enter
  <2>3. ASSUME NEW q \in Threads, ManagerStep(p, q) PROVE LoneStart' /\ HandleStarted'
    BY <2>3, ManagerCases, <1>e, <1>w
  <2> QED
    BY <1>1, <2>1, <2>2, <2>3, <1>s, <1>f, ManagerMoves
<1> QED
  BY <1>1, <1>u, <1>f, <1>b, OthersMove

(* A running child stays with the manager of a live server: that manager   *)
(* replaces it only when it has ended, and ends it before its server does. *)
LEMMA TunnelOwnerKept ==
    TypeOK /\ SeenServer /\ LoneStart /\ TunnelHasOwner /\ [Next]_vars => TunnelHasOwner'
<1> SUFFICES ASSUME TypeOK, SeenServer, LoneStart, TunnelHasOwner, [Next]_vars,
                    ~killed', ~contended'
             PROVE  \A t \in Tunnels :
                       Alive(t)' => \E p \in Pids : Server(p)' /\ handle'[p] = t
  BY DEF TunnelHasOwner
<1>t. /\ tunnel \in [Tunnels -> {"unused", "starting", "bound", "exited"}]
      /\ handle \in [Pids -> Tunnels \cup {NoTunnel}]
      /\ proc \in [Pids -> Servers \cup {"free", "other"}]
      /\ killed \in BOOLEAN /\ contended \in BOOLEAN
      /\ PortForwardTypeOK
  BY DEF TypeOK, PortForwardTypeOK
<1> DEFINE Owned == \A t \in Tunnels :
                       Alive(t)' => \E p \in Pids : Server(p)' /\ handle'[p] = t
<1>k. ASSUME ~killed, ~contended, \A t \in Tunnels : Alive(t)' => Alive(t),
             \A p \in Pids : Server(p) /\ handle[p] # NoTunnel =>
                  \/ Server(p)' /\ handle'[p] = handle[p]
                  \/ \A t \in Tunnels : t = handle[p] => ~Alive(t)'
      PROVE  Owned
  <2> SUFFICES ASSUME NEW t \in Tunnels, Alive(t)'
               PROVE  \E p \in Pids : Server(p)' /\ handle'[p] = t
    OBVIOUS
  <2>1. PICK p \in Pids : Server(p) /\ handle[p] = t
    BY <1>k DEF TunnelHasOwner
  <2>2. t # NoTunnel
    BY TunnelAssumption
  <2> QED
    BY <2>1, <2>2, <1>k
<1>s. ASSUME NEW p \in Pids, ServerStep(p) \/ OtherStarts(p) \/ OtherEnds(p) PROVE Owned
  <2> USE DEF Server, Servers, Become, pfVars, osVars, historyVars
  <2>1. CASE Import(p)
    BY <2>1, <1>t, <1>k DEF Import, Enter, Step, Alive
  <2>2. CASE LifespanStarted(p)
    BY <2>2, <1>t, <1>k DEF LifespanStarted, Alive
  <2>3. CASE Bind(p)
    BY <2>3, <1>t, <1>k DEF Bind, Alive
  <2>4. CASE SubmitJob(p)
    BY <2>4, <1>t, <1>k DEF SubmitJob, Alive
  <2>5. ASSUME NEW q \in Threads, Request(p, q) PROVE Owned
    BY <2>5, <1>t, <1>k DEF Request, Enter, Step, Alive
  <2>6. ASSUME NEW q \in Threads, ManagerWorks(p, q) PROVE Owned
    <3>1. UNCHANGED <<proc, killed>> /\ Server(p) /\ ManagerStep(p, q)
      BY <2>6 DEF ManagerWorks
    <3>2. ~killed /\ ~contended
      BY <3>1, <1>t, ManagerCases DEF Step
    <3>3. CASE UNCHANGED <<tunnel, handle>>
      BY <3>1, <3>2, <3>3, <1>k DEF Alive
    <3>4. ASSUME NEW t \in Tunnels, step[p][q] = "spawn",
                 tunnel' = [tunnel EXCEPT ![t] = "starting"],
                 handle' = [handle EXCEPT ![p] = t]
          PROVE  Owned
      <4>1. ~Alive(handle[p])
        BY <3>2, <3>4 DEF LoneStart
      <4>2. Server(p)' /\ handle'[p] = t
        BY <3>1, <3>4, <1>t
      <4>3. ASSUME NEW x \in Tunnels, x # t, Alive(x)'
            PROVE  \E o \in Pids : Server(o)' /\ handle'[o] = x
        <5>1. Alive(x)
          BY <4>3, <3>4, <1>t DEF Alive
        <5>2. PICK o \in Pids : Server(o) /\ handle[o] = x
          BY <5>1, <3>2 DEF TunnelHasOwner
        <5>3. o # p
          BY <5>1, <5>2, <4>1
        <5> QED
          BY <5>2, <5>3, <3>1, <3>4, <1>t
      <4> QED
        BY <4>2, <4>3
    <3> QED
      BY <3>1, <3>3, <3>4, ManagerCases
  <2>7. CASE Drain(p)
    <3>1. UNCHANGED <<proc, killed, contended>> /\ Stop(p)
      BY <2>7 DEF Drain, Stop
    <3>2. /\ \A t \in Tunnels : Alive(t)' => Alive(t)
          /\ \A t \in Tunnels : t = handle[p] => ~Alive(t)'
      BY <3>1, <1>t, ChildrenEnd
    <3>3. \A x \in Pids \ {p} : handle'[x] = handle[x]
      BY <3>1, <1>t DEF Stop
    <3> QED
      BY <3>1, <3>2, <3>3, <1>t, <1>k
  <2>8. CASE Exit(p)
    BY <2>8, <1>t, <1>k DEF Exit, Alive
  <2>9. CASE Dies(p)
    BY <2>9 DEF Dies
  <2>10. CASE OtherStarts(p)
    BY <2>10, <1>t, <1>k DEF OtherStarts, Alive
  <2>11. CASE OtherEnds(p)
    BY <2>11, <1>t, <1>k DEF OtherEnds, Alive
  <2> QED
    BY <1>s, <2>1, <2>2, <2>3, <2>4, <2>5, <2>6, <2>7, <2>8, <2>9, <2>10, <2>11
       DEF ServerStep
<1>f. ASSUME UNCHANGED pfVars, ~killed, \A p \in Pids : Server(p) => Server(p)' PROVE Owned
  BY <1>f, <1>k DEF pfVars, Alive
<1>c. ASSUME NEW m \in Managers, CommandStep(m) PROVE Owned
  <2> USE DEF historyVars, osVars
  <2>1. CASE Kill(m)
    <3>1. cmd[m].pid \in Pids
      BY <2>1 DEF Kill, SeenServer, At, TypeOK
    <3>2. UNCHANGED pfVars /\ ~killed
      BY <2>1 DEF Kill, pfVars
    <3>3. \A p \in Pids : Server(p) => Server(p)'
      BY <2>1, <3>1, <1>t DEF Kill, Become, Server, Servers
    <3> QED
      BY <3>2, <3>3, <1>f
  <2>2. CASE Launch(m)
    <3>1. UNCHANGED pfVars /\ ~killed
      BY <2>2 DEF Launch
    <3>2. \A p \in Pids : Server(p) => Server(p)'
      BY <2>2, <1>t DEF Launch, Become, Server, Servers
    <3> QED
      BY <3>1, <3>2, <1>f
  <2>3. CASE ~Kill(m) /\ ~Launch(m)
    <3>1. UNCHANGED <<pfVars, proc, killed>>
      BY <1>c, <2>3 DEF CommandStep, ProbeHealth, Listener, PidFile, Check, WaitExit, Unlink,
                        WritePid, WaitReady
    <3> QED
      BY <3>1, <1>f DEF Server
  <2> QED
    BY <2>1, <2>2, <2>3
<1>g. ASSUME NEW m \in Managers, NEW op \in Operations, Give(m, op) PROVE Owned
  BY <1>g, <1>f DEF Give, osVars, Server
<1>b. ASSUME TunnelStep, UNCHANGED <<osVars, historyVars>> PROVE Owned
  <2>1. UNCHANGED <<handle, contended, killed, proc>>
    BY <1>b DEF TunnelStep, TunnelBinds, TunnelBreaks, osVars, historyVars
  <2>2. \A t \in Tunnels : Alive(t)' => Alive(t)
    BY <1>b, <1>t DEF TunnelStep, TunnelBinds, TunnelBreaks, Alive
  <2> QED
    BY <2>1, <2>2, <1>k DEF Server
<1>u. ASSUME UNCHANGED vars PROVE Owned
  BY <1>u, <1>f DEF vars, osVars, historyVars, Server
<1> QED
  BY <1>s, <1>c, <1>g, <1>b, <1>u DEF Next

-----------------------------------------------------------------------------

(* The inductive invariant of the control plane's processes and commands.  *)
THEOREM ProcessInductive == Spec => []ProcessInv
<1>1. ProcessInv /\ [Next]_vars => ProcessInv'
  BY ProcessTypes, OwnerServesKept, SeenServerKept, OneServerKept, LiveJobKept,
     LoneStartKept, TunnelOwnerKept DEF ProcessInv
<1> QED
  BY ProcessInit, <1>1, PTL DEF Spec

(* The processes, commands, the job and the port-forward keep their types. *)
THEOREM ProcessTypesHold == Spec => []TypeOK
<1>1. ProcessInv => TypeOK
  BY DEF ProcessInv
<1> QED
  BY ProcessInductive, <1>1, PTL

(* A server that starts, and interrupts the jobs it finds open, interrupts *)
(* none whose process still works on it, as long as the commands come one  *)
(* after the other and none loses sight of its server.                     *)
THEOREM LiveJobsSpared == Spec => []LiveJobNotInterrupted
<1>1. ProcessInv => LiveJobNotInterrupted
  BY DEF ProcessInv
<1> QED
  BY ProcessInductive, <1>1, PTL

(* A kubectl child that runs has a manager that will stop it, unless a     *)
(* server was killed or two of its threads were in start together.         *)
THEOREM TunnelsOwned == Spec => []TunnelHasOwner
<1>1. ProcessInv => TunnelHasOwner
  BY DEF ProcessInv
<1> QED
  BY ProcessInductive, <1>1, PTL

(* At most one server runs while the commands come one after the other and *)
(* none loses sight of its server: what LiveJobsSpared rests on.           *)
THEOREM ServersAlone ==
    Spec => [](~disturbed => \A p, o \in Pids : Server(p) /\ Server(o) => p = o)
<1>1. ASSUME ProcessInv
      PROVE  ~disturbed => \A p, o \in Pids : Server(p) /\ Server(o) => p = o
  <2> SUFFICES ASSUME ~disturbed
               PROVE  \A p, o \in Pids : Server(p) /\ Server(o) => p = o
    OBVIOUS
  <2>1. CASE \A m \in Managers : cmd[m].step \notin Launched
    BY <1>1, <2>1 DEF ProcessInv, OneServer, ServerOnPort
  <2>2. CASE \E m \in Managers : cmd[m].step \in Launched
    BY <1>1, <2>2 DEF ProcessInv, OneServer, ServerInHand, Launched, InHand
  <2> QED
    BY <2>1, <2>2
<1> QED
  BY ProcessInductive, <1>1, PTL

(* A command signals only what was a control plane when it looked: another *)
(* program is hit only if it got the pid in between.                       *)
THEOREM OnlyServersSignalled == Spec => SignalsOnlyServers
<1>1. ASSUME ProcessInv, [Next]_vars,
             NEW m \in Managers, At(m, "kill"), ~reused
      PROVE  proc[cmd[m].pid] # "other"
  BY <1>1 DEF ProcessInv, SeenServer
<1>2. ProcessInv /\ [Next]_vars =>
        [\A m \in Managers : At(m, "kill") /\ ~At(m, "kill")' /\ ~reused
            => proc[cmd[m].pid] # "other"]_vars
  BY <1>1
<1> QED
  BY ProcessInductive, <1>2, PTL DEF Spec, SignalsOnlyServers
=============================================================================
