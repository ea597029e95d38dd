SPECIFICATION Spec
CONSTANTS
    p1 = p1
    p2 = p2
    m1 = m1
    m2 = m2
    t1 = t1
    t2 = t2
    lifespan = lifespan
    q1 = q1
    q2 = q2
    Pids <- MCPids
    Managers <- MCManagers
    Tunnels <- MCTunnels
    Threads <- MCThreads
    Lifespan = lifespan
    MaxCommands = 2
    NoPid = NoPid
    NoTunnel = NoTunnel
INVARIANTS
    LiveJobNotInterrupted
    TunnelHasOwner
PROPERTY
    SignalsOnlyServers
SYMMETRY MCSymmetry
\* The commands are bounded, so the model ends.
CHECK_DEADLOCK FALSE
