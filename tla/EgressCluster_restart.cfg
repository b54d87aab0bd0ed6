CONSTANTS
    None = None
    Shown <- MCShown
    AddrShown <- MCShown
    TunnelShown <- MCTunnelShown
    Lo = Lo
    eth0 = eth0
    Uplink <- MCUplink
    Subnet <- MCSubnet
    NoNode = NoNode
    FullName <- MCFullName
    NoIP = NoIP
    Dropped = Dropped
    Key = {k1}
    Node = {east, west}
    east = east
    west = west
    north = north
    p1 = p1
    p2 = p2
    s1 = s1
    s2 = s2
    net1 = net1
    net2 = net2
    eip1 = eip1
    eip2 = eip2
    NodeIP <- MCNodeIP
    Host <- MCHost
    Pods <- MCPods
    Written <- MCPlain
    Initial <- MCInUse
    MaxChanges = 1
    MaxFaults = 1
SPECIFICATION TurnSpec
CHECK_DEADLOCK FALSE
INVARIANTS AlwaysSnated
