CONSTANTS
    None = None
    Shown <- MCShown
    AddrShown <- MCShown
    TunnelShown <- MCTunnelShown
    Lo = Lo
    eth0 = eth0
    Uplink <- MCUplink
    Subnet <- MCSubnet
    NoNode = NoNode
    FullName <- MCJoinedName
    NoIP = NoIP
    Dropped = Dropped
    Key = {k1, k2}
    Node = {east, north}
    east = east
    west = west
    north = north
    p1 = p1
    p2 = p2
    s1 = s1
    s2 = s2
    net1 = net1
    net2 = net2
    eip1 = eip1
    eip2 = eip2
    NodeIP <- MCNodeIP
    Host <- MCHostNorth
    Pods <- MCPodsNorth
    Written <- MCTwoServices
    Initial <- MCOneGateway
    MaxChanges = 0
    MaxFaults = 0
SPECIFICATION TurnSpec
CHECK_DEADLOCK FALSE
INVARIANTS CleanlySnated
