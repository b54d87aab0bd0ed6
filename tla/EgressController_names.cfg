CONSTANTS
    None = None
    Shown <- MCShown
    AddrShown <- MCShown
    TunnelShown <- MCNamedTunnels
    Lo = Lo
    eth0 = eth0
    Uplink <- MCUplink
    Subnet <- MCSubnet
    Key = {k1}
    Node <- MCNode
    here = here
    east = east
    west = west
    Self = here
    NoNode = NoNode
    FullName <- MCFullName
    Pod = {p1}
    p1 = p1
    p2 = p2
    Host <- MCHost
    Service = {s1}
    s1 = s1
    net1 = net1
    eip1 = eip1
    eip2 = eip2
    Specs <- MCOneSpec
    Endpoints <- MCEndpoints
    NoEndpoints = NoEndpoints
    Worker = {w1}
    Handler = Handler
    MaxChanges = 1
    MaxFaults = 0
SPECIFICATION Spec
CHECK_DEADLOCK FALSE
INVARIANTS TunnelEnsured
