SPECIFICATION FairSpec
CONSTANTS
    k1 = k1
    k2 = k2
    k3 = k3
    NoKey = NoKey
    Key <- MCKey
    DnsKey <- MCDnsKey
    Packet <- MCPacket
    Setups <- MCSetups
    MaxGen = 3
    MaxExchange = 1
    InboxCap = 1
    DoneCap = 1
    ReplyCap = 1
CHECK_DEADLOCK FALSE
INVARIANTS
    TableIsSound
PROPERTIES
    CompletionIsOwn
    FlowsSettle
