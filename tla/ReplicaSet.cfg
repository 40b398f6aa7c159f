SPECIFICATION Spec
CONSTANTS
    NULL = NULL
    Hosts <- MCHosts
    Me <- MCMe
    SetOf <- MCSetOf
    IsDbGrid <- MCIsDbGrid
    TagsOf <- MCTagsOf
    Electable <- MCElectable
    Clients <- MCClients
    TagSets <- MCTagSets
    Pings <- MCPings
    MaxPing = 99
    Pids = {1, 2}
    MaxServers = 3
INVARIANTS
    TypeOK
    ChosenIsVerified
    PickMeetsPreference
PROPERTY
    DiscoveryEnds
VIEW MCView
