SPECIFICATION MCSpec
CONSTANTS
    Domains <- MCDomains
    IPs = {"ip1", "ip2"}
    Configs <- MCReloadConfigs
    RuleSets <- MCReloadRules
    Broken = Broken
    mode_override = NoOverride
    NoOverride = NoOverride
    ReloadEnabled = TRUE
    Conns = {c1}
    host <- MCHost
    source_ip <- MCIp
    MaxEdits = 2
    MaxRefreshes = 1
INVARIANTS
    ConsentTable
    BlocksFollowRules
    ConnectionsFollow
    PrefixRead
    ListRead
PROPERTIES
    ReloadCatchesUp
CHECK_DEADLOCK FALSE
