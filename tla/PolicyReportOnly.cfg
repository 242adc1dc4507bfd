SPECIFICATION MCSpec
CONSTANTS
    Domains <- MCDomains
    IPs = {"ip1", "ip2"}
    Configs <- MCReloadConfigs
    RuleSets <- MCReloadRules
    Broken = Broken
    mode_override = NoOverride
    NoOverride = NoOverride
    ReloadEnabled = TRUE
    Conns = {c1}
    host <- MCHost
    source_ip <- MCIp
    MaxEdits = 0
    MaxRefreshes = 0
INVARIANTS
    ReportOnlyBlocksNothing
CHECK_DEADLOCK FALSE
