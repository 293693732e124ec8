CONSTANTS
    goodRepo = goodRepo
    badRepo = badRepo
    goodVer = goodVer
    badVer = badVer
    goodName = goodName
    badName = badName
    goodFqdn = goodFqdn
    badFqdn = badFqdn
    goodCtr = goodCtr
    badCtr = badCtr
    Absent = Absent
    NoResources = NoResources
    NoUpgradePolicy = NoUpgradePolicy
    NoPrefix = NoPrefix
    BadJson = BadJson
    ParsableRepos = {goodRepo}
    ValidOfedVersions = {goodVer}
    ValidSriovNames = {goodName}
    ValidRdmaNames = {goodName}
    ValidFQDNs = {goodFqdn}
    SupportedContainers <- MCSupportedContainers
    LoadedSchemas <- MCLoadedSchemas
    GuidGroups = 2
    Requests = {r1}
    Policies <- MCBadOfedRepo

SPECIFICATION Spec

INVARIANT RepositoryErrorsNameTheirComponent
