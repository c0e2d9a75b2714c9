CONSTANTS
    ana = ana
    luz = luz
    rey = rey
    paz = paz
    d1 = d1
    d2 = d2
    k1 = k1
    j1 = j1
    j2 = j2
    None = None
    Word = {ana, luz, rey, paz}
    Name <- MCName
    Doc = {d1,d2}
    Registry <- MCRegistry
    Key = {k1}
    Job = {j1, j2}
    MaxParty = 2
    MaxEdit = 1
    MaxCrash = 1
    p1 = p1
    p2 = p2
    SecretProcess = {p1, p2}
    SecretName = {secret, other}
    SecretKey = {"machine", "operator"}
    Narrowed = {secret}
    Full = Full
    Allow = {Full, {secret}}
    Configs <- MCConfigs
    Contents = {{secret, other}}
    Ttl = 1
    MaxTime = 2
SPECIFICATION SpecAny
INVARIANTS LeadOnce ClaimsShard HitsHonest
PROPERTIES RegistryDecides NothingParked
