CONSTANTS
    s1 = s1
    s2 = s2
    s3 = s3
    t1 = t1
    t2 = t2
    Characters <- AllCharacters
    Texts <- AllTexts
    NoBlock = NoBlock
    atoi <- Atoi
    Sessions = {s1, s2, s3}
    Threads = {t1, t2}
    Urls <- AllUrls
    NoSession = NoSession
    NoIndex = NoIndex
SPECIFICATION WebSpec
INVARIANTS WebTypeOK StackInUse ParsesConfigurations OneAccept OneOwner RunsAsConfigured IndexMatchesDirectory
PROPERTIES StartsOrExits Responsive
CHECK_DEADLOCK FALSE
