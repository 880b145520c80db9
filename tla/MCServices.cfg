CONSTANTS
    People = {1, 2}
    Nobody = Nobody
    Requests = {r1, r2}
    Browsers = {c1, c2}
    Passwords = {a, b}
    NoPassword = NoPassword
    Pages = {pg1, pg2}
    Processes = {n1, n2}
    Posts = {p1, p2}
    TagSet = {t1, t2}
    Unknown = Unknown
    Malformed = Malformed
    Workers = {w1, w2}
    NoteTypes = {k1, k2}
    Channels = {h1, h2}
    Unset = Unset
    MaxVersion = 1
    MaxTokens = 2
    DefaultRules <- Rules
    Configs <- Configurations
    LimitTypes = {"draft_write", "publish_lifecycle", "internal"}
    LimitTime = 2
    MaxChecks = 3
    Files <- UploadedFiles
    MaxImageSize = 2
    MaxAudioSize = 2
    MaxBatchImageSize = 4
    Overhead = 1
    MaxFiles = 2
    MaxPostTags = 2
    MaxPostVersion = 3
    Ids = {1, 2, 3}
    Sizes = {0, 1, 2, 3}
    DefaultSize = 1
    MaxPageSize = 2
    MaxTime = 3
    MaxChanges = 2
    MaxRequests = 2
    Answers <- ProviderAnswers
    MaxAttempts = 3
    Day = 6
    Documents <- Bodies
    IntegrationEvents <- EventsReceived
    SettingsAsked <- SettingsMet
SPECIFICATION Spec
INVARIANTS
    RelationsHold RegistrationHolds CookieHoldsLiveToken QuotaBounded UploadsComplete
    TagsConsistent TraversalComplete DrainedBeforeClosed PreferencesOfOneSave
    OutagesStayOutages AcceptsExactlyValid StoredBodiesParse OnlyOthersNotified
    SettingsRespected
PROPERTY StopsWhenAsked
CHECK_DEADLOCK FALSE
