\* Calls of the LLM capability that leave no record of their use.
\* A stream, a native host and a run of the command line end.
SPECIFICATION ServicesSpec
CONSTANTS
    openai = openai
    local = local
    gpt = gpt
    chat = chat
    Default = Default
    Absent = Absent
    Corrupt = Corrupt
    Provider = {openai, local}
    Model = {gpt}
    Role <- MCRoles
    ProviderPresets = {openai}
    PresetModels = {gpt}
    RolePresets = {chat}
    AllowedRoles = {chat}
    UsageRole = {"x", "y"}
    TokenLimit = 3
    MaxRecords = 2
    MaxOthers = 2
    MaxChunks = 2
    MaxMessages = 3
    MaxCrashes = 2
    MaxPushed = 2
    Frontend = {"tui", "extension"}
    Nobody = Nobody
    ThemeCapacity = 2
    HoursPerDay = 3
    MinutesPerHour = 2
    SqliteApp = {"notes", "todo"}
    Db = {"app", "other"}
    File = {"notes", "todo"}
    FileOf <- MCFileOf
    MaxRows = 2
    NoFile = NoFile
    NoTransaction = NoTransaction
    Unsure = Unsure
    MaxIds = 2
    MaxRestarts = 1
    ManifestFile = {1, 2}
    Manifest <- MCManifest
    NoManifest = NoManifest
    Unreadable = Unreadable
    Blank = " "
    Component = {"n", "a", "o", "home", ".."}
    Path <- MCPath
    Host = {"h1", "h2", "h3"}
    MaxRedirects = 3
    Parent = ".."
    Cwd <- MCCwd
    NoRegistry = NoRegistry
CHECK_DEADLOCK FALSE
INVARIANTS
    EveryCallIsRecorded
