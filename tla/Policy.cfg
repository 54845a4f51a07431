\* pkg is built, finds its ABI and runs commands on repositories and files.
SPECIFICATION FairPolicySpec
CONSTANTS
    None = None
    Paths <- AllPaths
    Repos = {"NextBSD", "other"}
    Offers <- AllOffers
    Systems <- AllSystems
    Locked = {"base", "lib"}
    MaxOpen = 3
    MaxPatterns = 2
    MaxCommands = 2
INVARIANTS PolicyTypeOK BaseIsNextbsd RefusalChangesNothing DependenciesRegistered AbiRespected HostChecksPass UrlIsPublished AbiIgnoresNote
PROPERTIES CommandsEnd
CHECK_DEADLOCK FALSE
