SPECIFICATION MeasuresSpec
CONSTANTS
    Engines <- TheEngines
    Forced = {"openai_api"}
    AlwaysSearch = {}
    Browser = {"copilot_web"}
    FamilyOf <- TheFamily
    Weights <- TheWeights
    QuestionSets <- TheConfigs
    FirstConfig <- TheFirst
    Profiles <- TheProfiles
    Payloads <- ThePayloads
    Announced <- TheAnnounced
    WeightsChanged = {}
    WindowDays = 2
    ProofDays = 1
    MinAfterDays = 1
    TimelineDays = 3
    StabilityRuns = 2
    MinAnswers = 1
    PValue <- TheP
    Horizon = 4
    MaxRuns = 2
    MaxEdits = 2
INVARIANTS PastRangesSettled ScreensAgree UnflaggedMovesAreOneModel ProofKeepsOneModel
CHECK_DEADLOCK FALSE
