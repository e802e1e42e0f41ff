CONSTANTS
    Configs <- MCConfigs
    Systems = {26, 27}
    MaxResets = 1
SPECIFICATION FairSpec
INVARIANTS ReportIsHonest LeavesNothingSilently VerifiedIsUserspace
PROPERTIES Ends
