CONSTANTS
    Models <- MCModels
    Host <- MCHost
    Spoof <- MCSpoof
    RadioModels <- MCRadioModels
    Profiles <- MCProfiles
    Dirs = {build, user}
    Home = build
    None = None
    MaxBuilds = 2
SPECIFICATION Spec
INVARIANT ReportedIsInstalled
