SPECIFICATION Spec
CONSTANTS
    Names <- MCNames
    Reports <- MCReports
    Readings <- MCReadings
    Devices = {"other"}
    Ages = {900}
    MaxAge = 900
    MaxPathDecisions = 1
INVARIANTS
    TypeOK
    AutoIsEarned
    NoWorsePathRecommended
