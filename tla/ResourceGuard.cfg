CONSTANTS
    vram = vram
    cpu = cpu
    none = none
    Resources <- MCResources
    Loads <- MCLoads
    Absent = none
    RollingWindow = 3
    Scale = 6
    Ceiling = 96
    LadderPercent <- MCLadder
    MarginPercent = 6
SPECIFICATION Spec
INVARIANTS
    TypeOK
    SustainedPressureEngages
    ProtectionsEngaged
    CalmRecovers
    ColdYieldsFirst
PROPERTIES
    LadderSpec
    NoFlap
