SPECIFICATION Spec
CONSTANTS
    Jobs = {j1, j2}
    NoJob = NoJob
    MaxStory = 2
    MaxStories = 2
    PersonStatuses = {"todo", "declined"}
SYMMETRY Alike
INVARIANTS
    SoundGraph
    NeverWedged
    OneAttempt
    InProgressIsBacked
PROPERTIES
    VerdictWaits
CHECK_DEADLOCK FALSE
