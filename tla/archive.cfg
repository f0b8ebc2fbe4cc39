SPECIFICATION Spec
CONSTANTS
    Jobs = {j1}
    Purgers = {p1, p2}
    NoJob = NoJob
    MaxRestarts = 2
    MaxAnswers = 2
SYMMETRY Alike
INVARIANTS
    ClaimsAreHeld
    RunningUntouched
    OneAnswer
PROPERTIES
    GoneForGood
\* Nobody has to submit, archive or ask for anything.
CHECK_DEADLOCK FALSE
