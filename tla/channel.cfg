SPECIFICATION Spec
CONSTANTS
    task1 = task1
    Questions = {q1, q2, q3}
    Tasks = {task1}
    TaskOf <- OneTask
    Replies = {c1, c2, c3, c4}
    None = None
INVARIANTS
    NoCrossDelivery
    PublishedIffAwaited
\* A job may ask nothing more, and nobody has to answer.
CHECK_DEADLOCK FALSE
