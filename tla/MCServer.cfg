SPECIFICATION FairSpec
CONSTANTS
    c1 = c1
    c2 = c2
    c3 = c3
    a1 = a1
    Users = {"u1", "u2"}
    LogIds = {"l1"}
    Bodies = {"b1", "b2"}
    Questions = {"q1"}
    AttemptIds = {a1}
    Slots = {c1, c2}
    Writers = {c1, c2}
    Readers = {c3}
    Columns = {days, subjects}
    Values = {1, 2}
    Pids = {1, 2, 3}
    PidOf <- TwoIds
    MaxDiagnoses = 3
    StateRow = StateRow
    days = days
    subjects = subjects
    Refs = {"x1"}
    Statuses = {"s0", "s1", "s2"}
    Reviewers = {"a1", "a2"}
    SeedStatus <- Seed
    ReviewSlots = {c1, c2}
    MaxReviews = 3
    Callers = {c1, c2, c3}
    Configured = {TRUE, FALSE}
    None = None
INVARIANTS
    OnePrescription
    ServedWasAttempted
    OneSolver
PROPERTIES
    AnswersInOrder
    RecordsStay
    RequestsEnd
CHECK_DEADLOCK FALSE
