SPECIFICATION StalledSpec
CONSTANTS
    u = u
    v = v
    w = w
    x = x
    y = y
    Writers = {u, v, w, x, y}
    Readers = {}
    subjects = subjects
    Columns = {subjects}
    Values = {1, 2, 3}
    Pids = {1, 2, 3}
    PidOf <- OwnId
    MaxDiagnoses = 1
    StateRow = StateRow
    None = None
INVARIANTS
    SomePrescription
CHECK_DEADLOCK FALSE
