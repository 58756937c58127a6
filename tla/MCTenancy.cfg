CONSTANTS
    t1 = t1
    t2 = t2
    p1 = p1
    None = None
    Tenants = {t1, t2}
    Projects = {p1}
    Commands <- MCCommands
    SettingKeys <- MCSettingKeys
    BadSettings <- MCBadSettings
    Times <- MCTimes
    Limit = 1
SPECIFICATION Spec
INVARIANTS
    TrailTellsState
    PagesComplete
CHECK_DEADLOCK FALSE
