SPECIFICATION Spec
CONSTANTS
    None = None
    Tables <- MCTables
    Asks <- MCAsks
INVARIANTS ScheduleExact RoadmapHonest AnswersAgree
