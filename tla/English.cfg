\* One user, two threads, up to three quizzes of two questions, restarts.
SPECIFICATION Spec
CONSTANTS
    h1 = h1
    h2 = h2
    Handlers = {h1, h2}
    Generated = {"g1", "g2", "g3"}
    Flawed = {"g3"}
    Table <- TheTable
    Kind <- TheKind
    Pattern <- ThePattern
    Alike <- TheAlike
    Levels = {"advanced"}
    Count = 2
    PatternLimit = 1
    HistoryLimit = 1
    Pool <- ThePool
    RecentLimit = 1
    MaxQuizzes = 2
    Faults = {"restart"}
SYMMETRY Symmetry
INVARIANTS
    QuizIsWhole
    WaitsForSomething
    FinishedAfterAll
