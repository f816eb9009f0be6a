CONSTANTS
    Assignment = {"essay", "quiz"}
    Quiz = {"quiz"}
    max_points <- MCMax
    questions <- MCQuestions
    points <- MCPoints
    correct <- MCCorrect
    Sheet <- MCSheet
    Prec = 1000
    Fine = 100
    Sub = {"s1"}
    Grader = {"g1", "g2"}
    Text = {"t1", "t2"}
    Sent <- MCSent
    Req = {"a", "b"}
    None = None
SPECIFICATION FairSpec
INVARIANTS
    GradedIffGrade
    AutoGradeNearest
    SerialGrade
PROPERTIES
    FeedbackKept
    RequestsEnd
