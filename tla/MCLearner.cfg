CONSTANTS
    Lesson = {"intro"}
    Course = {"python", "sql"}
    Assignment = {"essay", "quiz"}
    Offered = {"intro", "essay"}
    course_id <- MCCourseOf
    Position = {0, 30}
    a = a
    b = b
    Req = {a, b}
    Limit = 2
    MaxEvent = 3
    None = None
SYMMETRY Symmetric
SPECIFICATION Spec
INVARIANTS
    SubmittedNotPending
    CountedShown
    EntriesExplained
    SerialPosition
