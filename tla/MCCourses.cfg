CONSTANTS
    c1 = c1
    c2 = c2
    u1 = u1
    u2 = u2
    s1 = s1
    q1 = q1
    q2 = q2
    CourseId = {c1, c2}
    User = {u1, u2}
    Slug = {s1}
    Req = {q1, q2}
    Seeded <- NoCourse
    SeededSlug <- AnySlug
    Nobody = Nobody
SPECIFICATION FairSpec
INVARIANTS
    CountBounds
    SerialCountExact
    SlugUnique
    PublicationDated
PROPERTY RequestsEnd
