SPECIFICATION FairPageSpec
CONSTANTS
    Pool = {p1, p2, p3}
    Richest = p1
    MaxTraces = 3
    MaxQuestions = 3
    NoPool = NoPool
INVARIANTS
    PageOfLastSubmission
    PatientUser
PROPERTY
    ButtonsComeBack
CHECK_DEADLOCK FALSE
