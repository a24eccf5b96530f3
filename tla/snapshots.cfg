\* Two command lines at a time, three in all; kills, full disks and edits.
CONSTANTS
    p1 = p1  p2 = p2
    None = None  Torn = Torn
    Commands = {p1, p2}
    Sources = {0, 1}
    Modes = {"plain", "private", "lint"}
    Review <- MCReview
    Names = {"v1"}
    Requests <- MCRequests
    Asked <- MCAsked
    Serial = FALSE
    MaxRuns = 3
    MaxFaults = 1
    MaxEdits = 1
SYMMETRY CommandSymmetry
SPECIFICATION Spec
INVARIANTS AnswersAreCurrent GoneIsExplained WholeUnlessOverlapped FilesNeverFailAudits
CHECK_DEADLOCK FALSE
