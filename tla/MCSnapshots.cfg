SPECIFICATION Spec
CHECK_DEADLOCK FALSE
CONSTANTS
    Fanout = 1
    Pages = {1, 2, 3}
    Keys = 2
    Word = 16
    Procs = {p1, p2}
    Executions <- MCExecutions
    Options <- MCOptions
    Functions = 2
    MaxPages = 2
SYMMETRY MCSymmetry
INVARIANTS SeeksSucceed PagesReachable
PROPERTIES SeeksAreFaithful
