SPECIFICATION CoreSpec
CONSTANTS
    a = a  b = b  c = c
    Id <- MCId
    Disp = 1
    Shell = 2
    SemTask <- ThreeOf
    SemDisp = SemDisp
    Count = 2
    Svc <- TwoOf
    WDisp = WDisp
    Linux = Linux
    MaxCalls = 4
INVARIANT SemaphoreSafe
PROPERTIES CoreShared ReleaseWakes AnswersMatch CallAnswered
CHECK_DEADLOCK FALSE
