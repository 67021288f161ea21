SPECIFICATION ClientSpec
CONSTANTS
    t1 = t1  t2 = t2  s1 = s1  s2 = s2  e1 = e1  m1 = m1  o1 = o1  o2 = o2
    Thread <- Threads2
    NFile = 2
    Service <- OneService
    Sess <- Sessions2
    Enc <- Contexts1
    Mem <- OneBlock
    ASess = {1}
    AOp <- Operations2
    AMem <- OneBlock
    ACtx = {1, 2}
    TheOp = o1
    TheSes = 1
    TheMem = m1
    TMem = {1, 2, 3, 4}
    NParam = 3
    MemLen = 2
    OTZ_MAX_REQ_PARAMS = 4
    OTZ_MAX_RES_PARAMS = 3
    BufWords = 8
INVARIANTS FilesExact ApiExact ProgramsClose InvokeExact
PROPERTY SendUndisturbed
SYMMETRY Symmetric
CHECK_DEADLOCK FALSE
