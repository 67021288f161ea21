SPECIFICATION PartsSpec
CONSTANTS
    n1 = n1  w1 = w1  w2 = w2
    NsSec <- Sections1
    Worker <- Workers2
    MaxStray = 1
    MaxRobbed = 0
    MaxLeft = 2
    DevTask = {"a", "b"}
    Granted <- Grants
    MaxFd = 3
    ShChar = {"a", "b", " "}
    MAX_NUM_CHAR = 5
    EnvName = {"x", "y"}
    EnvValue <- Values
    MaxEnv = 2
    Words = 4
    WordBits = 3
    Sample <- Numbers
SYMMETRY WorkerSymmetry
INVARIANTS ServicesExact CipherAsked VerdictsTrue DevicesExact ScreenShowsLine ShellBounded InterruptsApart BigNumExact
PROPERTIES FieldsKept EditsLine
CHECK_DEADLOCK FALSE
