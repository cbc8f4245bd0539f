CONSTANTS
    Windows = {w1, w2}
    NoWindow = NoWindow
    MaxRetries = 3
SPECIFICATION ShellSpec
INVARIANTS ShellInv CrashIsReported
PROPERTIES QuitCompletes StartupSettles
CHECK_DEADLOCK FALSE
