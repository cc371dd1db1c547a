CONSTANTS
    MaxPid = 3
    MaxProcesses = 4
    MailboxSlots = 1
    Timeslice = 1
    MaxTicks = 1
    Calls = {"fork", "sleep", "kill", "sigaction"}
    Signals = {15}
    Handled = {15}
    Service = {"wm"}
    Oom = FALSE
SPECIFICATION LiveSpec
PROPERTY ReadyRuns
PROPERTY ZombiesGo
PROPERTY SleeperGetsSignal
