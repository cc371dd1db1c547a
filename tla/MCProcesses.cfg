CONSTANTS
    MaxPid = 3
    MaxProcesses = 4
    MailboxSlots = 1
    Timeslice = 1
    MaxTicks = 1
    Calls = {"fork", "kill", "register", "unregister", "send", "recv", "poll", "rpc"}
    Signals = {9}
    Handled = {}
    Service = {"wm"}
    Oom = FALSE
SPECIFICATION MCSpec
INVARIANTS OneRunning WaiterHasLiveChild NoLostMail ServicesAlive
PROPERTIES DeadWithoutMail StoppedUntilCont
