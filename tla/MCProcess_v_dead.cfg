CONSTANTS
    MaxPid = 3
    MaxProcesses = 4
    MailboxSlots = 1
    Timeslice = 1
    MaxTicks = 1
    Calls = {"fork", "kill", "send", "recv"}
    Signals = {9}
    Handled = {}
    Service = {"wm"}
    Oom = FALSE
SPECIFICATION Spec
PROPERTY KilledStaysDead
