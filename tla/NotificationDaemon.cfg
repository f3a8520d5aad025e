SPECIFICATION DaemonSpec
CONSTANTS
    Senders = {client}
    Kinds = {"plain", "transient", "resident"}
    Timeouts = {1, 2}
    MAX_NOTIFICATIONS = 2
    MaxCalls = 3
    MaxTime = 3
    client = client
INVARIANTS ExpirationsSound TablesAgree
CHECK_DEADLOCK FALSE
