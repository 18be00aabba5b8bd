CONSTANTS
    Nets = {home, guest, phone}
    None = None
    MAX_WIFI_NUM = 3
    QueueSize = 1
SPECIFICATION Spec
INVARIANTS TypeOK ConnectedIsReal NetworksAreKept AllAreTried
