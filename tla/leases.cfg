\* Three clients come, work, leave and die; pins and explicit stops.
SPECIFICATION LeasesFairSpec
CONSTANTS
    desktop = desktop  chat = chat  command = command
    Clients = {desktop, chat, command}
    NoClient = NoClient
    Ttl = 3
    Idle <- IdleOf
INVARIANTS AttachedIsServed
PROPERTIES GraceIsKept AbandonedDaemonStops
