\* Two sessions, one command on the wire before a pilot waits, one failure.
SPECIFICATION LinkSpec
CONSTANTS
    MaxToken = 2
    Webrtc = {1}
    MaxWire = 1
    MaxFailures = 1
INVARIANTS
    LinkTypeOK
    
PROPERTIES
    OldPilotYields
    RestsWithoutSession
