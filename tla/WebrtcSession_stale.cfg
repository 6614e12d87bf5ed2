SPECIFICATION Spec
CONSTANTS
    MaxConnects = 2
PROPERTIES
    OldEventsAreIgnored
