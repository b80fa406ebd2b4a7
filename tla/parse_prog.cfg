CONSTANTS
    Outlines <- MCOutlines
    MaxAfterError = 2
SPECIFICATION Spec
INVARIANT AcceptsOnlyPrograms
PROPERTIES ComplainsOnlyOfErrors 
CHECK_DEADLOCK FALSE
