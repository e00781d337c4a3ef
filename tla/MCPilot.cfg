\* A campaign that is exhausted before the second run is done, and one with room
\* for every request.  Refused for good is an end here: a torn file or a hot
\* journal stops every command.
CHECK_DEADLOCK FALSE
CONSTANTS
    m1 = m1
    m2 = m2
    Order <- TwoModels
    Ceilings = {6, 8}
SPECIFICATION Spec
INVARIANTS SentWhenCleared OutcomeIsHonest
PROPERTIES StoppedForCause
