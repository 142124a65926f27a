\* Two connections at a time (the third address listens), three messages each.
SPECIFICATION FairSpec
CONSTANTS
    Sessions = {s1, s2, s3}
    MaxWrites = 3
INVARIANTS TypeOK NoHandlerOnDeletedSession ClientsAreLive ClientsArePumped
           InFlightIsFront StreamIsComplete
PROPERTIES OrphanedOnlyByLateWrite ClosedSessionsAreDeleted
