SPECIFICATION Spec
INVARIANTS
    TypeOK
    CommandsAreAccounted
    PathsAreSound
PROPERTIES
    NoMutationInDoubt
    EverythingEnds
CHECK_DEADLOCK FALSE
