SPECIFICATION Spec
CONSTANTS
    c1 = c1
    c2 = c2
INVARIANTS
    TypeOK
    RunsAreAccountable
    MigrationsAreFaithful
    
    
    

    
    
SYMMETRY Symmetry
CHECK_DEADLOCK FALSE
