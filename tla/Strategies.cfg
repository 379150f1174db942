SPECIFICATION Spec
CONSTANTS
    c1 = c1
    c2 = c2
    p1 = p1
    p2 = p2
INVARIANTS
    TypeOK
    
    
    

    
SYMMETRY Symmetry
CHECK_DEADLOCK FALSE
