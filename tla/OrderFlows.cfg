SPECIFICATION Spec
INVARIANTS
    TypeOK
    
    LedgerIsSound
CHECK_DEADLOCK FALSE
