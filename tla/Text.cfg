SPECIFICATION Spec
INVARIANTS
    ParserExact
    
    
