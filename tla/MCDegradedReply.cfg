CONSTANT Missing = Missing
SPECIFICATION Spec
INVARIANT TypeOK
PROPERTY LossNeverClears
PROPERTY NamedMalwareStaysInfected
CHECK_DEADLOCK FALSE
