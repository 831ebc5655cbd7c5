\* Both callers, commands numbered modulo 2.
SPECIFICATION FairSpec
CONSTANTS
  Callers = {"app", "gpd"}
  Window = 2
  None = None
INVARIANT TypeOK
PROPERTY AppServed
