--------------------------- MODULE MCPriorityGate ---------------------------
EXTENDS PriorityGate

\* A background, the default and a raised priority.
MCMinPriority == -1
=============================================================================
