--------------------------- MODULE MCPgTokenStore ---------------------------
\* The sets are in the cfg; no symmetry, since the run checks liveness.
EXTENDS PgTokenStore
=============================================================================
