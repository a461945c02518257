------------------------------ MODULE MCStore ------------------------------
EXTENDS Store

\* A file that is new, or already at the current schema version.
NewOrMigrated == {{}, {Schema, Earlier}}
Migrated == {{Schema, Earlier}}
=============================================================================
