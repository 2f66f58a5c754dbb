--------------------------- MODULE MCBackupRestore --------------------------
\* One caller of create_backup beside restores and recoveries.
EXTENDS BackupRestore
CONSTANT p1
=============================================================================
