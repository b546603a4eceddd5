------------------------------ MODULE MCBackup ------------------------------
\* Backup for TLC: entries are model values and may be swapped.
EXTENDS Backup, TLC

Swap == Permutations(Entry)

=============================================================================
