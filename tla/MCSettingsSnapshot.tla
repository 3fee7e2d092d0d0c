-------------------------- MODULE MCSettingsSnapshot --------------------------
EXTENDS SettingsSnapshot

Alike == Permutations(Tenant) \cup Permutations(Call)
===============================================================================
