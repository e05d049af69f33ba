-------------------------- MODULE MCProviderChecks --------------------------
EXTENDS ProviderChecks, TLC

KeySymmetry == Permutations(Key) \cup Permutations(Model)
=============================================================================
