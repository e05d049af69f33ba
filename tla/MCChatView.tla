----------------------------- MODULE MCChatView -----------------------------
EXTENDS ChatView, TLC

ViewSymmetry == Permutations(Tab) \cup Permutations(Key)
=============================================================================
