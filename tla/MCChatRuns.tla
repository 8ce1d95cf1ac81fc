----------------------------- MODULE MCChatRuns -----------------------------
EXTENDS ChatRuns, TLC

MCSymmetry == Permutations(Runs) \union Permutations(Requests) \union Permutations(Workers)
=============================================================================
