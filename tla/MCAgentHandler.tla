--------------------------- MODULE MCAgentHandler ---------------------------
EXTENDS AgentHandler, TLC

Symmetry == Permutations(Sessions) \cup Permutations(Prompts) \cup Permutations(Cancels)

=============================================================================
