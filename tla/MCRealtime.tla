----------------------------- MODULE MCRealtime -----------------------------
EXTENDS Realtime, TLC

Symmetric ==
    Permutations(Uids) \cup Permutations(Sockets) \cup Permutations(Handlers) \cup Permutations(Keys)
=============================================================================
