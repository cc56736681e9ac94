---------------------------- MODULE MCUserStatus ----------------------------
(* TLC instances of UserStatus: one process, Redis and a few WebSockets.    *)
EXTENDS UserStatus, TLC

\* Conns and Users are interchangeable; only safety runs use this.
Symmetry == Permutations(Conns) \cup Permutations(Users)
=============================================================================
