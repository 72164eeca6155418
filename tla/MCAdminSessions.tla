-------------------------- MODULE MCAdminSessions --------------------------
(* AdminSessions for TLC.                                                  *)
EXTENDS AdminSessions, TLC

Symmetry ==
  Permutations(Sessions) \cup Permutations(Admins)
    \cup Permutations(Logins) \cup Permutations(Requests)
=============================================================================
