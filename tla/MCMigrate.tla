----------------------------- MODULE MCMigrate -----------------------------
(* Migrate for TLC: a first release, the one after it, and one of a branch *)
(* that lacks a file of the second.                                        *)
EXTENDS Migrate

MCReleases == {{1, 2}, {1, 2, 3}, {1, 3}}
=============================================================================
