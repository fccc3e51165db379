--------------------------- MODULE MCTokenRefresh ---------------------------
(* Small instances of TokenRefresh for TLC.                                  *)
EXTENDS TokenRefresh

\* Everything that can go wrong, and what a person may do meanwhile.
EveryKind ==
    {"login", "once", "logout", "cancel", "down", "lost", "save", "read", "kill"}
=============================================================================
