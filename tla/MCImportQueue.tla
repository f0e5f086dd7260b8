---------------------------- MODULE MCImportQueue ----------------------------
(* TLC instances of ImportQueue. *)
EXTENDS ImportQueue, TLC

BothKinds == {"import_xlsx", "steam_sync_full"}

\* Job ids, users, tokens and drain ids are interchangeable (safety runs only).
Symmetry == Permutations(Jobs) \cup Permutations(Users)
              \cup Permutations(Tokens) \cup Permutations(Drains)
=============================================================================
