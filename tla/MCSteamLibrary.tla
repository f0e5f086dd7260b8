---------------------------- MODULE MCSteamLibrary ----------------------------
(* TLC instances of SteamLibrary. *)
EXTENDS SteamLibrary

\* 10: a game that lists 20 as its DLC, and whose cover has a hashed URL.
\* 20: a season pass that Steam calls a game, or that names 10 as its base.
Base == [kind |-> "game", base |-> NoApp, dlc |-> {20}, name |-> "plain", hashed |-> TRUE]
Pass == [kind |-> "game", base |-> NoApp, dlc |-> {}, name |-> "pack", hashed |-> FALSE]
Dlc  == [kind |-> "dlc", base |-> 10, dlc |-> {}, name |-> "pack", hashed |-> FALSE]

WithPass == [a \in {10, 20} |-> IF a = 10 THEN Base ELSE Pass]
WithDlc  == [a \in {10, 20} |-> IF a = 10 THEN Base ELSE Dlc]
=============================================================================
