---------------------------- MODULE MCAchievements ----------------------------
(* TLC instances of Achievements. *)
EXTENDS Achievements
=============================================================================
