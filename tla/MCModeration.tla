----------------------------- MODULE MCModeration -----------------------------
(* Small instances of Moderation for TLC.                                   *)
EXTENDS Moderation, TLC

CONSTANTS ana, act

ByAna == act :> ana
=============================================================================
