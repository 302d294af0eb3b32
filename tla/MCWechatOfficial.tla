--------------------------- MODULE MCWechatOfficial ---------------------------
(* Instances of WechatOfficial for TLC: every message has the same sender, so *)
(* that the callbacks and the workers meet in one session.                   *)
EXTENDS WechatOfficial

CONSTANT u
OneSender == [m \in Messages |-> u]
=============================================================================
