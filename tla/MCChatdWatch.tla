---------------------------- MODULE MCChatdWatch ----------------------------
(* Tables of one and two children; times that keep the order of the code's. *)
EXTENDS ChatdWatch

LlmdOnly == <<"llmd">>
PairOrder == <<"tts", "llmd">>
=============================================================================
