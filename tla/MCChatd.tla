------------------------------ MODULE MCChatd ------------------------------
(* Sub-tables of the child table for TLC: the scan treats an entry the same *)
(* whatever the others are, except that tts may kill llmd, which comes      *)
(* after it.                                                                *)
EXTENDS ChatdNanny

FullOrder == <<"kpud", "tts", "player", "llmd">>
VoiceOrder == <<"tts", "player", "llmd">>
PairOrder == <<"tts", "llmd">>
=============================================================================
