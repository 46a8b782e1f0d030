------------------------------ MODULE MCChatDemo ------------------------------
(* Answers with marks side by side, a blank piece, pieces that cannot be said,  *)
(* and no answer at all; the turn before left something to say.                *)
EXTENDS ChatDemo

DemoAnswers ==
  { <<>>, <<"a", "mark", "b", "mark", "mark">>, <<"a", "mark", "blank", "mark", "b">>,
    <<"smile", "mark", "smile", "mark", "a">> }
DemoOld == <<"z">>
=============================================================================
