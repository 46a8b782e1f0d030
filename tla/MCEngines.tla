------------------------------ MODULE MCEngines ------------------------------
(***************************************************************************)
(* The engines of text and sound, which share nothing, checked in one run:    *)
(* the subject is chosen in the initial state and only its machine moves, the  *)
(* others stay in one initial state of their own.                             *)
(***************************************************************************)
EXTENDS LlmSession, Tokenizer, SpmEncode, Synthesis

VARIABLE subject

-----------------------------------------------------------------------------
(* Instances. *)

\* A prompt of one id, a short one, one with repeated ids that is longer than MaxNew;
\* the full vocabulary and a pruned one.
SomePrompts == {<<0>>, <<1, 3>>, <<3, 0, 1, 1, 0>>}
SomeRemaps == {<<0, 1, 2, 3>>, <<2, 0>>}
SomeScores == {-20, 20, 22}

\* Texts of a b A space _ ' s, a character of two bytes and one of three.
Chars == {<<97>>, <<98>>, <<65>>, <<32>>, <<95>>, <<39>>, <<115>>, <<195, 169>>, <<228, 189, 160>>}
Texts(chars, longest) == {FlattenSeq(t) : t \in BoundedSeq(chars, longest)}
Bytes == <<<<97>>, <<98>>, <<65>>, <<32>>, <<95>>, <<39>>, <<115>>, <<195>>, <<169>>,
           <<228>>, <<189>>, <<160>>>>
Wide(vocab) == [k \in DOMAIN vocab |-> [l \in DOMAIN vocab[k] |-> B2U[vocab[k][l]]]]

\* Rules in the order they are learnt; "bb" and "b_" are special, 99 is no id.
Huggingface ==
  [kind |-> "huggingface", prefix |-> <<>>, special |-> <<18, 17, 99>>,
   vocab |-> Wide(Bytes \o <<<<97, 98>>, <<97, 98, 97>>, <<32, 97>>, <<39, 115>>,
                             <<97, 97>>, <<98, 95>>, <<98, 98>>>>),
   rules |-> << <<<<97>>, <<98>>>>, <<<<97, 98>>, <<97>>>>, <<<<288>>, <<97>>>>,
                <<<<39>>, <<115>>>>, <<<<97>>, <<97>>>> >>]
OtherRules ==
  [Huggingface EXCEPT !.special = <<>>, !.prefix = <<0>>,
     !.rules = << <<<<98>>, <<98>>>>, <<<<97>>, <<97>>>>, <<<<97>>, <<98>>>>,
                  <<<<97, 98>>, <<97>>>> >>]
Greedy ==
  [kind |-> "tiktoken", prefix |-> <<0>>, special |-> <<15>>, rules |-> <<>>,
   vocab |-> Bytes \o <<<<97, 98>>, <<98, 97, 97>>, <<97, 98, 32>>, <<98, 95>>>>]
WordPieces ==
  [kind |-> "bert", prefix |-> <<>>, special |-> <<8>>, rules |-> <<>>,
   vocab |-> <<<<97>>, <<98>>, <<95>>, <<39>>, <<115>>, <<35, 35, 97>>, <<35, 35, 98>>,
               <<35, 35, 115>>, <<97, 98>>, <<35, 35, 98, 97>>, <<228, 189, 160>>>>]
NoTable == [kind |-> "tiktoken", prefix |-> <<>>, special |-> <<>>, rules |-> <<>>, vocab |-> <<>>]

SomeInputs ==
  {<<NoTable, <<>>>>}
  \cup ({Huggingface, Greedy, WordPieces} \X Texts(Chars, 3))
  \cup ({Huggingface, OtherRules} \X Texts({<<97>>, <<98>>}, 6))
  \cup ({Huggingface, Greedy, WordPieces} \X Texts({<<97>>, <<98>>, <<32>>}, 4))

Normal(p, s) == [piece |-> p, score |-> s, type |-> "NORMAL"]
ByteOf(b) == [piece |-> <<256 + b>>, score |-> 0, type |-> "BYTE"]
BasePieces ==
  <<[piece |-> <<63>>, score |-> 0, type |-> "UNKNOWN"]>>
    \o [k \in 1..8 |-> ByteOf(<<97, 98, 32, 195, 169, 228, 189, 160>>[k])]
    \o <<Normal(<<97>>, -9), Normal(<<98>>, -9)>>

\* Scores that tie, pieces that only a worse merge leads to, pieces of two bytes.
SomeVocabularies ==
  { BasePieces \o <<Normal(<<97, 98>>, -1), Normal(<<98, 97>>, -2), Normal(<<97, 97>>, -1),
      Normal(<<97, 98, 97>>, 0), Normal(<<98, 98>>, -3), Normal(<<97, 98, 98>>, -3),
      Normal(<<97, 97, 98>>, -5)>>,
    BasePieces \o <<Normal(<<98, 97>>, -1), Normal(<<97, 98>>, -2), Normal(<<97, 98, 97>>, -1),
      Normal(<<98, 97, 98>>, -1), Normal(<<97, 195, 169>>, -1), Normal(<<195, 169>>, -4),
      Normal(<<98, 195, 169>>, -1), Normal(<<98, 97, 195, 169>>, -2)>>,
    BasePieces \o <<Normal(<<195, 169, 97>>, -1), Normal(<<195, 169, 195, 169>>, -1),
      Normal(<<97, 195, 169, 97>>, 0), Normal(<<97, 195, 169>>, -2)>> }

SomeSpmInputs ==
  {<<<<>>, <<>>>>}
  \cup (SomeVocabularies \X
         (Texts({<<97>>, <<98>>}, 5)
            \cup Texts({<<97>>, <<98>>, <<32>>, <<195, 169>>, <<228, 189, 160>>}, 3)))

\* A word that is the head of a longer one, a second line for it, a line without a
\* known token before one that has one.
SomeLexicon ==
  << [word |-> <<"n">>, syls |-> <<"a">>], [word |-> <<"n", "h">>, syls |-> <<"a", "zz", "b">>],
     [word |-> <<"n">>, syls |-> <<"b">>], [word |-> <<"h">>, syls |-> <<"zz">>],
     [word |-> <<"h">>, syls |-> <<"c">>] >>
TokenNumbers ==
  [x \in {"a", "b", "c", ".", ",", "_"} |->
     CHOOSE k \in 1..6 : <<"_", "a", "b", "c", ".", ",">>[k] = x]
SomeLines ==
  BoundedSeq({"n", "h", "comma", "stop"}, 2)
    \cup {<<"n", "comma", "n", "h">>, <<"n", "stop", "h">>, <<"smile">>, <<"n", "bang", "smile", "h">>}

-----------------------------------------------------------------------------
(* The machines side by side. *)

EnginesInit ==
  /\ subject \in {"session", "tokens", "pieces", "synthesis"}
  /\ SessionInit
  /\ subject = "session" \/ (driver = "chat" /\ reuse /\ remap = <<2, 0>> /\ token = 0)
  /\ IF subject = "tokens" THEN TokenInit ELSE Encode(<<NoTable, <<>>>>)
  /\ IF subject = "pieces" THEN SpmInit ELSE BpeEncode(<<<<>>, <<>>>>)
  /\ SynthInit /\ (subject = "synthesis" \/ (split /\ aco))

enginesVars == <<subject, sessionVars, tokenVars, spmVars, synthVars>>

EnginesNext ==
  /\ UNCHANGED subject
  /\ \/ /\ subject = "session" /\ SessionNext
        /\ UNCHANGED <<tokenVars, spmVars, synthVars>>
     \/ /\ subject = "tokens" /\ TokenNext
        /\ UNCHANGED <<sessionVars, spmVars, synthVars>>
     \/ /\ subject = "pieces" /\ SpmNext
        /\ UNCHANGED <<sessionVars, tokenVars, synthVars>>
     \/ /\ subject = "synthesis" /\ SynthNext
        /\ UNCHANGED <<sessionVars, tokenVars, spmVars>>

\* The session's own fairness, where it is the subject.
EnginesSpec ==
  /\ EnginesInit /\ [][EnginesNext]_enginesVars
  /\ WF_sessionVars(subject = "session" /\ (Forward \/ Sample))
=============================================================================
