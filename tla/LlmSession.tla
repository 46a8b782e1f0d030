------------------------------ MODULE LlmSession ------------------------------
(***************************************************************************)
(* The session of qwen_chat (llm/qwen_chat/src/llm.cpp): what the token     *)
(* history, the two length counters and the past key values hold over many  *)
(* turns, for the three drivers of demo/cli_demo.cpp.                       *)
(*                                                                         *)
(* The model itself is external: it gives scores, any scores, and appends   *)
(* to the past what it was fed.                                             *)
(***************************************************************************)
EXTENDS Integers, Sequences, FiniteSets

CONSTANTS
  Tokens,    \* ids of the full vocabulary
  Stops,     \* ids is_stop says yes to
  ImEnd,     \* what "<|im_end|>\n" is encoded to when a talk goes on
  Prompts,   \* encoded prompts
  Remaps,    \* contents of remap_u32.bin: sequences of ids, row of the head to id
  Scores,    \* scores the model may give
  MaxNew,    \* max_new_tokens
  MaxAll     \* bound on the ids of one talk that is never reset

ASSUME SessionAssumption ==
  /\ Stops \subseteq Tokens /\ ImEnd \in Tokens
  /\ Prompts \subseteq Seq(Tokens) /\ <<>> \notin Prompts
  /\ Remaps \subseteq Seq(Tokens) /\ <<>> \notin Remaps
  /\ \A r \in Remaps : \A i, j \in 1..Len(r) : r[i] = r[j] => i = j
  /\ Scores \subseteq Int
  /\ MaxNew \in Nat /\ MaxAll \in Nat

Drivers == {"chat", "benchmark", "evaluate"}

VARIABLES
  driver,      \* which of the three main() started
  reuse,       \* config reuse_kv
  remap,       \* remap_, the identity if there is no file
  sp,          \* "idle", "forward", "sample", "dead", and "off" before load
  history_ids, \* history_ids_
  past,        \* past_key_values_: per position the token, its id, what it saw
  all_seq_len, gen_seq_len, prompt_len,
  input,       \* ids the next forward is called with
  token,       \* last id sampled
  output       \* ids of the answer printed so far

talk == <<history_ids, past, all_seq_len, gen_seq_len, prompt_len>>
sessionVars == <<driver, reuse, remap, sp, talk, input, token, output>>

Ids(s) == {s[i] : i \in 1..Len(s)}
Larger(a, b) == IF a > b THEN a ELSE b

-----------------------------------------------------------------------------
(* sample *)

\* Fault: the history is looked up by row.
FaultByRow(r, ids) == {i \in 1..Len(r) : i \in ids}

\* Rows of the head whose id is in the history, by inv_remap_; ids that were
\* pruned from the vocabulary have no row.
Repeated(r, ids) == {i \in 1..Len(r) : r[i] \in ids}

\* Scores after the penalty of 1.1, times 110.
Penalised(scores, rows) ==
  [i \in DOMAIN scores |->
     IF i \notin rows THEN 110 * scores[i]
     ELSE IF scores[i] < 0 THEN 121 * scores[i] ELSE 100 * scores[i]]

\* The loop: a row is taken if it beats the best so far, which starts with
\* score 0 and row 0 (here 1).
Better(s, n, b) == IF s[n] > b.max THEN [max |-> s[n], row |-> n] ELSE b

BestUpTo(s) ==
  LET best[n \in 0..Len(s)] ==
        IF n = 0 THEN [max |-> 0, row |-> 1] ELSE Better(s, n, best[n - 1])
  IN  best

Argmax(s) == BestUpTo(s)[Len(s)].row

\* Fault: the row itself is taken for the id.
FaultPick(scores, r, ids) == Argmax(Penalised(scores, Repeated(r, ids)))

Pick(scores, r, ids) == r[Argmax(Penalised(scores, Repeated(r, ids)))]

-----------------------------------------------------------------------------
(* forward: row i of the mask and position id i are made before the counters *)
(* move on.  A mask of one row is one cell, which holds for the whole past.  *)

\* Fault: the position of a decoded token counts from the start of the answer.
FaultPosition(all, gen, n, i) == IF n = 1 THEN gen ELSE i - 1 + all

Position(all, gen, n, i) == IF n = 1 THEN all ELSE i - 1 + all

\* Positions of a past of "have" tokens and n new ones that new token i sees.
Sees(all, have, n, i) ==
  IF n = 1 THEN 0..have ELSE {j \in 0..(all + n - 1) : j <= i - 1 + all}

Fed(ids) ==
  [i \in 1..Len(ids) |->
     [tok |-> ids[i],
      pos |-> Position(all_seq_len, gen_seq_len, Len(ids), i),
      sees |-> Sees(all_seq_len, Len(past), Len(ids), i)]]

-----------------------------------------------------------------------------
SessionInit ==
  /\ driver \in Drivers /\ reuse \in BOOLEAN /\ remap \in Remaps
  /\ sp = "idle"
  /\ history_ids = <<>> /\ past = <<>>
  /\ all_seq_len = 0 /\ gen_seq_len = 0 /\ prompt_len = 0
  /\ input = <<>> /\ token \in Tokens /\ output = <<>>

\* Fault: generate_init keeps the length of the last answer.
FaultInitGen ==
  /\ past' = <<>>
  /\ UNCHANGED gen_seq_len
  /\ all_seq_len' = IF reuse THEN all_seq_len ELSE 0

\* generate_init: the past always starts anew, history and length only without
\* reuse_kv (the history is cleared in Respond).
GenerateInit ==
  /\ past' = <<>>
  /\ gen_seq_len' = 0
  /\ all_seq_len' = IF reuse THEN all_seq_len ELSE 0

\* response and the head of generate.
Respond(prompt) ==
  LET goesOn == driver # "evaluate" /\ reuse /\ all_seq_len > 0
      ids == IF goesOn THEN <<ImEnd>> \o prompt ELSE prompt
  IN  /\ sp = "idle" /\ Len(history_ids) + Len(ids) <= MaxAll
      /\ GenerateInit
      /\ prompt_len' = Len(ids)
      /\ history_ids' = (IF reuse THEN history_ids ELSE <<>>) \o ids
      /\ input' = ids /\ output' = <<>> /\ sp' = "forward"
      /\ UNCHANGED <<driver, reuse, remap, token>>

\* Fault: waits for room that a long prompt never has.
FaultNoRoom ==
  /\ sp = "forward" /\ Len(past) + Len(input) <= MaxNew
  /\ past' = past \o Fed(input)
  /\ all_seq_len' = all_seq_len + Len(input)
  /\ gen_seq_len' = gen_seq_len + 1
  /\ sp' = IF driver = "evaluate" THEN "idle" ELSE "sample"
  /\ UNCHANGED <<driver, reuse, remap, history_ids, prompt_len, input, token, output>>

\* forward; evaluate wants the scores only, and is done.
Forward ==
  /\ sp = "forward"
  /\ past' = past \o Fed(input)
  /\ all_seq_len' = all_seq_len + Len(input)
  /\ gen_seq_len' = gen_seq_len + 1
  /\ sp' = IF driver = "evaluate" THEN "idle" ELSE "sample"
  /\ UNCHANGED <<driver, reuse, remap, history_ids, prompt_len, input, token, output>>

\* onForward throws: the past has been moved away and nobody catches.
Throw ==
  /\ sp = "forward" /\ sp' = "dead" /\ past' = <<>>
  /\ UNCHANGED <<driver, reuse, remap, history_ids, all_seq_len, gen_seq_len,
                 prompt_len, input, token, output>>

\* Fault: reset clears the history but not the length.
FaultReset ==
  /\ sp' = "idle"
  /\ IF driver = "chat" THEN history_ids' = <<>> ELSE UNCHANGED history_ids
  /\ UNCHANGED all_seq_len

\* The answer is complete.  chat() forgets it all, the others go on.
Finish ==
  /\ sp' = "idle"
  /\ IF driver = "chat" THEN history_ids' = <<>> /\ all_seq_len' = 0
                        ELSE UNCHANGED <<history_ids, all_seq_len>>

\* Fault: the id is fed but not remembered.
FaultForgets(id) ==
  IF prompt_len + gen_seq_len < MaxNew
  THEN input' = <<id>> /\ sp' = "forward" /\ UNCHANGED <<history_ids, all_seq_len>>
  ELSE Finish /\ UNCHANGED input

\* The head of the decode loop: the id goes into the history and is fed.
DecodeStep(id) ==
  IF prompt_len + gen_seq_len < MaxNew
  THEN /\ history_ids' = Append(history_ids, id)
       /\ input' = <<id>> /\ sp' = "forward"
       /\ UNCHANGED all_seq_len
  ELSE Finish /\ UNCHANGED input

\* Fault: nothing stops an answer but its budget.
FaultNoStop ==
  /\ sp = "sample"
  /\ \E scores \in [1..Len(remap) -> Scores] :
       LET id == Pick(scores, remap, Ids(history_ids))
       IN  token' = id /\ output' = Append(output, id) /\ DecodeStep(id)
  /\ UNCHANGED <<driver, reuse, remap, past, gen_seq_len, prompt_len>>

\* The first id of an answer is printed whatever it is; a later one ends the
\* answer if it is a stop.
Sample ==
  /\ sp = "sample"
  /\ \E scores \in [1..Len(remap) -> Scores] :
       LET id == Pick(scores, remap, Ids(history_ids))
       IN  /\ token' = id
           /\ IF output # <<>> /\ id \in Stops
              THEN Finish /\ UNCHANGED <<output, input>>
              ELSE output' = Append(output, id) /\ DecodeStep(id)
  /\ UNCHANGED <<driver, reuse, remap, past, gen_seq_len, prompt_len>>

\* A new process, with a model of its own.
Reload ==
  /\ sp = "dead" /\ sp' = "idle"
  /\ history_ids' = <<>> /\ past' = <<>> /\ output' = <<>> /\ input' = <<>>
  /\ all_seq_len' = 0 /\ gen_seq_len' = 0 /\ prompt_len' = 0
  /\ UNCHANGED <<driver, reuse, remap, token>>

SessionNext ==
  \/ \E prompt \in Prompts : Respond(prompt)
  \/ Forward \/ Throw \/ Sample \/ Reload

SessionSpec ==
  SessionInit /\ [][SessionNext]_sessionVars /\ WF_sessionVars(Forward \/ Sample)

-----------------------------------------------------------------------------
(* Properties. *)

SessionTypeOK ==
  /\ driver \in Drivers /\ reuse \in BOOLEAN /\ remap \in Remaps
  /\ sp \in {"idle", "forward", "sample", "dead"}
  /\ history_ids \in Seq(Tokens) /\ input \in Seq(Tokens) /\ output \in Seq(Tokens)
  /\ all_seq_len \in Nat /\ gen_seq_len \in Nat /\ prompt_len \in Nat
  /\ token \in Tokens
  /\ sp = "forward" => input # <<>>

\* With reuse_kv and a driver that never calls reset, the history and the length
\* outlive the past, which generate_init makes anew for every answer.
OneTalk == reuse /\ driver # "chat"

\* A turn goes on, or has left what the next one finds: reset has not been called.
InTurn == sp \in {"forward", "sample"} \/ (sp = "idle" /\ driver # "chat")

\* Ids in the history that the model has not seen yet.
Pending == IF sp = "forward" THEN input ELSE <<>>

\* Tokens of earlier turns that the counter still counts.
Carried == all_seq_len - Len(past)

\* The past the model is given is this turn's prompt and answer alone, whatever
\* came before; all_seq_len, from which mask and positions are made, counts the
\* fed part of the history, and thus the past and what is carried, which is
\* nothing unless the talk is one (llm.cpp:200-221, 251, 262, 368).
PastIsCounted ==
  /\ sp \in {"forward", "sample"} => Len(past) + Len(Pending) = prompt_len + Len(output)
  /\ InTurn => /\ Len(history_ids) = all_seq_len + Len(Pending)
               /\ Carried >= 0
               /\ ~OneTalk => Carried = 0

\* The penalty is for the ids the model has before it: after the carried ones,
\* history_ids_ is what was fed since generate_init and what will be fed next
\* (llm.cpp:251, 262), through a crash as well.
HistoryIsPast ==
  InTurn => /\ \A i \in 1..Len(past) : history_ids[Carried + i] = past[i].tok
            /\ \A i \in 1..Len(Pending) : history_ids[all_seq_len + i] = Pending[i]

\* The positions of the past follow each other, whatever the turns before carried
\* over, and every token saw those before it and itself, if nothing was carried;
\* else a prompt saw as far as its own position, which the past does not reach
\* (gen_attention_mask, gen_position_ids).
PastIsCausal ==
  InTurn => \A i \in 1..Len(past) :
              /\ past[i].pos = Carried + i - 1
              /\ past[i].sees \in {0..(i - 1), 0..past[i].pos}

\* The id sampled is the best after a penalty that falls once on each id of the
\* history and on no other, if any score is positive (llm.cpp:102-136).
BestIsPicked ==
  sp = "sample" => \A scores \in [1..Len(remap) -> Scores] :
    LET said(i) == \E k \in 1..Len(history_ids) : history_ids[k] = remap[i]
        s(i) == IF ~said(i) THEN 110 * scores[i]
                ELSE IF scores[i] < 0 THEN 121 * scores[i] ELSE 100 * scores[i]
        rows == 1..Len(remap)
    IN  (\E i \in rows : s(i) > 0) =>
          \E i \in rows : /\ remap[i] = Pick(scores, remap, Ids(history_ids))
                         /\ \A j \in rows : s(j) < s(i) \/ (s(j) = s(i) /\ i <= j)

\* What is left of max_new_tokens by the prompt is used, unless a stop ends the
\* answer; a turn takes nothing from the next; one id is given in any case.
BudgetIsUsed ==
  sp = "idle" /\ output # <<>> =>
    LET budget == Larger(MaxNew - prompt_len, 1)
    IN  Len(output) <= budget /\ (Len(output) < budget => token \in Stops)

\* Only the first id of an answer may be a stop, and that one is even fed back.
NoStopInside == \A i \in 2..Len(output) : output[i] \notin Stops

\* Every answer ends, or the process does.
EveryAnswerEnds == sp = "forward" ~> sp \in {"idle", "dead"}

\* History, counters, past, mask and positions tell one story, in every turn.
SessionAgrees == SessionTypeOK /\ PastIsCounted /\ HistoryIsPast /\ PastIsCausal

\* An answer is made of the best ids, and is as long as its budget or a stop says.
AnswerIsRight == BestIsPicked /\ BudgetIsUsed /\ NoStopInside
=============================================================================
