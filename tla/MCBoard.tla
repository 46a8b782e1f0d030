------------------------------- MODULE MCBoard -------------------------------
(***************************************************************************)
(* Four small machines of the board that share nothing, checked in one run:   *)
(* the subject is chosen in the initial state and only its machine moves, the  *)
(* others stay in one initial state of their own.                             *)
(***************************************************************************)
EXTENDS MCKpud, Speech, Forensics, MCChatDemo

VARIABLE subject

Earliest == CHOOSE t \in Clock : \A u \in Clock : t <= u

BoardInit ==
  /\ subject \in {"kpud", "speech", "forensics", "demo"}
  /\ Init /\ SpeechInit /\ ForensicsInit /\ DemoInit
  /\ subject = "kpud" \/ ~cmaLow
  /\ subject = "forensics" \/ time = Earliest
  /\ subject = "demo" \/ answer = <<>>

boardVars == <<subject, vars, speechVars, forensicsVars, demoVars>>

BoardNext ==
  /\ UNCHANGED subject
  /\ \/ /\ subject = "kpud" /\ Next
        /\ UNCHANGED <<speechVars, forensicsVars, demoVars>>
     \/ /\ subject = "speech" /\ SpeechNext
        /\ UNCHANGED <<vars, forensicsVars, demoVars>>
     \/ /\ subject = "forensics" /\ ForensicsNext
        /\ UNCHANGED <<vars, speechVars, demoVars>>
     \/ /\ subject = "demo" /\ DemoNext
        /\ UNCHANGED <<vars, speechVars, forensicsVars>>

\* The fairness of each machine's own specification, where it is the subject.
BoardSpec ==
  /\ BoardInit /\ [][BoardNext]_boardVars
  /\ WF_vars(subject = "kpud" /\ Daemon)
  /\ \A c \in Clients : WF_vars(subject = "kpud" /\ (Receive(c) \/ SeeHungUp(c)))
  /\ WF_speechVars(subject = "speech" /\ Runner)
  /\ WF_speechVars(subject = "speech" /\ Player)
  /\ WF_demoVars(subject = "demo" /\ External)
  /\ WF_demoVars(subject = "demo" /\ DemoScript)
=============================================================================
