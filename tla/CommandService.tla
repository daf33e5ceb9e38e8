--------------------------- MODULE CommandService ---------------------------
(***************************************************************************)
(* What ocs-syncd promises the publishers of device commands, whatever     *)
(* crashes: commands are finished in stream order, a member is answered at *)
(* most once and only by the command in turn, a command that is answered   *)
(* at all is answered for every member, and its answers tell one outcome.  *)
(* The exception the code makes: when a port is down, members on healthy   *)
(* ports may succeed.                                                      *)
(***************************************************************************)
EXTENDS Naturals, Sequences, FiniteSets

CONSTANTS Conns, Outcomes
VARIABLES
  cmds,     \* the published commands
  answers,  \* the published results
  done      \* how many commands are finished

svars == <<cmds, answers, done>>

InTurn == cmds[done + 1]
AnswersOf(id) == {i \in 1..Len(answers) : answers[i].id = id}
Answered(id) == {answers[i].conn : i \in AnswersOf(id)}
MembersOf(b) == {c \in Conns : b[c].op # "NONE"}

Agree(a, b) == a = b \/ {a, b} = {"OK", "PORT_DOWN"}

ServiceInit == cmds = <<>> /\ answers = <<>> /\ done = 0

\* A new command goes to the end of the stream; its id is fresh.
Publish ==
  /\ Len(cmds') = Len(cmds) + 1
  /\ SubSeq(cmds', 1, Len(cmds)) = cmds
  /\ MembersOf(cmds'[Len(cmds')].batch) # {}
  /\ \A i \in 1..Len(cmds) : cmds[i].id # cmds'[Len(cmds')].id
  /\ UNCHANGED <<answers, done>>

AnswerMember(c) ==
  LET new == answers'[Len(answers')] IN
  /\ Len(answers') = Len(answers) + 1
  /\ answers' = Append(answers, [id |-> InTurn.id, conn |-> c,
                                 ver |-> InTurn.batch[c].ver,
                                 batch |-> InTurn.batch, code |-> new.code])
  /\ done < Len(cmds) /\ c \in MembersOf(InTurn.batch) \ Answered(InTurn.id)
  /\ new.code \in Outcomes
  /\ \A i \in AnswersOf(InTurn.id) : Agree(new.code, answers[i].code)
  /\ UNCHANGED <<cmds, done>>

Finish ==
  /\ done < Len(cmds)
  /\ done' = done + 1
  /\ Answered(InTurn.id) \in {{}, MembersOf(InTurn.batch)}
  /\ UNCHANGED <<cmds, answers>>

ServiceNext == Publish \/ Finish \/ \E c \in Conns : AnswerMember(c)
ServiceSpec == ServiceInit /\ [][ServiceNext]_svars
=============================================================================
