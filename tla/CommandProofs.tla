--------------------------- MODULE CommandProofs ----------------------------
(***************************************************************************)
(* The command loop of ocs-syncd, proved: every step of processOne is a    *)
(* step of CommandService or none, and keeps ServiceInv, which says why:   *)
(* ids of published commands are never used again, the acknowledged        *)
(* commands are the processed ones but for the one in turn, and every      *)
(* answer comes from the stored result of its command and has left its     *)
(* marker.  Around the loop, lemmas say what any other step must keep; the *)
(* steps that do are the subject of SyncdProofs.                           *)
(***************************************************************************)
EXTENDS SyncdApply, TLAPS

\* The ids there can be so far.
ReconcileIds == {"RECONCILE"} \X (1 .. MaxReconciles)
Ids == ({"SET"} \X (1 .. used["sets"])) \cup ({"RECOVERY"} \X (1 .. generation))
         \cup ReconcileIds
Outcomes == Codes \cup {"DEVICE_NOT_READY"}
Sequence(s) == s \in Seq({s[i] : i \in 1 .. Len(s)})

\* A published command has an id of its own and is not empty.
CommandsOK ==
  /\ Sequence(cmds)
  /\ \A i \in 1 .. Len(cmds) : cmds[i].id \in Ids /\ Members(cmds[i].batch) # {}
  /\ \A i, j \in 1 .. Len(cmds) : cmds[i].id = cmds[j].id => i = j

\* The events are in the order of their versions, none of them empty.
EventsOK ==
  /\ Sequence(events) /\ (staged => events # <<>>)
  /\ \A i \in 1 .. Len(events) : events[i].ver \in 1 .. rev /\ Members(events[i].batch) # {}
  /\ \A i, j \in 1 .. Len(events) : i < j => events[i].ver < events[j].ver

\* What keeps the id of a published command from being used again: the
\* order of the events, the recovery key, the marker of a reconciliation.
FreshOK ==
  \A i \in 1 .. Len(cmds) :
    /\ cmds[i].id[1] = "SET" => \A j \in 1 .. Len(events) : cmds[i].id[2] < events[j].ver
    /\ cmds[i].id[1] = "RECOVERY" => cmds[i].id[2] \in DOMAIN recovery
    /\ cmds[i].id[1] = "RECONCILE" => <<"sent", cmds[i].id>> \in once

\* What has happened is within one of the combinations of troubles.
BudgetOK ==
  /\ used \in [Kinds -> Nat]
  /\ \E t \in Troubles : \A k \in Kinds : used[k] <= t[k]
  /\ generation = used["restarts"] + 1

\* The processed commands are the acknowledged ones, and maybe the next.
TurnOK ==
  /\ acked \in 0 .. Len(cmds)
  /\ \A id \in DOMAIN processed : \E i \in 1 .. Len(cmds) : i <= acked + 1 /\ id = cmds[i].id
  /\ \A i \in 1 .. acked : cmds[i].id \in DOMAIN processed

\* An answer is to a member of a published command, tells the stored result
\* of the command or that the member is unchanged, and has its marker.
AnswersOK ==
  /\ Sequence(answers)
  /\ \A i \in 1 .. Len(answers) :
       LET a == answers[i] IN
       /\ \E j \in 1 .. Len(cmds) : a.id = cmds[j].id /\ a.conn \in Members(cmds[j].batch)
       /\ a.id \in DOMAIN stored
       /\ a.code = stored[a.id] \/ (a.code = "OK" /\ stored[a.id] = "PORT_DOWN")
       /\ <<"result", a.id, a.conn>> \in once
  /\ \A m \in once : m[1] = "result" =>
       \E i \in 1 .. Len(answers) : answers[i].id = m[2] /\ answers[i].conn = m[3]
  /\ \A m \in once : m[1] = "unchanged" =>
       m[2] \in DOMAIN stored /\ stored[m[2]] = "PORT_DOWN"

\* Results are codes of the device or of a failed call.
StoredOK ==
  /\ code \in Outcomes /\ \A id \in DOMAIN stored : stored[id] \in Outcomes
  /\ results \in [OpIds -> Codes \cup {"none"}]

\* While a command is worked on it is the one in turn; its answers are
\* published in the order of its members.
Applying == {"info", "apply", "confirm", "store"}
Publishing == {"state", "result"}
ApplyPhase ==
  /\ pc \in Applying \cup Publishing \cup {"ack"} => acked < Len(cmds)
  /\ pc \in Applying \cup Publishing => cmd.id \notin DOMAIN processed
  /\ pc = "ack" => cmd.id \in DOMAIN processed
  /\ pc \in Applying => cmd.id \notin DOMAIN stored
  /\ pc \in Publishing => cmd.id \in DOMAIN stored
  /\ pc = "result" =>
       /\ todo \subseteq Members(batch)
       /\ \A c \in Members(batch) \ todo : <<"result", cmd.id, c>> \in once

\* A poll recovers a generation that has no recovery key yet.
Polling == {"connections", "ports", "openFault", "raisePort", "countPort", "clearPort",
            "uncountPort", "closeFault", "recover"}
Recovering == {"refresh", "extra", "sendRecovery"}
RecoverPhase ==
  /\ "gen" \in DOMAIN polled
  /\ pc \in Polling \cup Recovering => polled.gen \in 1 .. generation
  /\ pc \in Recovering => polled.gen \notin DOMAIN recovery

\* While failures are looked for, the plan asks for what is desired and for what
\* it calls a drift.
PlanAsks ==
  /\ plan = [batch |-> plan.batch, kind |-> plan.kind, confirm |-> plan.confirm]
  /\ DOMAIN plan.batch = Conns /\ DOMAIN plan.kind = Conns
  /\ \A c \in Conns : plan.kind[c] # "none" \/ polled.want[c] # Gone
                      => plan.batch[c].op # "NONE"

\* A cycle is published under an id of its own, with the batch of the plan.
Reconciling == {"associate", "drift", "reconciling", "raiseDrift", "countDrift",
                "sendReconcile", "published"}
Closing == {"clearDrift", "uncountDrift", "setConverged"}
CyclePhase ==
  /\ {"id", "status"} \subseteq DOMAIN control /\ control.id \in {NoId} \cup ReconcileIds
  /\ control.status # "NONE" => control.id \in ReconcileIds
  /\ pc \in Reconciling \cup Closing => control.id \in ReconcileIds
  /\ pc \in Reconciling \cup {"drifted"} => Members(plan.batch) # {}
  /\ pc = "failures" => PlanAsks

DataOK ==
  CommandsOK /\ EventsOK /\ FreshOK /\ BudgetOK /\ TurnOK /\ AnswersOK /\ StoredOK
ServiceInv == DataOK /\ ApplyPhase /\ RecoverPhase /\ CyclePhase
-----------------------------------------------------------------------------
(* Sequences *)

\* A sequence is one of its own entries.
LEMMA OwnEntries ==
  ASSUME NEW S, NEW s \in Seq(S)
  PROVE  Sequence(s)
  BY DEF Sequence

\* Appending keeps the entries in their places.
LEMMA SequenceAppend ==
  ASSUME NEW s, Sequence(s), NEW e
  PROVE  /\ Sequence(Append(s, e)) /\ Len(s) \in Nat /\ Len(Append(s, e)) = Len(s) + 1
         /\ \A i \in 1 .. Len(s) : Append(s, e)[i] = s[i]
         /\ Append(s, e)[Len(s) + 1] = e
         /\ SubSeq(Append(s, e), 1, Len(s)) = s
<1> DEFINE S == {s[i] : i \in 1 .. Len(s)}
           T == S \cup {e}
           t == Append(s, e)
<1>1. s \in Seq(S)
  BY Zenon DEF Sequence
<1>2. s \in Seq(T) /\ e \in T
  BY <1>1
<1> HIDE DEF S, T
<1>3. /\ Len(s) \in Nat /\ Len(t) = Len(s) + 1
      /\ \A i \in 1 .. Len(s) : t[i] = s[i]
      /\ t[Len(s) + 1] = e /\ t \in Seq(T)
  BY <1>2
<1>4. SubSeq(t, 1, Len(s)) = s
  BY <1>2, <1>3
<1>5. QED
  BY Zenon, <1>3, <1>4, OwnEntries

\* Taking the head off moves every entry one place down.
LEMMA SequenceTail ==
  ASSUME NEW s, Sequence(s), s # <<>>
  PROVE  /\ Sequence(Tail(s)) /\ Len(s) \in Nat \ {0} /\ Len(Tail(s)) = Len(s) - 1
         /\ \A i \in 1 .. Len(s) - 1 : Tail(s)[i] = s[i + 1]
         /\ Head(s) = s[1]
<1> DEFINE S == {s[i] : i \in 1 .. Len(s)}
           t == Tail(s)
<1>1. s \in Seq(S)
  BY Zenon DEF Sequence
<1> HIDE DEF S
<1>2. /\ Len(s) \in Nat \ {0} /\ Len(t) = Len(s) - 1 /\ t \in Seq(S)
      /\ \A i \in 1 .. Len(s) - 1 : t[i] = s[i + 1]
      /\ Head(s) = s[1]
  BY <1>1
<1>3. QED
  BY Zenon, <1>2, OwnEntries

-----------------------------------------------------------------------------
(* Steps outside the command loop *)

\* What the service depends on is left alone.
Kept == UNCHANGED <<cmds, events, staged, rev, generation, recovery, acked, processed,
                    answers, stored, results>>
\* Only markers of other publications are added.
OtherMarks ==
  /\ once \subseteq once'
  /\ \A m \in once' : m \in once \/ m[1] \notin {"result", "unchanged"}
\* A step of the service, or none.
Serves == [Service!ServiceNext]_(Service!svars)
AtWork == Applying \cup Publishing \cup {"ack"}

\* A step that publishes, answers, processes and acknowledges nothing.
LEMMA NothingServed ==
  ASSUME UNCHANGED <<cmds, acked, processed, answers>>
  PROVE  Serves
  BY Zenon DEF Serves, Service!svars, Finished, isAlreadyProcessed, cmd

\* The turn is a place in the stream or behind its end.
LEMMA TurnBounded ==
  ASSUME DataOK
  PROVE  /\ Len(cmds) \in Nat /\ Len(answers) \in Nat /\ acked \in Nat /\ acked <= Len(cmds)
         /\ used["sets"] \in Nat /\ generation \in Nat \ {0}
<1>1. Sequence(cmds) /\ Sequence(answers) /\ acked \in 0 .. Len(cmds)
  BY Zenon DEF DataOK, CommandsOK, AnswersOK, TurnOK
<1>2. Len(cmds) \in Nat /\ Len(answers) \in Nat
  BY Zenon, <1>1, SequenceAppend
<1>3. used["sets"] \in Nat /\ used["restarts"] \in Nat /\ generation = used["restarts"] + 1
  <2>1. used \in [Kinds -> Nat] /\ generation = used["restarts"] + 1
    BY Zenon DEF DataOK, BudgetOK
  <2>2. QED
    BY Zenon, <2>1 DEF Kinds
<1>4. QED
  BY <1>1, <1>2, <1>3

\* The answers stand while commands are only added, and no marker of an answer.
LEMMA AnswersStand ==
  ASSUME AnswersOK, UNCHANGED <<answers, stored>>, once \subseteq once',
         \A j \in 1 .. Len(cmds) : j \in 1 .. Len(cmds') /\ cmds'[j] = cmds[j],
         \A m \in once' : \/ m \in once
                          \/ /\ m[1] # "result"
                             /\ m[1] = "unchanged" =>
                                  m[2] \in DOMAIN stored /\ stored[m[2]] = "PORT_DOWN"
  PROVE  AnswersOK'
<1>1. \A i \in 1 .. Len(answers) :
        \E j \in 1 .. Len(cmds) :
          answers[i].id = cmds[j].id /\ answers[i].conn \in Members(cmds[j].batch)
  BY Zenon DEF AnswersOK
<1>2. \A i \in 1 .. Len(answers) :
        \E j \in 1 .. Len(cmds') :
          answers[i].id = cmds'[j].id /\ answers[i].conn \in Members(cmds'[j].batch)
  <2> SUFFICES ASSUME NEW i \in 1 .. Len(answers)
               PROVE  \E j \in 1 .. Len(cmds') :
                        answers[i].id = cmds'[j].id /\ answers[i].conn \in Members(cmds'[j].batch)
    BY Zenon
  <2>1. PICK j \in 1 .. Len(cmds) :
          answers[i].id = cmds[j].id /\ answers[i].conn \in Members(cmds[j].batch)
    BY Zenon, <1>1
  <2>2. QED
    BY Zenon, <2>1
<1>3. Sequence(answers)'
  BY Zenon DEF AnswersOK
<1>4. \A i \in 1 .. Len(answers) :
        LET a == answers[i] IN
        /\ a.id \in DOMAIN stored
        /\ a.code = stored[a.id] \/ (a.code = "OK" /\ stored[a.id] = "PORT_DOWN")
        /\ <<"result", a.id, a.conn>> \in once'
  BY Zenon DEF AnswersOK
<1>5. \A m \in once' : m[1] = "result" =>
        \E i \in 1 .. Len(answers) : answers[i].id = m[2] /\ answers[i].conn = m[3]
  BY Zenon DEF AnswersOK
<1>6. \A m \in once' : m[1] = "unchanged" =>
        m[2] \in DOMAIN stored /\ stored[m[2]] = "PORT_DOWN"
  BY Zenon DEF AnswersOK
<1>7. \A i \in 1 .. Len(answers) :
        LET a == answers[i] IN
        /\ \E j \in 1 .. Len(cmds') : a.id = cmds'[j].id /\ a.conn \in Members(cmds'[j].batch)
        /\ a.id \in DOMAIN stored
        /\ a.code = stored[a.id] \/ (a.code = "OK" /\ stored[a.id] = "PORT_DOWN")
        /\ <<"result", a.id, a.conn>> \in once'
  BY Zenon, <1>2, <1>4
<1>8. answers' = answers /\ stored' = stored
  BY Zenon
<1>9. QED
  BY <1>3, <1>5, <1>6, <1>7, <1>8 DEF AnswersOK, Members

\* A trouble stays within the combination that allows it.
LEMMA TroubleCounted ==
  ASSUME BudgetOK, NEW k \in Kinds, Use(k),
         generation' = IF k = "restarts" THEN generation + 1 ELSE generation
  PROVE  BudgetOK' /\ rev \in Nat /\ rev' = IF k = "sets" THEN rev + 1 ELSE rev
<1>1. PICK t \in Troubles : used[k] < t[k] /\ \A j \in Kinds : used[j] <= t[j]
  BY Zenon DEF Use
<1>2. used' = [used EXCEPT ![k] = @ + 1] /\ used \in [Kinds -> Nat]
  BY Zenon DEF Use, BudgetOK
<1>3. t \in [Kinds -> Nat]
  BY Zenon, SyncdAssumption
<1>4. \A j \in Kinds : used'[j] = IF j = k THEN used[j] + 1 ELSE used[j]
  BY Zenon, <1>2
<1>5. /\ used' \in [Kinds -> Nat]
      /\ \A j \in Kinds : used'[j] <= t[j]
  <2>1. \A j \in Kinds : used[j] \in Nat /\ t[j] \in Nat
    BY Zenon, <1>2, <1>3
  <2>2. \A j \in Kinds : used'[j] <= t[j]
    BY <1>1, <1>4, <2>1
  <2>3. used' \in [Kinds -> Nat]
    BY <1>2
  <2>4. QED
    BY Zenon, <2>2, <2>3
<1>6. {"sets", "restarts"} \subseteq Kinds
  BY Zenon DEF Kinds
<1>7. QED
  BY Zenon, <1>2, <1>4, <1>5, <1>6 DEF BudgetOK, rev

\* The data of the service stands while only other markers are added.
LEMMA DataKept ==
  ASSUME DataOK, Kept, OtherMarks, BudgetOK', code' \in Outcomes
  PROVE  DataOK'
<1>1. CommandsOK'
  <2>1. CommandsOK /\ cmds' = cmds /\ Ids' = Ids
    BY Zenon DEF DataOK, Kept, Ids, ReconcileIds, rev
  <2>2. Sequence(cmds)'
    BY Zenon, <2>1 DEF CommandsOK
  <2>3. QED
    BY Zenon, <2>1, <2>2 DEF CommandsOK, Members
<1>2. EventsOK'
  BY Zenon DEF DataOK, EventsOK, Kept, Members, rev
<1>3. FreshOK'
  BY Zenon DEF DataOK, FreshOK, Kept, OtherMarks
<1>4. TurnOK'
  BY Zenon DEF DataOK, TurnOK, Kept, cmd
<1>5. AnswersOK'
  BY Zenon, AnswersStand DEF DataOK, Kept, OtherMarks
<1>6. StoredOK'
  BY Zenon DEF DataOK, StoredOK, Kept
<1>7. QED
  BY Zenon, <1>1, <1>2, <1>3, <1>4, <1>5, <1>6 DEF DataOK

\* A step of a poll keeps the invariant when it keeps the phases of polls.
LEMMA Elsewhere ==
  ASSUME ServiceInv, Kept, OtherMarks, BudgetOK', code' = code, pc' \notin AtWork,
         RecoverPhase', CyclePhase'
  PROVE  ServiceInv' /\ Serves
<1>1. DataOK'
  BY Zenon, DataKept DEF ServiceInv, DataOK, StoredOK
<1>2. ApplyPhase'
  BY Zenon DEF ApplyPhase, AtWork, Applying, Publishing
<1>3. Serves
  BY Zenon, NothingServed DEF Kept
<1>4. QED
  BY Zenon, <1>1, <1>2, <1>3 DEF ServiceInv

\* A command with a new id goes to the end of the stream.
LEMMA CommandPublished ==
  ASSUME DataOK, NEW k, cmds' = Append(cmds, k), k.id \in Ids, Members(k.batch) # {},
         \A i \in 1 .. Len(cmds) : cmds[i].id # k.id, OtherMarks,
         UNCHANGED <<acked, processed, answers, stored, used, generation, results, code>>
  PROVE  /\ CommandsOK' /\ BudgetOK' /\ TurnOK' /\ AnswersOK' /\ StoredOK' /\ Serves
         /\ acked < Len(cmds) => acked' < Len(cmds') /\ cmd' = cmd
         /\ Len(cmds') = Len(cmds) + 1 /\ cmds'[Len(cmds) + 1] = k
         /\ \A i \in 1 .. Len(cmds) : cmds'[i] = cmds[i]
<1>1. /\ Sequence(cmds') /\ Len(cmds) \in Nat /\ Len(cmds') = Len(cmds) + 1
      /\ \A i \in 1 .. Len(cmds) : cmds'[i] = cmds[i]
      /\ cmds'[Len(cmds) + 1] = k
      /\ SubSeq(cmds', 1, Len(cmds)) = cmds
  BY SequenceAppend DEF DataOK, CommandsOK
<1>2. CommandsOK'
  <2>1. Ids' = Ids
    BY Zenon DEF Ids, ReconcileIds
  <2>2. \A i \in 1 .. Len(cmds') : i \in 1 .. Len(cmds) \/ i = Len(cmds) + 1
    BY <1>1
  <2>3. \A i \in 1 .. Len(cmds') : cmds'[i].id \in Ids' /\ Members(cmds'[i].batch) # {}
    BY Zenon, <1>1, <2>1, <2>2 DEF DataOK, CommandsOK
  <2>4. \A i, j \in 1 .. Len(cmds') : cmds'[i].id = cmds'[j].id => i = j
    BY <1>1, <2>2 DEF DataOK, CommandsOK
  <2>5. QED
    BY Zenon, <1>1, <2>3, <2>4 DEF CommandsOK, Members
<1>3. BudgetOK' /\ StoredOK'
  BY Zenon DEF DataOK, BudgetOK, StoredOK
<1>4. acked < Len(cmds) => acked' < Len(cmds') /\ cmd' = cmd
  BY <1>1 DEF DataOK, TurnOK, cmd
<1>5. TurnOK' /\ k.id \notin DOMAIN processed
  <2>1. TurnOK /\ 1 .. Len(cmds) \subseteq 1 .. Len(cmds') /\ 1 .. acked \subseteq 1 .. Len(cmds)
        /\ acked' \in 0 .. Len(cmds')
    BY <1>1, TurnBounded DEF DataOK
  <2>2. \A id \in DOMAIN processed : \E i \in 1 .. Len(cmds') : i <= acked + 1 /\ id = cmds'[i].id
    <3> SUFFICES ASSUME NEW id \in DOMAIN processed
                 PROVE  \E i \in 1 .. Len(cmds') : i <= acked + 1 /\ id = cmds'[i].id
      BY Zenon
    <3>1. PICK i \in 1 .. Len(cmds) : i <= acked + 1 /\ id = cmds[i].id
      BY Zenon, <2>1 DEF TurnOK
    <3>2. i \in 1 .. Len(cmds') /\ cmds'[i] = cmds[i]
      BY Zenon, <1>1, <2>1
    <3>3. QED
      BY Zenon, <3>1, <3>2
  <2>3. \A i \in 1 .. acked : cmds'[i].id \in DOMAIN processed
    BY Zenon, <1>1, <2>1 DEF TurnOK
  <2>4. k.id \notin DOMAIN processed
    BY Zenon, <2>1 DEF TurnOK
  <2>5. acked' \in 0 .. Len(cmds') /\ acked' = acked /\ processed' = processed
    BY Zenon, <2>1
  <2>6. QED
    BY Zenon, <2>2, <2>3, <2>4, <2>5 DEF TurnOK
<1>6. AnswersOK'
  <2>1. \A j \in 1 .. Len(cmds) : j \in 1 .. Len(cmds')
    BY <1>1
  <2>2. QED
    BY Zenon, <1>1, <2>1, AnswersStand DEF DataOK, OtherMarks
<1>7. Serves
  <2>1. Finished' = Finished
    <3>1. CASE acked < Len(cmds)
      BY Zenon, <1>1, <1>4, <3>1 DEF Finished, isAlreadyProcessed
    <3>2. CASE ~(acked < Len(cmds))
      <4>1. acked = Len(cmds) /\ cmd' = k
        BY <1>1, <3>2, TurnBounded DEF cmd
      <4>2. QED
        BY <1>1, <1>5, <4>1 DEF Finished, isAlreadyProcessed
    <3>3. QED
      BY Zenon, <3>1, <3>2
  <2>2. Service!Publish
    BY Zenon, <1>1, <2>1 DEF Service!Publish, Service!MembersOf, Members
  <2>3. QED
    BY Zenon, <2>2 DEF Serves, Service!ServiceNext
<1>8. QED
  BY Zenon, <1>1, <1>2, <1>3, <1>4, <1>5, <1>6, <1>7

\* The invariant after a new command: it is as new as its kind asks for.
LEMMA CommandSent ==
  ASSUME ServiceInv, NEW k, cmds' = Append(cmds, k), k.id \in Ids, Members(k.batch) # {},
         \A i \in 1 .. Len(cmds) : cmds[i].id # k.id, OtherMarks,
         UNCHANGED <<acked, processed, answers, stored, used, generation, results, code>>,
         EventsOK', RecoverPhase', CyclePhase',
         pc' \notin AtWork \/ UNCHANGED <<pc, todo>>,
         \A j \in 1 .. Len(events') :
           /\ k.id[1] = "SET" => k.id[2] < events'[j].ver
           /\ \A i \in 1 .. Len(cmds) : cmds[i].id[1] = "SET" => cmds[i].id[2] < events'[j].ver,
         DOMAIN recovery \subseteq DOMAIN recovery',
         k.id[1] = "RECOVERY" => k.id[2] \in DOMAIN recovery',
         k.id[1] = "RECONCILE" => <<"sent", k.id>> \in once'
  PROVE  ServiceInv' /\ Serves
<1>1. DataOK /\ FreshOK /\ ApplyPhase /\ once \subseteq once'
  BY Zenon DEF ServiceInv, DataOK, OtherMarks
<1>2. /\ CommandsOK' /\ BudgetOK' /\ TurnOK' /\ AnswersOK' /\ StoredOK' /\ Serves
      /\ acked < Len(cmds) => acked' < Len(cmds') /\ cmd' = cmd
      /\ Len(cmds') = Len(cmds) + 1 /\ cmds'[Len(cmds) + 1] = k
      /\ \A i \in 1 .. Len(cmds) : cmds'[i] = cmds[i]
  BY Zenon, <1>1, CommandPublished
<1>3. \A i \in 1 .. Len(cmds') : i \in 1 .. Len(cmds) \/ i = Len(cmds) + 1
  BY <1>1, <1>2, TurnBounded
<1>4. FreshOK'
  <2>1. ASSUME NEW i \in 1 .. Len(cmds') PROVE cmds'[i] = k \/ i \in 1 .. Len(cmds)
    BY Zenon, <1>2, <1>3
  <2>2. ASSUME NEW i \in 1 .. Len(cmds)
        PROVE  /\ cmds'[i] = cmds[i]
               /\ cmds[i].id[1] = "RECOVERY" => cmds[i].id[2] \in DOMAIN recovery
               /\ cmds[i].id[1] = "RECONCILE" => <<"sent", cmds[i].id>> \in once
    BY Zenon, <1>1, <1>2 DEF FreshOK
  <2>3. ASSUME NEW i \in 1 .. Len(cmds')
        PROVE  /\ cmds'[i].id[1] = "SET" =>
                    \A j \in 1 .. Len(events') : cmds'[i].id[2] < events'[j].ver
               /\ cmds'[i].id[1] = "RECOVERY" => cmds'[i].id[2] \in DOMAIN recovery'
               /\ cmds'[i].id[1] = "RECONCILE" => <<"sent", cmds'[i].id>> \in once'
    <3>1. CASE cmds'[i] = k
      BY Zenon, <3>1
    <3>2. CASE i \in 1 .. Len(cmds)
      BY Zenon, <1>1, <2>2, <3>2
    <3>3. QED
      BY Zenon, <2>1, <3>1, <3>2
  <2>4. QED
    BY Zenon, <2>3 DEF FreshOK
<1>5. ApplyPhase'
  <2>1. CASE pc' \notin AtWork
    BY Zenon, <2>1 DEF ApplyPhase, AtWork, Applying, Publishing
  <2>2. CASE pc' \in AtWork
    <3>1. UNCHANGED <<pc, todo>> /\ pc \in AtWork
      BY Zenon, <2>2
    <3>2. acked' < Len(cmds') /\ cmd' = cmd /\ batch' = batch
      BY Zenon, <1>1, <1>2, <3>1 DEF ApplyPhase, AtWork, batch
    <3>3. QED
      BY Zenon, <1>1, <3>1, <3>2 DEF ApplyPhase, Members
  <2>3. QED
    BY Zenon, <2>1, <2>2
<1>6. QED
  BY Zenon, <1>2, <1>4, <1>5 DEF ServiceInv, DataOK

\* The command of a config event: the events come in the order of their
\* versions, so the version is new.
LEMMA EventSent ==
  ASSUME ServiceInv, staged, staged' = FALSE, events' = Tail(events),
         cmds' = Append(cmds, [id |-> <<"SET", Head(events).ver>>, batch |-> Head(events).batch]),
         UNCHANGED <<acked, processed, answers, stored, used, generation, results, code, once,
                     recovery, control, pc, todo, polled, plan>>
  PROVE  ServiceInv' /\ Serves
<1> DEFINE e == Head(events)
           k == [id |-> <<"SET", e.ver>>, batch |-> e.batch]
<1>1. DataOK /\ EventsOK /\ FreshOK /\ RecoverPhase /\ CyclePhase
  BY Zenon DEF ServiceInv, DataOK
<1>2. /\ Sequence(events') /\ Len(events) \in Nat \ {0} /\ Len(events') = Len(events) - 1
      /\ \A i \in 1 .. Len(events) - 1 : events'[i] = events[i + 1]
      /\ e = events[1]
  BY Zenon, <1>1, SequenceTail DEF EventsOK
<1>3. 1 \in 1 .. Len(events) /\ e.ver \in 1 .. rev /\ Members(e.batch) # {}
  <2>1. 1 \in 1 .. Len(events)
    BY <1>2
  <2>2. QED
    BY Zenon, <1>1, <1>2, <2>1 DEF EventsOK
<1>4. /\ k.id \in Ids /\ k.id[1] = "SET" /\ k.id[2] = e.ver /\ cmds' = Append(cmds, k)
      /\ Members(k.batch) # {}
  BY Zenon, <1>3 DEF Ids, rev
<1> HIDE DEF e, k
<1>5. \A i \in 1 .. Len(cmds) : cmds[i].id[1] = "SET" => cmds[i].id[2] < e.ver
  BY Zenon, <1>1, <1>2, <1>3 DEF FreshOK
<1>6. \A i \in 1 .. Len(cmds) : cmds[i].id # k.id
  <2> SUFFICES ASSUME NEW i \in 1 .. Len(cmds), cmds[i].id = k.id PROVE FALSE
    BY Zenon
  <2>1. e.ver < e.ver
    BY Zenon, <1>4, <1>5
  <2>2. e.ver \in Int
    BY <1>3
  <2>3. QED
    BY <2>1, <2>2
<1>7. \A j \in 1 .. Len(events') :
        j + 1 \in 1 .. Len(events) /\ events'[j] = events[j + 1] /\ e.ver < events'[j].ver
  <2>1. \A j \in 1 .. Len(events') :
          j + 1 \in 1 .. Len(events) /\ 1 < j + 1 /\ events'[j] = events[j + 1]
    BY <1>2
  <2>2. QED
    BY Zenon, <1>1, <1>2, <1>3, <2>1 DEF EventsOK
<1>8. EventsOK'
  <2>1. \A i \in 1 .. Len(events') : events'[i].ver \in 1 .. rev' /\ Members(events'[i].batch) # {}
    BY Zenon, <1>1, <1>7 DEF EventsOK, rev
  <2>2. \A i, j \in 1 .. Len(events') : i < j => events'[i].ver < events'[j].ver
    <3> SUFFICES ASSUME NEW i \in 1 .. Len(events'), NEW j \in 1 .. Len(events'), i < j
                 PROVE  events'[i].ver < events'[j].ver
      BY Zenon
    <3>1. i + 1 < j + 1
      OBVIOUS
    <3>2. QED
      BY Zenon, <1>1, <1>7, <3>1 DEF EventsOK
  <2>3. QED
    BY Zenon, <1>2, <2>1, <2>2 DEF EventsOK, Members
<1>9. \A j \in 1 .. Len(events') :
        /\ k.id[1] = "SET" => k.id[2] < events'[j].ver
        /\ \A i \in 1 .. Len(cmds) : cmds[i].id[1] = "SET" => cmds[i].id[2] < events'[j].ver
  BY Zenon, <1>1, <1>4, <1>7 DEF FreshOK
<1>10. RecoverPhase' /\ CyclePhase' /\ OtherMarks
  BY Zenon, <1>1 DEF RecoverPhase, CyclePhase, PlanAsks, ReconcileIds, Members, OtherMarks
<1>11. QED
  BY Zenon, <1>4, <1>6, <1>8, <1>9, <1>10, CommandSent

\* The command of a recovered generation: its recovery key is written with it.
LEMMA RecoverySent ==
  ASSUME ServiceInv, pc = "sendRecovery", pc' = "device",
         NEW needed, needed <=> Members(plan.batch) # {},
         recovery' = Put(recovery, polled.gen, needed),
         cmds' = IF needed
                 THEN Append(cmds, [id |-> <<"RECOVERY", polled.gen>>, batch |-> plan.batch])
                 ELSE cmds,
         UNCHANGED <<events, staged, acked, processed, answers, stored, used, generation,
                     results, code, once, control, polled, plan>>
  PROVE  ServiceInv' /\ Serves
<1> DEFINE k == [id |-> <<"RECOVERY", polled.gen>>, batch |-> plan.batch]
<1>1. polled.gen \in 1 .. generation /\ polled.gen \notin DOMAIN recovery
      /\ "gen" \in DOMAIN polled
  BY Zenon DEF ServiceInv, RecoverPhase, Recovering
<1>2. DOMAIN recovery' = DOMAIN recovery \cup {polled.gen}
  BY Zenon DEF Put
<1>3. /\ pc' \notin AtWork \cup Polling \cup Recovering \cup Reconciling \cup Closing
      /\ pc' \notin {"drifted", "failures"}
  BY Zenon DEF AtWork, Applying, Publishing, Polling, Recovering, Reconciling, Closing
<1>4. RecoverPhase' /\ CyclePhase' /\ ApplyPhase'
  BY Zenon, <1>1, <1>3 DEF ServiceInv, CyclePhase, ReconcileIds, NoId, RecoverPhase, ApplyPhase, AtWork
<1>5. DataOK /\ FreshOK /\ OtherMarks /\ EventsOK'
  BY Zenon DEF ServiceInv, DataOK, EventsOK, rev, Members, OtherMarks
<1>6. k.id \in Ids /\ k.id[1] = "RECOVERY" /\ k.id[2] = polled.gen /\ k.batch = plan.batch
  BY Zenon, <1>1 DEF Ids
<1> HIDE DEF k
<1>7. CASE ~needed
  <2>1. cmds' = cmds
    BY Zenon, <1>7
  <2>2. FreshOK' /\ Serves
    BY Zenon, <1>2, <1>5, <2>1, NothingServed DEF FreshOK
  <2>3. CommandsOK' /\ BudgetOK' /\ TurnOK' /\ AnswersOK' /\ StoredOK'
    <3>1. CommandsOK' /\ TurnOK'
      <4>1. CommandsOK /\ TurnOK
        BY Zenon, <1>5 DEF DataOK
      <4>2. Ids' = Ids
        BY Zenon DEF Ids, rev
      <4>3. CommandsOK'
        BY <2>1, <4>1, <4>2 DEF CommandsOK, Members
      <4>4. TurnOK'
        BY Zenon, <2>1, <4>1 DEF TurnOK
      <4>5. QED
        BY Zenon, <4>3, <4>4
    <3>2. BudgetOK' /\ StoredOK'
      <4>1. BudgetOK /\ StoredOK
        BY Zenon, <1>5 DEF DataOK
      <4>2. QED
        BY Zenon, <4>1 DEF BudgetOK, StoredOK
    <3>3. AnswersOK'
      BY Zenon, <1>5, <2>1, AnswersStand DEF DataOK
    <3>4. QED
      BY Zenon, <3>1, <3>2, <3>3
  <2>4. QED
    BY Zenon, <1>4, <1>5, <2>2, <2>3 DEF ServiceInv, DataOK
<1>8. CASE needed
  <2>1. cmds' = Append(cmds, k) /\ Members(k.batch) # {}
    BY Zenon, <1>6, <1>8 DEF k
  <2>2. \A i \in 1 .. Len(cmds) : cmds[i].id # k.id
    BY Zenon, <1>1, <1>5, <1>6 DEF FreshOK
  <2>3. /\ k.id[1] # "SET" /\ k.id[1] # "RECONCILE" /\ k.id[2] \in DOMAIN recovery'
        /\ DOMAIN recovery \subseteq DOMAIN recovery'
    BY Zenon, <1>2, <1>6
  <2>4. \A j \in 1 .. Len(events') : \A i \in 1 .. Len(cmds) :
          cmds[i].id[1] = "SET" => cmds[i].id[2] < events'[j].ver
    BY Zenon, <1>5 DEF FreshOK
  <2>5. QED
    BY Zenon, <1>3, <1>4, <1>5, <1>6, <2>1, <2>2, <2>3, <2>4, CommandSent
<1>9. QED
  BY Zenon, <1>7, <1>8

\* The command of a cycle is published once: its marker is set with it.
LEMMA CycleSent ==
  ASSUME ServiceInv, pc = "sendReconcile", pc' = "published",
         once' = once \cup {<<"sent", control.id>>},
         cmds' = IF <<"sent", control.id>> \in once THEN cmds
                 ELSE Append(cmds, [id |-> control.id, batch |-> plan.batch]),
         UNCHANGED <<events, staged, acked, processed, answers, stored, used, generation,
                     results, code, recovery, control, polled, plan>>
  PROVE  ServiceInv' /\ Serves
<1> DEFINE k == [id |-> control.id, batch |-> plan.batch]
           mark == <<"sent", control.id>>
<1>1. /\ control.id \in ReconcileIds /\ Members(plan.batch) # {} /\ CyclePhase
      /\ "gen" \in DOMAIN polled /\ pc' \in Reconciling \ Closing
      /\ pc' \notin AtWork \cup Polling \cup Recovering
  BY Zenon DEF ServiceInv, CyclePhase, RecoverPhase, AtWork, Applying, Publishing, Polling,
         Recovering, Reconciling, Closing
<1>2. RecoverPhase' /\ CyclePhase'
  BY Zenon, <1>1 DEF RecoverPhase, CyclePhase, ReconcileIds, NoId, Members
<1>3. DataOK /\ FreshOK /\ OtherMarks /\ EventsOK' /\ BudgetOK'
  <2>1. DataOK /\ FreshOK /\ EventsOK /\ BudgetOK
    BY Zenon DEF ServiceInv, DataOK
  <2>2. OtherMarks
    BY DEF OtherMarks
  <2>3. Sequence(events)'
    BY Zenon, <2>1 DEF EventsOK
  <2>4. EventsOK'
    BY Zenon, <2>1, <2>3 DEF EventsOK, rev, Members
  <2>5. BudgetOK'
    BY Zenon, <2>1 DEF BudgetOK
  <2>6. QED
    BY Zenon, <2>1, <2>2, <2>4, <2>5
<1>4. k.id \in Ids /\ k.id[1] = "RECONCILE" /\ k.id = control.id /\ k.batch = plan.batch
  BY Zenon, <1>1 DEF Ids, ReconcileIds
<1> HIDE DEF k
<1>5. CASE mark \in once
  <2>1. Kept
    BY Zenon, <1>5 DEF Kept, rev
  <2>2. QED
    BY Zenon, <1>1, <1>2, <1>3, <2>1, Elsewhere
<1>6. CASE mark \notin once
  <2>1. cmds' = Append(cmds, k) /\ Members(k.batch) # {}
    BY Zenon, <1>1, <1>4, <1>6 DEF k
  <2>2. \A i \in 1 .. Len(cmds) : cmds[i].id # k.id
    BY Zenon, <1>3, <1>4, <1>6 DEF FreshOK
  <2>3. /\ k.id[1] # "SET" /\ k.id[1] # "RECOVERY" /\ <<"sent", k.id>> \in once'
        /\ DOMAIN recovery \subseteq DOMAIN recovery'
    BY Zenon, <1>4
  <2>4. \A j \in 1 .. Len(events') : \A i \in 1 .. Len(cmds) :
          cmds[i].id[1] = "SET" => cmds[i].id[2] < events'[j].ver
    BY Zenon, <1>3 DEF FreshOK
  <2>5. QED
    BY Zenon, <1>1, <1>2, <1>3, <1>4, <2>1, <2>2, <2>3, <2>4, CommandSent
<1>7. QED
  BY Zenon, <1>5, <1>6

-----------------------------------------------------------------------------
(* Steps of the command loop *)

\* What processOne leaves alone, and the data it must see to.
LEMMA CommandGoesOn ==
  ASSUME ServiceInv, UNCHANGED applyFrame, generation' = generation, BudgetOK', rev' = rev,
         once \subseteq once', pc' \in AtWork \cup {"idle"},
         TurnOK', AnswersOK', StoredOK', ApplyPhase',
         {"id", "status"} \subseteq DOMAIN control', control'.id = control.id,
         control'.status # "NONE" => control.id \in ReconcileIds
  PROVE  ServiceInv'
<1>1. UNCHANGED <<cmds, events, staged, recovery, polled, plan>>
  BY Zenon DEF applyFrame, intent
<1>2. CommandsOK'
  <2>1. Ids' = Ids
    BY Zenon DEF Ids, rev
  <2>2. CommandsOK
    BY Zenon DEF ServiceInv, DataOK
  <2>3. QED
    BY Zenon, <1>1, <2>1, <2>2 DEF CommandsOK, Members
<1>3. EventsOK'
  BY Zenon, <1>1 DEF ServiceInv, DataOK, EventsOK, Members
<1>4. FreshOK'
  BY Zenon, <1>1 DEF ServiceInv, DataOK, FreshOK
<1>5. pc' \notin Polling \cup Recovering \cup Reconciling \cup Closing /\ pc' \notin {"drifted", "failures"}
  BY Zenon DEF AtWork, Applying, Publishing, Polling, Recovering, Reconciling, Closing
<1>6. RecoverPhase'
  BY Zenon, <1>1, <1>5 DEF ServiceInv, RecoverPhase
<1>7. CyclePhase'
  BY Zenon, <1>5 DEF ServiceInv, CyclePhase, ReconcileIds, NoId
<1>8. QED
  BY Zenon, <1>2, <1>3, <1>4, <1>6, <1>7 DEF ServiceInv, DataOK

\* A step between the taking of a command and its first answer.
LEMMA CommandWorks ==
  ASSUME ServiceInv, UNCHANGED applyFrame, generation' = generation, BudgetOK', rev' = rev,
         UNCHANGED <<acked, answers, processed, stored, control>>, once \subseteq once',
         \A m \in once' : \/ m \in once
                          \/ /\ m[1] # "result"
                             /\ m[1] = "unchanged" =>
                                  m[2] \in DOMAIN stored /\ stored[m[2]] = "PORT_DOWN",
         code' \in Outcomes, results' \in [OpIds -> Codes \cup {"none"}],
         pc' \in AtWork, ApplyPhase'
  PROVE  ServiceInv' /\ Serves
<1>1. cmds' = cmds
  BY Zenon DEF applyFrame
<1>2. TurnOK'
  BY Zenon, <1>1 DEF ServiceInv, DataOK, TurnOK, cmd
<1>3. AnswersOK'
  BY Zenon, <1>1, AnswersStand DEF ServiceInv, DataOK
<1>4. StoredOK'
  BY Zenon DEF ServiceInv, DataOK, StoredOK
<1>5. Serves
  BY Zenon, <1>1, NothingServed
<1>6. /\ {"id", "status"} \subseteq DOMAIN control' /\ control'.id = control.id
      /\ control'.status # "NONE" => control.id \in ReconcileIds
  BY Zenon DEF ServiceInv, CyclePhase
<1>7. QED
  BY Zenon, <1>2, <1>3, <1>4, <1>5, <1>6, CommandGoesOn

\* The command in turn is acknowledged; the next one is not processed.
LEMMA TurnPasses ==
  ASSUME DataOK, acked < Len(cmds), cmd.id \in DOMAIN processed, acked' = acked + 1,
         UNCHANGED <<cmds, processed, answers>>
  PROVE  TurnOK' /\ Serves
<1>1. acked \in Nat /\ Len(cmds) \in Nat /\ acked' \in 0 .. Len(cmds')
  BY TurnBounded
<1>2. ASSUME acked' < Len(cmds')
      PROVE  cmd'.id \notin DOMAIN processed'
  <2>1. acked + 2 \in 1 .. Len(cmds) /\ cmd' = cmds[acked + 2]
    BY <1>1, <1>2 DEF cmd
  <2>2. \A i \in 1 .. Len(cmds) : i <= acked + 1 => cmds[i].id # cmds[acked + 2].id
    BY <1>1, <2>1 DEF DataOK, CommandsOK
  <2>3. QED
    BY Zenon, <2>1, <2>2 DEF DataOK, TurnOK
<1>3. TurnOK'
  <2>1. \A id \in DOMAIN processed' :
          \E i \in 1 .. Len(cmds') : i <= acked' + 1 /\ id = cmds'[i].id
    BY <1>1 DEF DataOK, TurnOK
  <2>2. \A i \in 1 .. acked' : cmds'[i].id \in DOMAIN processed'
    BY <1>1 DEF DataOK, TurnOK, cmd
  <2>3. QED
    BY Zenon, <1>1, <2>1, <2>2 DEF TurnOK
<1>4. Finished' = Finished
  BY <1>1, <1>2 DEF Finished, isAlreadyProcessed
<1>5. QED
  BY Zenon, <1>3, <1>4 DEF Serves, Service!svars

\* A command is processed when it is in turn, and answered not at all or for
\* every member.
LEMMA TurnEnds ==
  ASSUME DataOK, acked < Len(cmds), cmd.id \notin DOMAIN processed,
         NEW ok, processed' = Put(processed, cmd.id, ok), UNCHANGED <<cmds, acked, answers>>,
         Service!Answered(cmd.id) \in {{}, Members(batch)}
  PROVE  TurnOK' /\ Serves
<1>1. DOMAIN processed' = DOMAIN processed \cup {cmd.id}
  BY Zenon DEF Put
<1>2. /\ acked \in Nat /\ Len(cmds) \in Nat /\ acked + 1 \in 1 .. Len(cmds)
      /\ cmd = cmds[acked + 1] /\ cmd' = cmd
  BY TurnBounded DEF cmd
<1>3. TurnOK'
  <2>1. acked + 1 <= acked + 1 /\ TurnOK
    BY <1>2 DEF DataOK
  <2>2. \A id \in DOMAIN processed' : \E i \in 1 .. Len(cmds) : i <= acked + 1 /\ id = cmds[i].id
    BY Zenon, <1>1, <1>2, <2>1 DEF TurnOK
  <2>3. QED
    BY Zenon, <1>1, <2>1, <2>2 DEF TurnOK
<1>4. Service!Finish
  <2>1. Finished = acked /\ Finished' = acked + 1
    BY <1>1, <1>2 DEF Finished, isAlreadyProcessed
  <2>2. Service!InTurn = cmd /\ Service!MembersOf(Service!InTurn.batch) = Members(batch)
    BY Zenon, <1>2, <2>1 DEF Service!InTurn, Service!MembersOf, Members, batch
  <2>3. QED
    BY Zenon, <2>1, <2>2 DEF Service!Finish
<1>5. QED
  BY Zenon, <1>3, <1>4 DEF Serves, Service!ServiceNext

\* The first command that is not acknowledged is read, whatever was done of
\* it before a crash.
LEMMA TakeServes == ServiceInv /\ Take => ServiceInv' /\ Serves
<1> SUFFICES ASSUME ServiceInv, Take
             PROVE  ServiceInv' /\ Serves
  BY Zenon
<1>1. /\ pc = "idle" /\ acked < Len(cmds) /\ UNCHANGED applyFrame
      /\ UNCHANGED <<used, generation, results, answers, stored, once, control, code>>
  <2>1. /\ pc = "idle" /\ acked < Len(cmds)
        /\ UNCHANGED <<used, deviceVars, applyFrame, answers, once, control, code>>
    BY Zenon DEF Take, TakeProcessed, TakeStored, TakeStale, TakeCommand, Waiting
  <2>2. stored' = stored
    BY Zenon DEF Take, TakeProcessed, TakeStored, TakeStale, TakeCommand, applied
  <2>3. QED
    BY Zenon, <2>1, <2>2 DEF deviceVars, replay
<1>2. /\ BudgetOK' /\ rev' = rev /\ StoredOK' /\ once \subseteq once' /\ cmds' = cmds
      /\ {"id", "status"} \subseteq DOMAIN control' /\ control'.id = control.id
      /\ control'.status # "NONE" => control.id \in ReconcileIds
      /\ code' \in Outcomes /\ results' \in [OpIds -> Codes \cup {"none"}] /\ DataOK
  BY Zenon, <1>1 DEF ServiceInv, DataOK, BudgetOK, rev, StoredOK, CyclePhase, applyFrame
<1>3. AnswersOK'
  BY Zenon, <1>1, <1>2, AnswersStand DEF ServiceInv, DataOK
<1>4. CASE TakeProcessed
  <2>1. /\ cmd.id \in DOMAIN processed /\ acked' = acked + 1 /\ pc' = "idle"
        /\ processed' = processed
    BY Zenon, <1>1, <1>4 DEF TakeProcessed, isAlreadyProcessed, applied
  <2>2. TurnOK' /\ Serves
    BY Zenon, <1>1, <1>2, <2>1, TurnPasses
  <2>3. ApplyPhase'
    BY Zenon, <2>1 DEF ApplyPhase, Applying, Publishing
  <2>4. QED
    BY Zenon, <1>1, <1>2, <1>3, <2>1, <2>2, <2>3, CommandGoesOn
<1>5. CASE TakeStale
  <2>1. /\ cmd.id \notin DOMAIN processed /\ cmd.id \notin DOMAIN stored /\ pc' = "ack"
        /\ processed' = Put(processed, cmd.id, FALSE) /\ acked' = acked
    BY Zenon, <1>5 DEF TakeStale, isAlreadyProcessed, NotTried
  <2>2. Service!Answered(cmd.id) = {}
    <3>1. AnswersOK
      BY Zenon, <1>2 DEF DataOK
    <3>2. \A i \in 1 .. Len(answers) : answers[i].id # cmd.id
      BY Zenon, <2>1, <3>1 DEF AnswersOK
    <3>3. QED
      BY Zenon, <3>2 DEF Service!Answered, Service!AnswersOf
  <2>3. TurnOK' /\ Serves
    <3>1. /\ Service!Answered(cmd.id) \in {{}, Members(batch)}
          /\ UNCHANGED <<cmds, acked, answers>>
      BY Zenon, <1>1, <1>2, <2>1, <2>2
    <3>2. QED
      BY Zenon, <1>1, <1>2, <2>1, <3>1, TurnEnds
  <2>4. ApplyPhase'
    <3>1. cmd'.id \in DOMAIN processed' /\ acked' < Len(cmds')
      BY Zenon, <1>1, <1>2, <2>1 DEF cmd, Put
    <3>2. pc' = "ack" /\ pc' \notin Applying \cup Publishing
      BY Zenon, <2>1 DEF Applying, Publishing
    <3>3. pc' # "result"
      BY Zenon, <2>1
    <3>4. QED
      BY Zenon, <3>1, <3>2, <3>3 DEF ApplyPhase
  <2>5. pc' \in AtWork
    BY Zenon, <2>1 DEF AtWork
  <2>6. QED
    BY Zenon, <1>1, <1>2, <1>3, <2>3, <2>4, <2>5, CommandGoesOn
<1>6. CASE TakeStored \/ TakeCommand
  <2>1. /\ cmd.id \notin DOMAIN processed /\ UNCHANGED <<acked, processed>>
        /\ \/ cmd.id \in DOMAIN stored /\ pc' = "state"
           \/ cmd.id \notin DOMAIN stored /\ pc' = "info"
    BY Zenon, <1>1, <1>6 DEF TakeStored, TakeCommand, isAlreadyProcessed, applied
  <2>2. cmd' = cmd
    BY Zenon, <1>2, <2>1 DEF cmd
  <2>3. ApplyPhase'
    BY Zenon, <1>1, <1>2, <2>1, <2>2 DEF ApplyPhase, Applying, Publishing
  <2>4. pc' \in AtWork
    BY Zenon, <2>1 DEF AtWork, Applying, Publishing
  <2>5. QED
    BY Zenon, <1>1, <1>2, <2>1, <2>3, <2>4, CommandWorks
<1>7. QED
  BY Zenon, <1>4, <1>5, <1>6 DEF Take

\* Every id there can be is one of the device's operation ids.
LEMMA IdsKnown == BudgetOK => Ids \subseteq OpIds
<1> SUFFICES ASSUME BudgetOK
             PROVE  Ids \subseteq OpIds
  BY Zenon
<1>1. PICK t \in Troubles : \A k \in Kinds : used[k] <= t[k]
  BY Zenon DEF BudgetOK
<1>2. /\ used["sets"] \in Nat /\ t["sets"] \in Nat /\ used["sets"] <= t["sets"]
      /\ generation \in Nat /\ t["restarts"] \in Nat /\ generation <= t["restarts"] + 1
  BY <1>1, SyncdAssumption DEF BudgetOK, Kinds
<1>3. \A n \in 1 .. used["sets"] : <<"SET", n>> \in OpIds
  <2>1. \A n \in 1 .. used["sets"] : n \in 1 .. t["sets"]
    BY <1>2
  <2>2. QED
    BY Zenon, <2>1, SyncdAssumption
<1>4. \A n \in 1 .. generation : <<"RECOVERY", n>> \in OpIds
  <2>1. \A n \in 1 .. generation : n \in 1 .. t["restarts"] + 1
    BY <1>2
  <2>2. QED
    BY Zenon, <2>1, SyncdAssumption
<1>5. QED
  BY <1>3, <1>4, SyncdAssumption DEF Ids, ReconcileIds

\* applyConnections answers with a code, which it may keep.
LEMMA DeviceAnswers ==
  ASSUME results \in [OpIds -> Codes \cup {"none"}], NEW o \in OpIds, NEW b
  PROVE  /\ Answer(o, b) \in Codes
         /\ ApplyConnections(o, b) => /\ results' \in [OpIds -> Codes \cup {"none"}]
                                      /\ generation' = generation
<1>1. Verdict(b) \in Codes
  <2>1. FirstPortError(b) \in Codes
    <3>1. \A x : PortError(x) \in Codes
      BY Zenon DEF PortError, Codes
    <3>2. QED
      BY Zenon, <3>1 DEF FirstPortError, Codes
  <2>2. QED
    BY Zenon, <2>1 DEF Verdict, Codes
<1>2. Answer(o, b) \in Codes
  BY Zenon, <1>1 DEF Answer
<1>3. ASSUME ApplyConnections(o, b)
      PROVE  results' \in [OpIds -> Codes \cup {"none"}] /\ generation' = generation
  <2>1. CASE results[o] # "none"
    BY Zenon, <1>3, <2>1 DEF ApplyConnections, deviceVars, replay
  <2>2. CASE results[o] = "none"
    <3>1. Remember(o, Verdict(b)) /\ generation' = generation
      BY Zenon, <1>3, <2>2 DEF ApplyConnections, Execute
    <3>2. results' \in [OpIds -> Codes \cup {"none"}]
      <4> DEFINE out == IF Len(order) >= CacheSize THEN {Head(order)} ELSE {}
      <4>1. results' = [p \in OpIds |-> IF p = o THEN Verdict(b) ELSE IF p \in out THEN "none"
                                        ELSE results[p]]
        BY Zenon, <3>1 DEF Remember
      <4> HIDE DEF out
      <4>2. QED
        BY Zenon, <1>1, <4>1
    <3>3. QED
      BY Zenon, <3>1, <3>2
  <2>3. QED
    BY Zenon, <2>1, <2>2
<1>4. QED
  BY Zenon, <1>2, <1>3

\* The command is applied and its result confirmed, or the reply is lost.
LEMMA ApplyServes ==
  ServiceInv /\ (ApplyInfo \/ Apply \/ ConfirmApplied) => ServiceInv' /\ Serves
<1> SUFFICES ASSUME ServiceInv, ApplyInfo \/ Apply \/ ConfirmApplied
             PROVE  ServiceInv' /\ Serves
  BY Zenon
<1>1. /\ UNCHANGED <<applyFrame, acked, answers, applied, once, control>>
      /\ pc \in Applying /\ pc' \in Applying
  BY Zenon DEF ApplyInfo, Apply, ConfirmApplied, Applying
<1>2. UNCHANGED <<acked, answers, processed, stored, control, once, cmds>> /\ UNCHANGED applyFrame
  BY Zenon, <1>1 DEF applied, applyFrame
<1>3. cmd' = cmd /\ batch' = batch
  BY Zenon, <1>2 DEF cmd, batch
<1>4. ApplyPhase' /\ pc' \in AtWork
  <2>1. /\ acked < Len(cmds) /\ cmd.id \notin DOMAIN processed /\ cmd.id \notin DOMAIN stored
        /\ pc' \notin Publishing /\ pc' \notin {"ack", "result"}
    BY Zenon, <1>1 DEF ServiceInv, ApplyPhase, Applying, Publishing
  <2>2. QED
    BY Zenon, <1>1, <1>2, <1>3, <2>1 DEF ApplyPhase, AtWork
<1>5. cmd.id \in OpIds
  <2>1. acked + 1 \in 1 .. Len(cmds)
    BY <1>1 DEF ServiceInv, ApplyPhase, DataOK, TurnOK, Applying
  <2>2. cmd.id \in Ids
    BY Zenon, <2>1 DEF ServiceInv, DataOK, CommandsOK, cmd
  <2>3. QED
    BY Zenon, <2>2, IdsKnown DEF ServiceInv, DataOK
<1>6. StoredOK /\ BudgetOK
  BY Zenon DEF ServiceInv, DataOK
<1>7. /\ generation' = generation /\ code' \in Outcomes
      /\ results' \in [OpIds -> Codes \cup {"none"}]
  <2>1. CASE ApplyInfo
    BY Zenon, <1>6, <2>1 DEF ApplyInfo, deviceVars, replay, StoredOK, Outcomes
  <2>2. CASE Apply
    <3>1. /\ ApplyConnections(cmd.id, batch) \/ UNCHANGED deviceVars
          /\ code' \in {Answer(cmd.id, batch), "APPLY_TIMEOUT", "DEVICE_NOT_READY"}
      BY Zenon, <2>2 DEF Apply
    <3>2. /\ Answer(cmd.id, batch) \in Codes
          /\ ApplyConnections(cmd.id, batch) => /\ results' \in [OpIds -> Codes \cup {"none"}]
                                                /\ generation' = generation
      BY Zenon, <1>5, <1>6, DeviceAnswers DEF StoredOK
    <3>3. code' \in Outcomes
      BY Zenon, <3>1, <3>2 DEF Outcomes, Codes
    <3>4. QED
      BY Zenon, <1>6, <3>1, <3>2, <3>3 DEF StoredOK, deviceVars, replay
  <2>3. CASE ConfirmApplied
    BY Zenon, <1>6, <2>3 DEF ConfirmApplied, deviceVars, replay, StoredOK, Outcomes, Codes
  <2>4. QED
    BY Zenon, <2>1, <2>2, <2>3
<1>8. BudgetOK' /\ rev' = rev
  <2>1. used' = used \/ Use("losses")
    BY Zenon DEF ApplyInfo, Apply, ConfirmApplied, Lose
  <2>2. CASE used' = used
    BY Zenon, <1>6, <1>7, <2>2 DEF BudgetOK, rev
  <2>3. CASE Use("losses")
    BY Zenon, <1>6, <1>7, <2>3, TroubleCounted DEF Kinds
  <2>4. QED
    BY Zenon, <2>1, <2>2, <2>3
<1>9. QED
  BY Zenon, <1>2, <1>4, <1>7, <1>8, CommandWorks

\* The result is stored, once, before anything is told of it.
LEMMA StoreServes == ServiceInv /\ StoreResult => ServiceInv' /\ Serves
<1> SUFFICES ASSUME ServiceInv, StoreResult
             PROVE  ServiceInv' /\ Serves
  BY Zenon
<1>1. /\ pc = "store" /\ pc' = "state" /\ stored' = Put(stored, cmd.id, code)
      /\ UNCHANGED <<used, deviceVars, applyFrame, acked, answers, processed, once, control,
                     code>>
  BY Zenon DEF StoreResult
<1>2. UNCHANGED <<generation, results, cmds>> /\ UNCHANGED applyFrame
  BY Zenon, <1>1 DEF deviceVars, replay, applyFrame
<1>3. /\ acked < Len(cmds) /\ cmd.id \notin DOMAIN processed /\ cmd.id \notin DOMAIN stored
      /\ cmd' = cmd
  BY Zenon, <1>1, <1>2 DEF ServiceInv, ApplyPhase, Applying, cmd
<1>4. /\ DOMAIN stored' = DOMAIN stored \cup {cmd.id} /\ stored'[cmd.id] = code
      /\ \A id \in DOMAIN stored : stored'[id] = stored[id]
  BY Zenon, <1>1, <1>3 DEF Put
<1>5. StoredOK' /\ BudgetOK' /\ rev' = rev
  BY Zenon, <1>1, <1>2, <1>4 DEF ServiceInv, DataOK, StoredOK, BudgetOK, rev
<1>6. TurnOK' /\ Serves
  BY Zenon, <1>1, <1>2, NothingServed DEF ServiceInv, DataOK, TurnOK
<1>7. AnswersOK'
  <2>1. AnswersOK
    BY Zenon DEF ServiceInv, DataOK
  <2>2. Sequence(answers)'
    BY Zenon, <1>1, <2>1 DEF AnswersOK
  <2>3. answers' = answers /\ once' = once /\ cmds' = cmds
    BY Zenon, <1>1, <1>2
  <2>4. ASSUME NEW i \in 1 .. Len(answers)
        PROVE  LET a == answers[i] IN
               /\ a.id \in DOMAIN stored'
               /\ a.code = stored'[a.id] \/ (a.code = "OK" /\ stored'[a.id] = "PORT_DOWN")
    <3> DEFINE a == answers[i]
    <3>1. /\ a.id \in DOMAIN stored
          /\ a.code = stored[a.id] \/ (a.code = "OK" /\ stored[a.id] = "PORT_DOWN")
      BY Zenon, <2>1 DEF AnswersOK
    <3>2. a.id \in DOMAIN stored' /\ stored'[a.id] = stored[a.id]
      BY Zenon, <1>4, <3>1
    <3>3. QED
      BY Zenon, <3>1, <3>2
  <2>5. \A m \in once : m[1] = "unchanged" =>
          m[2] \in DOMAIN stored' /\ stored'[m[2]] = "PORT_DOWN"
    BY Zenon, <1>4, <2>1 DEF AnswersOK
  <2>6. /\ \A i \in 1 .. Len(answers) :
             /\ \E j \in 1 .. Len(cmds) :
                  answers[i].id = cmds[j].id /\ answers[i].conn \in Members(cmds[j].batch)
             /\ <<"result", answers[i].id, answers[i].conn>> \in once
        /\ \A m \in once : m[1] = "result" =>
             \E i \in 1 .. Len(answers) : answers[i].id = m[2] /\ answers[i].conn = m[3]
    BY Zenon, <2>1 DEF AnswersOK
  <2>7. QED
    BY <2>2, <2>3, <2>4, <2>5, <2>6 DEF AnswersOK, Members
<1>8. ApplyPhase' /\ pc' \in AtWork
  BY Zenon, <1>1, <1>2, <1>3, <1>4 DEF ApplyPhase, AtWork, Applying, Publishing
<1>9. /\ {"id", "status"} \subseteq DOMAIN control' /\ control'.id = control.id
      /\ control'.status # "NONE" => control.id \in ReconcileIds
  BY Zenon, <1>1 DEF ServiceInv, CyclePhase
<1>10. QED
  BY Zenon, <1>1, <1>2, <1>5, <1>6, <1>7, <1>8, <1>9, CommandGoesOn

\* The states are published; a member is marked as unchanged only when the
\* command failed because of a port.
LEMMA StateServes ==
  ServiceInv /\ (PublishState \/ RecordCounters) => ServiceInv' /\ Serves
<1> SUFFICES ASSUME ServiceInv, PublishState \/ RecordCounters
             PROVE  ServiceInv' /\ Serves
  BY Zenon
<1>1. /\ pc = "state"
      /\ UNCHANGED <<used, deviceVars, applyFrame, acked, answers, applied, control, code>>
  BY Zenon DEF PublishState, RecordCounters
<1>2. UNCHANGED <<generation, results, cmds, acked, answers, processed, stored, control, code>>
      /\ UNCHANGED applyFrame
  BY Zenon, <1>1 DEF deviceVars, replay, applyFrame, applied
<1>3. /\ acked < Len(cmds) /\ cmd.id \notin DOMAIN processed /\ cmd.id \in DOMAIN stored
      /\ cmd' = cmd /\ batch' = batch
  BY Zenon, <1>1, <1>2 DEF ServiceInv, ApplyPhase, Publishing, cmd, batch
<1>4. BudgetOK' /\ rev' = rev /\ code' \in Outcomes
      /\ results' \in [OpIds -> Codes \cup {"none"}]
  BY Zenon, <1>1, <1>2 DEF ServiceInv, DataOK, StoredOK, BudgetOK, rev
<1>5. /\ once \subseteq once'
      /\ \A m \in once' : \/ m \in once
                          \/ /\ m[1] # "result"
                             /\ m[1] = "unchanged" =>
                                  m[2] \in DOMAIN stored /\ stored[m[2]] = "PORT_DOWN"
  <2>1. CASE RecordCounters
    BY <2>1 DEF RecordCounters, CountOnce
  <2>2. CASE PublishState
    <3> DEFINE mark == ConfirmedUnchanged(First(todo))
    <3>1. \/ once' = once
          \/ once' = once \cup {mark} /\ PreserveConfirmed(First(todo))
      BY Zenon, <2>2 DEF PublishState
    <3>2. mark[1] = "unchanged" /\ mark[2] = cmd.id
      BY Zenon DEF ConfirmedUnchanged
    <3>3. PreserveConfirmed(First(todo)) => stored[cmd.id] = "PORT_DOWN"
      BY Zenon DEF PreserveConfirmed, result
    <3> HIDE DEF mark
    <3>4. mark[1] # "result"
      BY Zenon, <3>2
    <3>5. QED
      BY Zenon, <1>3, <3>1, <3>2, <3>3, <3>4
  <2>3. QED
    BY Zenon, <2>1, <2>2
<1>6. ApplyPhase' /\ pc' \in AtWork
  <2>1. \/ pc' = "state"
        \/ pc' = "result" /\ todo' = Members(batch)
    BY Zenon, <1>1 DEF PublishState, RecordCounters
  <2>2. CASE pc' = "state"
    BY Zenon, <1>2, <1>3, <2>2 DEF ApplyPhase, AtWork, Applying, Publishing
  <2>3. CASE pc' = "result" /\ todo' = Members(batch)
    <3>1. todo' \subseteq Members(batch') /\ Members(batch') \ todo' = {}
      BY Zenon, <1>3, <2>3
    <3>2. QED
      BY Zenon, <1>2, <1>3, <2>3, <3>1 DEF ApplyPhase, AtWork, Applying, Publishing, Members
  <2>4. QED
    BY Zenon, <2>1, <2>2, <2>3
<1>7. QED
  BY Zenon, <1>2, <1>4, <1>5, <1>6, CommandWorks

\* A member is answered unless its marker says that it has been; its code is
\* the stored result, or OK beside a failed port.
LEMMA ResultServes == ServiceInv /\ PublishResult => ServiceInv' /\ Serves
<1> SUFFICES ASSUME ServiceInv, PublishResult
             PROVE  ServiceInv' /\ Serves
  BY Zenon
<1> DEFINE c == First(todo)
           mark == <<"result", cmd.id, c>>
           a == Result(c)
<1>1. /\ pc = "result" /\ c \in todo /\ once' = once \cup {mark} /\ todo' = todo \ {c}
      /\ answers' = IF mark \in once THEN answers ELSE Append(answers, a)
      /\ UNCHANGED <<used, deviceVars, applyFrame, acked, applied, control, pc, code>>
  BY Zenon DEF PublishResult
<1>2. UNCHANGED <<generation, results, cmds, acked, processed, stored, control, code, pc>>
      /\ UNCHANGED applyFrame
  BY Zenon, <1>1 DEF deviceVars, replay, applyFrame, applied
<1>3. /\ acked < Len(cmds) /\ cmd.id \notin DOMAIN processed /\ cmd.id \in DOMAIN stored
      /\ todo \subseteq Members(batch) /\ cmd' = cmd /\ batch' = batch
      /\ \A d \in Members(batch) \ todo : <<"result", cmd.id, d>> \in once
  BY Zenon, <1>1, <1>2 DEF ServiceInv, ApplyPhase, Publishing, cmd, batch
<1>4. c \in todo /\ c \in Members(batch) /\ c \in Conns
  BY Zenon, <1>1, <1>3 DEF Members
<1>5. BudgetOK' /\ rev' = rev /\ StoredOK' /\ code' \in Outcomes
      /\ results' \in [OpIds -> Codes \cup {"none"}]
  BY Zenon, <1>1, <1>2 DEF ServiceInv, DataOK, StoredOK, BudgetOK, rev
<1>6. /\ acked \in Nat /\ Len(cmds) \in Nat /\ acked + 1 \in 1 .. Len(cmds)
      /\ cmd = cmds[acked + 1] /\ Finished = acked /\ Finished' = Finished
  <2>1. /\ acked \in Nat /\ Len(cmds) \in Nat /\ acked + 1 \in 1 .. Len(cmds)
        /\ cmd = cmds[acked + 1]
    BY <1>3, TurnBounded DEF ServiceInv, cmd
  <2>2. QED
    BY <1>2, <1>3, <2>1 DEF Finished, isAlreadyProcessed
<1>7. /\ mark[1] = "result" /\ mark[2] = cmd.id /\ mark[3] = c
      /\ a.id = cmd.id /\ a.conn = c /\ a.ver = batch[c].ver /\ a.batch = batch
      /\ a.code = IF <<"unchanged", cmd.id, c>> \in once THEN "OK" ELSE stored[cmd.id]
      /\ a = [id |-> cmd.id, conn |-> c, ver |-> batch[c].ver, batch |-> batch, code |-> a.code]
  BY Zenon DEF Result, ConfirmedUnchanged, result
<1>8. ApplyPhase' /\ pc' \in AtWork
  <2>1. /\ todo' \subseteq Members(batch)
        /\ \A d \in Members(batch) \ todo' : <<"result", cmd.id, d>> \in once'
    BY Zenon, <1>1, <1>3
  <2>2. /\ pc' \notin Applying /\ pc' # "ack" /\ pc' \in AtWork
    BY Zenon, <1>1, <1>2 DEF Applying, Publishing, AtWork
  <2>3. QED
    BY Zenon, <1>2, <1>3, <2>1, <2>2 DEF ApplyPhase, Members
<1> HIDE DEF c, mark, a
<1>9. CASE mark \in once
  <2>1. once' = once /\ answers' = answers
    BY Zenon, <1>1, <1>9
  <2>2. QED
    BY Zenon, <1>2, <1>5, <1>8, <2>1, CommandWorks
<1>10. CASE mark \notin once
  <2>1. /\ Sequence(answers') /\ Len(answers) \in Nat /\ Len(answers') = Len(answers) + 1
        /\ \A i \in 1 .. Len(answers) : answers'[i] = answers[i]
        /\ answers'[Len(answers) + 1] = a /\ answers' = Append(answers, a)
    <3>1. Sequence(answers) /\ answers' = Append(answers, a)
      BY Zenon, <1>1, <1>10 DEF ServiceInv, DataOK, AnswersOK
    <3>2. QED
      BY Zenon, <3>1, SequenceAppend
  <2>2. \A i \in 1 .. Len(answers') : i \in 1 .. Len(answers) \/ i = Len(answers) + 1
    BY <2>1
  <2>3. AnswersOK
    BY Zenon DEF ServiceInv, DataOK
  <2>4. a.code = stored[cmd.id] \/ (a.code = "OK" /\ stored[cmd.id] = "PORT_DOWN")
    <3>1. CASE <<"unchanged", cmd.id, c>> \in once
      <4> DEFINE m == <<"unchanged", cmd.id, c>>
      <4>1. m[1] = "unchanged" /\ m[2] = cmd.id
        BY Zenon
      <4> HIDE DEF m
      <4>2. stored[m[2]] = "PORT_DOWN"
        BY Zenon, <2>3, <3>1, <4>1 DEF AnswersOK, m
      <4>3. QED
        BY Zenon, <1>7, <3>1, <4>1, <4>2
    <3>2. CASE <<"unchanged", cmd.id, c>> \notin once
      BY Zenon, <1>7, <3>2
    <3>3. QED
      BY Zenon, <3>1, <3>2
  <2>5. AnswersOK'
    <3>1. ASSUME NEW i \in 1 .. Len(answers')
          PROVE  LET b == answers'[i] IN
                 /\ \E j \in 1 .. Len(cmds) : b.id = cmds[j].id /\ b.conn \in Members(cmds[j].batch)
                 /\ b.id \in DOMAIN stored
                 /\ b.code = stored[b.id] \/ (b.code = "OK" /\ stored[b.id] = "PORT_DOWN")
                 /\ <<"result", b.id, b.conn>> \in once'
      <4>1. CASE i \in 1 .. Len(answers)
        BY Zenon, <1>1, <2>1, <2>3, <4>1 DEF AnswersOK
      <4>2. CASE i = Len(answers) + 1
        <5>1. answers'[i] = a
          BY Zenon, <2>1, <4>2
        <5>2. /\ a.id = cmds[acked + 1].id /\ a.conn \in Members(cmds[acked + 1].batch)
              /\ acked + 1 \in 1 .. Len(cmds)
          BY Zenon, <1>4, <1>6, <1>7 DEF batch
        <5>3. /\ a.id \in DOMAIN stored
              /\ a.code = stored[a.id] \/ (a.code = "OK" /\ stored[a.id] = "PORT_DOWN")
              /\ <<"result", a.id, a.conn>> \in once'
          BY Zenon, <1>1, <1>3, <1>7, <2>4 DEF mark
        <5>4. QED
          BY Zenon, <5>1, <5>2, <5>3
      <4>3. QED
        BY Zenon, <2>2, <4>1, <4>2
    <3>2. ASSUME NEW m \in once', m[1] = "result"
          PROVE  \E i \in 1 .. Len(answers') : answers'[i].id = m[2] /\ answers'[i].conn = m[3]
      <4>1. CASE m \in once
        <5>1. PICK i \in 1 .. Len(answers) : answers[i].id = m[2] /\ answers[i].conn = m[3]
          BY Zenon, <2>3, <3>2, <4>1 DEF AnswersOK
        <5>2. i \in 1 .. Len(answers') /\ answers'[i] = answers[i]
          BY <2>1
        <5>3. QED
          BY Zenon, <5>1, <5>2
      <4>2. CASE m = mark
        <5>1. Len(answers) + 1 \in 1 .. Len(answers')
          BY <2>1
        <5>2. QED
          BY Zenon, <1>7, <2>1, <4>2, <5>1
      <4>3. QED
        BY Zenon, <1>1, <4>1, <4>2
    <3>3. \A m \in once' : m[1] = "unchanged" =>
            m[2] \in DOMAIN stored /\ stored[m[2]] = "PORT_DOWN"
      <4>1. mark[1] # "unchanged"
        BY Zenon, <1>7
      <4>2. QED
        BY Zenon, <1>1, <2>3, <4>1 DEF AnswersOK
    <3>4. Sequence(answers)' /\ cmds' = cmds /\ stored' = stored
      BY Zenon, <1>2, <2>1
    <3>5. QED
      BY Zenon, <3>1, <3>2, <3>3, <3>4 DEF AnswersOK, Members
  <2>6. Serves
    <3>1. Service!InTurn = cmd /\ Service!MembersOf(cmd.batch) = Members(batch)
      BY Zenon, <1>6 DEF Service!InTurn, Service!MembersOf, Members, batch
    <3>2. c \notin Service!Answered(cmd.id)
      <4>1. \A i \in 1 .. Len(answers) : answers[i].id = cmd.id => answers[i].conn # c
        BY Zenon, <1>10, <2>3 DEF AnswersOK, mark
      <4>2. QED
        BY Zenon, <4>1 DEF Service!Answered, Service!AnswersOf
    <3>3. \A i \in Service!AnswersOf(cmd.id) : Service!Agree(a.code, answers[i].code)
      <4>1. ASSUME NEW i \in Service!AnswersOf(cmd.id)
            PROVE  \/ answers[i].code = stored[cmd.id]
                   \/ answers[i].code = "OK" /\ stored[cmd.id] = "PORT_DOWN"
        BY Zenon, <2>3 DEF Service!AnswersOf, AnswersOK
      <4>2. QED
        BY Zenon, <2>4, <4>1 DEF Service!Agree
    <3>4. a.code \in Codes \cup {"DEVICE_NOT_READY"}
      BY Zenon, <1>3, <2>4 DEF ServiceInv, DataOK, StoredOK, Outcomes, Codes
    <3>5. answers'[Len(answers')] = a
      BY Zenon, <2>1
    <3>6. answers' = Append(answers, [id |-> cmd.id, conn |-> c, ver |-> cmd.batch[c].ver,
                                      batch |-> cmd.batch, code |-> a.code])
      BY Zenon, <1>7, <2>1 DEF batch
    <3>7. Service!AnswerMember(c)
      BY Zenon, <1>2, <1>3, <1>4, <1>6, <2>1, <3>1, <3>2, <3>3, <3>4, <3>5, <3>6
         DEF Service!AnswerMember
    <3>8. QED
      BY Zenon, <1>4, <3>7 DEF Serves, Service!ServiceNext
  <2>7. TurnOK'
    BY Zenon, <1>2 DEF ServiceInv, DataOK, TurnOK, cmd
  <2>8. /\ {"id", "status"} \subseteq DOMAIN control' /\ control'.id = control.id
        /\ control'.status # "NONE" => control.id \in ReconcileIds
    BY Zenon, <1>1, <1>2 DEF ServiceInv, CyclePhase
  <2>9. QED
    BY Zenon, <1>1, <1>2, <1>5, <1>8, <2>5, <2>6, <2>7, <2>8, CommandGoesOn
<1>11. QED
  BY Zenon, <1>9, <1>10

\* The command is processed once all its members are answered.
LEMMA MarkServes == ServiceInv /\ MarkProcessed => ServiceInv' /\ Serves
<1> SUFFICES ASSUME ServiceInv, MarkProcessed
             PROVE  ServiceInv' /\ Serves
  BY Zenon
<1> DEFINE ok == result = "OK"
<1>1. /\ pc = "result" /\ todo = {} /\ pc' = "ack" /\ processed' = Put(processed, cmd.id, ok)
      /\ control' = EndCycle(ok)
      /\ UNCHANGED <<used, deviceVars, applyFrame, acked, answers, stored, once, code>>
  BY Zenon DEF MarkProcessed
<1> HIDE DEF ok
<1>2. UNCHANGED <<generation, results, cmds, acked, answers, stored, once, code>>
      /\ UNCHANGED applyFrame
  BY Zenon, <1>1 DEF deviceVars, replay, applyFrame
<1>3. /\ acked < Len(cmds) /\ cmd.id \notin DOMAIN processed /\ cmd' = cmd
      /\ \A d \in Members(batch) : <<"result", cmd.id, d>> \in once
  BY Zenon, <1>1, <1>2 DEF ServiceInv, ApplyPhase, Publishing, cmd
<1>4. acked + 1 \in 1 .. Len(cmds) /\ cmd = cmds[acked + 1] /\ cmd.id \in Ids
  BY <1>3 DEF ServiceInv, DataOK, TurnOK, CommandsOK, cmd
<1>5. Service!Answered(cmd.id) = Members(batch)
  <2>1. AnswersOK /\ CommandsOK
    BY Zenon DEF ServiceInv, DataOK
  <2>2. ASSUME NEW d \in Service!Answered(cmd.id)
        PROVE  d \in Members(batch)
    <3>1. PICK i \in 1 .. Len(answers) : answers[i].id = cmd.id /\ answers[i].conn = d
      BY Zenon DEF Service!Answered, Service!AnswersOf
    <3>2. PICK j \in 1 .. Len(cmds) : cmd.id = cmds[j].id /\ d \in Members(cmds[j].batch)
      BY Zenon, <2>1, <3>1 DEF AnswersOK
    <3>3. j = acked + 1
      BY Zenon, <1>4, <2>1, <3>2 DEF CommandsOK
    <3>4. QED
      BY Zenon, <1>4, <3>2, <3>3 DEF batch
  <2>3. ASSUME NEW d \in Members(batch)
        PROVE  d \in Service!Answered(cmd.id)
    <3> DEFINE m == <<"result", cmd.id, d>>
    <3>1. m \in once /\ m[1] = "result" /\ m[2] = cmd.id /\ m[3] = d
      BY Zenon, <1>3
    <3> HIDE DEF m
    <3>2. PICK i \in 1 .. Len(answers) : answers[i].id = m[2] /\ answers[i].conn = m[3]
      BY Zenon, <2>1, <3>1 DEF AnswersOK
    <3>3. QED
      BY Zenon, <3>1, <3>2 DEF Service!Answered, Service!AnswersOf
  <2>4. QED
    BY Zenon, <2>2, <2>3
<1>6. TurnOK' /\ Serves
  <2>1. /\ Service!Answered(cmd.id) \in {{}, Members(batch)} /\ DataOK
        /\ UNCHANGED <<cmds, acked, answers>>
    BY Zenon, <1>2, <1>5 DEF ServiceInv
  <2>2. QED
    BY Zenon, <1>1, <1>3, <2>1, TurnEnds
<1>7. BudgetOK' /\ rev' = rev /\ StoredOK' /\ once \subseteq once'
  BY Zenon, <1>1, <1>2 DEF ServiceInv, DataOK, StoredOK, BudgetOK, rev
<1>8. AnswersOK'
  BY Zenon, <1>2, AnswersStand DEF ServiceInv, DataOK
<1>9. ApplyPhase' /\ pc' \in AtWork
  <2>1. cmd'.id \in DOMAIN processed' /\ acked' < Len(cmds')
    BY Zenon, <1>1, <1>2, <1>3 DEF Put
  <2>2. pc' = "ack" /\ pc' \notin Applying \cup Publishing /\ pc' # "result" /\ pc' \in AtWork
    BY Zenon, <1>1 DEF Applying, Publishing, AtWork
  <2>3. QED
    BY Zenon, <2>1, <2>2 DEF ApplyPhase
<1>10. /\ {"id", "status"} \subseteq DOMAIN control' /\ control'.id = control.id
       /\ control'.status # "NONE" => control.id \in ReconcileIds
  <2>1. CyclePhase /\ NoId \notin Ids
    BY Zenon DEF ServiceInv, NoId, Ids, ReconcileIds
  <2>2. CASE control.id = cmd.id
    <3>1. control.id \in ReconcileIds
      BY Zenon, <1>4, <2>1, <2>2 DEF CyclePhase
    <3>2. control' = [control EXCEPT !.status = IF ok THEN "APPLIED" ELSE "FAILED"]
      BY Zenon, <1>1, <2>2 DEF EndCycle
    <3>3. QED
      BY Zenon, <2>1, <3>1, <3>2 DEF CyclePhase
  <2>3. CASE control.id # cmd.id
    BY Zenon, <1>1, <2>1, <2>3 DEF CyclePhase, EndCycle
  <2>4. QED
    BY Zenon, <2>2, <2>3
<1>11. QED
  BY Zenon, <1>2, <1>6, <1>7, <1>8, <1>9, <1>10, CommandGoesOn

\* The entry is acknowledged, and the turn passes to the next.
LEMMA AcknowledgeServes == ServiceInv /\ Acknowledge => ServiceInv' /\ Serves
<1> SUFFICES ASSUME ServiceInv, Acknowledge
             PROVE  ServiceInv' /\ Serves
  BY Zenon
<1>1. /\ pc = "ack" /\ acked' = acked + 1 /\ pc' = "idle" /\ code' = "OK"
      /\ UNCHANGED <<used, deviceVars, applyFrame, answers, applied, once, control>>
  BY Zenon DEF Acknowledge
<1>2. UNCHANGED <<generation, results, cmds, answers, processed, stored, once, control>>
      /\ UNCHANGED applyFrame
  BY Zenon, <1>1 DEF deviceVars, replay, applyFrame, applied
<1>3. acked < Len(cmds) /\ cmd.id \in DOMAIN processed /\ DataOK
  BY Zenon, <1>1 DEF ServiceInv, ApplyPhase
<1>4. TurnOK' /\ Serves
  BY Zenon, <1>1, <1>2, <1>3, TurnPasses
<1>5. BudgetOK' /\ rev' = rev /\ StoredOK' /\ once \subseteq once'
  BY Zenon, <1>1, <1>2 DEF ServiceInv, DataOK, StoredOK, BudgetOK, rev, Outcomes, Codes
<1>6. AnswersOK'
  BY Zenon, <1>2, AnswersStand DEF ServiceInv, DataOK
<1>7. ApplyPhase'
  BY Zenon, <1>1 DEF ApplyPhase, Applying, Publishing
<1>8. /\ {"id", "status"} \subseteq DOMAIN control' /\ control'.id = control.id
      /\ control'.status # "NONE" => control.id \in ReconcileIds
  BY Zenon, <1>2 DEF ServiceInv, CyclePhase
<1>9. QED
  BY Zenon, <1>1, <1>2, <1>4, <1>5, <1>6, <1>7, <1>8, CommandGoesOn
=============================================================================
