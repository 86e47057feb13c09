-------------------------- MODULE SessionChatProofs --------------------------
(***************************************************************************)
(* Theorems of SessionChat, for any number of requests, any length of the  *)
(* history and with or without Redis.                                      *)
(***************************************************************************)
EXTENDS SessionChat, SequenceTheorems, TLAPS

\* LastTurns keeps the end of a sequence, of MaxTurns elements at most.
Dropped(s) == IF Len(s) > MaxTurns THEN Len(s) - MaxTurns ELSE 0

LEMMA LastTurnsProperties ==
  ASSUME NEW s \in Seq(Requests)
  PROVE  /\ LastTurns(s) \in Seq(Requests)
         /\ Len(LastTurns(s)) <= MaxTurns
         /\ Dropped(s) \in Nat
         /\ Len(LastTurns(s)) + Dropped(s) = Len(s)
         /\ \A i \in 1 .. Len(LastTurns(s)) : LastTurns(s)[i] = s[i + Dropped(s)]
<1>. USE ConstantsAssumption
<1>1. CASE Len(s) > MaxTurns
  <2>1. /\ LastTurns(s) = SubSeq(s, Dropped(s) + 1, Len(s))
        /\ Dropped(s) \in Nat /\ Len(s) \in Nat /\ Dropped(s) = Len(s) - MaxTurns
    BY <1>1 DEF LastTurns, Dropped
  <2>2. \A i \in Dropped(s) + 1 .. Len(s) : s[i] \in Requests
    BY <2>1
  <2>3. LastTurns(s) \in Seq(Requests) /\ Len(LastTurns(s)) = MaxTurns
    BY <2>1, <2>2, SubSeqProperties
  <2>4. \A i \in 1 .. MaxTurns : LastTurns(s)[i] = s[i + Dropped(s)]
    BY <2>1, <2>2, SubSeqProperties
  <2>. QED
    BY <2>1, <2>3, <2>4
<1>2. CASE ~(Len(s) > MaxTurns)
  BY <1>2 DEF LastTurns, Dropped
<1>. QED
  BY <1>1, <1>2

-----------------------------------------------------------------------------
(* The type invariant *)

\* With a bound on what requests have read it is inductive.
TypeInv == TypeOK /\ \A r \in Requests : Len(copy[r].turns) <= MaxTurns

LEMMA Records ==
  /\ Absent \in Record /\ Len(Absent.turns) = 0
  /\ Fresh \in Record /\ Len(Fresh.turns) = 0
  /\ \A record \in Record :
       /\ \A s \in Seq(Requests) :
            /\ [record EXCEPT !.turns = s] \in Record
            /\ [record EXCEPT !.turns = s].turns = s
            /\ [record EXCEPT !.questions = s] \in Record
            /\ [record EXCEPT !.questions = s].turns = record.turns
       /\ \A c \in SUBSET Requests :
            /\ [record EXCEPT !.clarification = c] \in Record
            /\ [record EXCEPT !.clarification = c].turns = record.turns
<1>1. Absent \in Record /\ Len(Absent.turns) = 0
  BY DEF Absent, Record
<1>2. Fresh \in Record /\ Len(Fresh.turns) = 0
  BY DEF Fresh, Record
<1>3. ASSUME NEW record \in Record, NEW s \in Seq(Requests)
      PROVE  /\ [record EXCEPT !.turns = s] \in Record
             /\ [record EXCEPT !.turns = s].turns = s
             /\ [record EXCEPT !.questions = s] \in Record
             /\ [record EXCEPT !.questions = s].turns = record.turns
  BY <1>3 DEF Record
<1>4. ASSUME NEW record \in Record, NEW c \in SUBSET Requests
      PROVE  /\ [record EXCEPT !.clarification = c] \in Record
             /\ [record EXCEPT !.clarification = c].turns = record.turns
  BY <1>4 DEF Record
<1>. QED
  BY <1>1, <1>2, <1>3, <1>4

\* Every way a record is saved keeps the type of what is stored.
LEMMA SaveType ==
  ASSUME TypeInv, NEW record \in Record, Len(record.turns) <= MaxTurns, Save(record)
  PROVE  stored' \in [Repos -> Record] /\ \A p \in Repos : Len(stored'[p].turns) <= MaxTurns
BY DEF TypeInv, TypeOK, Save

LEMMA SaveReadType ==
  ASSUME TypeInv, NEW r, NEW record \in Record, Len(record.turns) <= MaxTurns,
         SaveRead(r, record)
  PROVE  stored' \in [Repos -> Record] /\ \A p \in Repos : Len(stored'[p].turns) <= MaxTurns
<1>1. CASE Save(record)
  BY <1>1, SaveType
<1>2. CASE UNCHANGED stored
  BY <1>2 DEF TypeInv, TypeOK
<1>. QED
  BY <1>1, <1>2 DEF SaveRead

LEMMA TypeInit == Init => TypeInv
<1>. SUFFICES ASSUME Init PROVE TypeInv
  OBVIOUS
<1>1. repo \in Repos
  BY DEF Init, Repositories, Repos
<1>2. stored \in [Repos -> Record] /\ \A p \in Repos : Len(stored[p].turns) <= MaxTurns
  BY Records, ConstantsAssumption DEF Init
<1>3. copy \in [Requests -> Record] /\ \A r \in Requests : Len(copy[r].turns) <= MaxTurns
  BY Records, ConstantsAssumption DEF Init
<1>. QED
  BY <1>1, <1>2, <1>3 DEF Init, TypeInv, TypeOK, Paths, Waits

LEMMA TypeStep == TypeInv /\ [Next]_vars => TypeInv'
<1>. SUFFICES ASSUME TypeInv, [Next]_vars PROVE TypeInv'
  OBVIOUS
<1>. DEFINE Labels == Reads \union Writes \union Waits
            StoredType == /\ stored' \in [Repos -> Record]
                          /\ \A p \in Repos : Len(stored'[p].turns) <= MaxTurns
            CopyType == /\ copy' \in [Requests -> Record]
                        /\ \A r \in Requests : Len(copy'[r].turns) <= MaxTurns
            PcType == pc' \in [Requests -> Labels]
<1>0. /\ TypeOK
      /\ \A r \in Requests : copy[r] \in Record /\ Len(copy[r].turns) <= MaxTurns
      /\ stored[repo] \in Record /\ Len(stored[repo].turns) <= MaxTurns
      /\ UNCHANGED stored => StoredType
      /\ UNCHANGED copy => CopyType
  BY DEF TypeInv, TypeOK
<1>1. ASSUME NEW r \in Requests, Leave(r) PROVE CopyType /\ PcType
  <2>1. CopyType
    BY <1>1, Records, ConstantsAssumption DEF TypeInv, TypeOK, Leave
  <2>2. PcType
    BY <1>1 DEF TypeInv, TypeOK, Leave, Goto, Waits
  <2>. QED
    BY <2>1, <2>2
<1>2. ASSUME NEW r \in Requests, NEW label \in Labels, Goto(r, label) PROVE PcType
  BY <1>2 DEF TypeInv, TypeOK, Goto
<1>3. ASSUME NEW r \in Requests, copy' = [copy EXCEPT ![r] = stored[repo]] PROVE CopyType
  BY <1>0, <1>3 DEF TypeInv, TypeOK
<1>. HIDE DEF StoredType, CopyType, PcType, Labels
<1>4. ASSUME repo' \in Repos, StoredType, CopyType, PcType, path' \in [Requests -> Paths],
             answered' \in [Repos -> SUBSET (Requests \X Requests)],
             turnNo' \in [Requests -> Nat], total' \in Nat
      PROVE  TypeInv'
  BY <1>4 DEF TypeInv, TypeOK, StoredType, CopyType, PcType, Labels
<1>5. ASSUME UNCHANGED <<repo, path, history>>, StoredType, CopyType, PcType PROVE TypeInv'
  BY <1>4, <1>5, <1>0 DEF TypeOK, history
<1>6. ASSUME NEW r \in Requests, NEW k \in Paths, NEW option \in BOOLEAN, Load(r, k, option)
      PROVE  TypeInv'
  <2>1. AfterLoad(k, option, stored[repo]) \in Labels
    BY DEF AfterLoad, Labels, Writes, Waits
  <2>2. PcType /\ CopyType /\ StoredType
    BY <1>0, <1>2, <1>3, <1>6, <2>1 DEF Load
  <2>3. path' \in [Requests -> Paths] /\ UNCHANGED <<repo, turnNo, total>>
    BY <1>0, <1>6 DEF Load, TypeOK
  <2>4. stored[repo].clarification \X {r} \subseteq Requests \X Requests
    BY <1>0 DEF Record
  <2>5. answered' \in [Repos -> SUBSET (Requests \X Requests)]
    BY <1>0, <1>6, <2>4 DEF Load, TypeOK
  <2>. QED
    BY <1>0, <1>4, <2>2, <2>3, <2>5 DEF TypeOK
<1>7. ASSUME NEW r \in Requests, Create(r) \/ ClearClarification(r) PROVE TypeInv'
  <2>1. PcType /\ UNCHANGED <<repo, path, history, copy>>
    BY <1>2, <1>7 DEF Create, ClearClarification, Labels, Waits
  <2>2. CASE Create(r)
    BY <1>0, <1>5, <2>1, <2>2, Records, SaveType, ConstantsAssumption DEF Create, StoredType
  <2>3. CASE ClearClarification(r)
    <3>. DEFINE record == [copy[r] EXCEPT !.clarification = {}]
    <3>0. {} \in SUBSET Requests /\ copy[r] \in Record /\ Len(copy[r].turns) <= MaxTurns
      BY <1>0
    <3>1. record \in Record /\ record.turns = copy[r].turns
      BY <3>0, Records
    <3>2. StoredType
      BY <2>3, <3>0, <3>1, SaveType DEF ClearClarification, StoredType
    <3>. QED
      BY <1>0, <1>5, <2>1, <3>2
  <2>. QED
    BY <1>7, <2>2, <2>3
<1>8. ASSUME NEW r \in Requests,
             Answer(r) \/ AnalyzerFails(r) \/ PipelineAnswers(r) \/ Resume(r)
      PROVE  TypeInv'
  <2>1. AfterAnswer(path[r]) \in Labels /\ {"forward", "readForQuestion", "readForTurn"} \subseteq Labels
    BY DEF AfterAnswer, Labels, Reads, Waits
  <2>2. PcType /\ UNCHANGED <<repo, path, history, copy, stored>>
    BY <1>2, <1>8, <2>1 DEF Answer, AnalyzerFails, PipelineAnswers, Resume
  <2>. QED
    BY <1>0, <1>5, <2>2
<1>9. ASSUME NEW r \in Requests, Read(r) PROVE TypeInv'
  <2>1. \A label \in Reads : AfterRead(label) \in Labels
    BY DEF AfterRead, Reads, Labels, Writes
  <2>2. PcType /\ CopyType /\ UNCHANGED <<repo, path, history, stored>>
    BY <1>2, <1>3, <1>9, <2>1 DEF Read
  <2>. QED
    BY <1>0, <1>5, <2>2
<1>10. ASSUME NEW r \in Requests, NEW asks \in BOOLEAN, RecordAnalysis(r, asks) PROVE TypeInv'
  <2>. DEFINE asked == IF asks THEN {r} ELSE {}
              record == [copy[r] EXCEPT !.clarification = asked]
  <2>0. asked \in SUBSET Requests /\ copy[r] \in Record /\ Len(copy[r].turns) <= MaxTurns
    BY <1>0
  <2>1. record \in Record /\ record.turns = copy[r].turns
    BY <2>0, Records
  <2>2. StoredType
    BY <1>10, <2>0, <2>1, SaveReadType DEF RecordAnalysis, StoredType
  <2>3. AfterAnalysis(path[r]) \in Labels
    BY DEF AfterAnalysis, Labels, Reads, Waits
  <2>4. PcType /\ UNCHANGED <<repo, path, history, copy>>
    BY <1>2, <1>10, <2>3 DEF RecordAnalysis
  <2>. QED
    BY <1>0, <1>5, <2>2, <2>4
<1>11. ASSUME NEW r \in Requests, AppendQuestion(r) PROVE TypeInv'
  <2>. DEFINE record == [copy[r] EXCEPT !.questions = Append(@, r)]
  <2>1. Append(copy[r].questions, r) \in Seq(Requests)
    BY <1>0 DEF Record
  <2>2. record \in Record
    BY <1>0, <2>1, Records
  <2>3. record.turns = copy[r].turns /\ Len(copy[r].turns) <= MaxTurns
    BY <1>0, <2>1, Records
  <2>4. StoredType
    BY <1>11, <2>2, <2>3, SaveReadType DEF AppendQuestion, StoredType
  <2>. QED
    BY <1>1, <1>5, <1>11, <2>4 DEF AppendQuestion
<1>12. ASSUME NEW r \in Requests, AppendTurn(r) PROVE TypeInv'
  <2>. DEFINE s == LastTurns(Append(copy[r].turns, r))
              record == [copy[r] EXCEPT !.turns = s]
  <2>1. Append(copy[r].turns, r) \in Seq(Requests)
    BY <1>0 DEF Record
  <2>2. s \in Seq(Requests) /\ Len(s) <= MaxTurns
    BY <2>1, LastTurnsProperties
  <2>3. record \in Record /\ record.turns = s
    BY <1>0, <2>2, Records
  <2>4. StoredType
    BY <1>12, <2>2, <2>3, SaveReadType DEF AppendTurn, StoredType
  <2>5. turnNo' \in [Requests -> Nat] /\ total' \in Nat
    BY <1>0, <1>12 DEF AppendTurn, TypeOK
  <2>6. UNCHANGED <<repo, path, answered>>
    BY <1>12 DEF AppendTurn
  <2>7. CopyType /\ PcType
    BY <1>1, <1>12 DEF AppendTurn
  <2>. QED
    BY <1>0, <1>4, <2>4, <2>5, <2>6, <2>7 DEF TypeOK
<1>13. ASSUME NEW r \in Requests, Fail(r) PROVE TypeInv'
  BY <1>0, <1>1, <1>5, <1>13 DEF Fail
<1>14. CASE CreateSession
  BY <1>0, <1>5, <1>14, Records, SaveType, ConstantsAssumption
  DEF CreateSession, StoredType, PcType, Labels, TypeOK
<1>15. ASSUME NEW p \in Repos, Expire(p) PROVE TypeInv'
  <2>1. StoredType
    BY <1>0, <1>15, Records, ConstantsAssumption DEF TypeInv, TypeOK, Expire, StoredType
  <2>. QED
    BY <1>0, <1>5, <1>15, <2>1 DEF Expire, PcType, Labels, TypeOK
<1>16. CASE Restart
  <2>1. StoredType
    BY <1>0, <1>16, Records, ConstantsAssumption DEF TypeInv, TypeOK, Restart, StoredType, Repos
  <2>2. CopyType
    BY <1>16, Records, ConstantsAssumption DEF Restart, CopyType
  <2>3. PcType /\ repo' \in Repos
    BY <1>16 DEF Restart, PcType, Labels, Waits, Repositories, Repos
  <2>. QED
    BY <1>0, <1>4, <1>16, <2>1, <2>2, <2>3 DEF Restart, history, TypeOK
<1>17. CASE UNCHANGED vars
  BY <1>0, <1>5, <1>17 DEF vars, history, PcType, Labels, TypeOK
<1>. QED
  BY <1>6, <1>7, <1>8, <1>9, <1>10, <1>11, <1>12, <1>13, <1>14, <1>15, <1>16, <1>17
  DEF Next, Step

\* The record of a session keeps its type, and its history its bound, whatever
\* requests, expiry and restarts do, for any number of requests.
THEOREM TypeCorrect == Spec => []TypeOK
<1>1. Spec => []TypeInv
  BY TypeInit, TypeStep, PTL DEF Spec
<1>2. TypeInv => TypeOK
  BY DEF TypeInv
<1>. QED
  BY <1>1, <1>2, PTL

-----------------------------------------------------------------------------
(* Order: histories tell turns in the order in which they were appended *)

\* A request has no number before it is over, and none above the total.
OrderInv ==
  /\ \A p \in Repos : InOrder(turnNo, stored[p].turns)
  /\ \A r \in Requests : InOrder(turnNo, copy[r].turns)
  /\ \A r \in Requests : turnNo[r] <= total
  /\ \A r \in Requests : pc[r] # "over" => turnNo[r] = 0

LEMMA OrderKept ==
  ASSUME NEW number \in [Requests -> Nat], NEW s \in Seq(Requests), InOrder(number, s),
         NEW r \in Requests, number[r] = 0, NEW n \in Nat
  PROVE  InOrder([number EXCEPT ![r] = n], s)
<1>1. \A i \in 1 .. Len(s) : s[i] \in Requests /\ s[i] # r
  BY DEF InOrder
<1>2. \A i \in 1 .. Len(s) : [number EXCEPT ![r] = n][s[i]] = number[s[i]]
  BY <1>1
<1>. QED
  BY <1>2 DEF InOrder

LEMMA OrderAppended ==
  ASSUME NEW number \in [Requests -> Nat], NEW s \in Seq(Requests), InOrder(number, s),
         NEW r \in Requests, number[r] = 0,
         NEW n \in Nat \ {0}, \A q \in Requests : number[q] < n
  PROVE  InOrder([number EXCEPT ![r] = n], LastTurns(Append(s, r)))
<1>. DEFINE new == [number EXCEPT ![r] = n]
            a == Append(s, r)
            d == Dropped(a)
            t == LastTurns(a)
<1>1. /\ a \in Seq(Requests) /\ Len(a) = Len(s) + 1 /\ a[Len(s) + 1] = r
      /\ \A i \in 1 .. Len(s) : a[i] = s[i]
  BY AppendProperties
<1>2. InOrder(new, s)
  BY OrderKept
<1>3. \A i \in 1 .. Len(s) : s[i] \in Requests /\ s[i] # r
  BY DEF InOrder
<1>4. new[r] = n /\ \A i \in 1 .. Len(s) : new[a[i]] = new[s[i]] /\ new[a[i]] < n
  BY <1>1, <1>3
<1>. HIDE DEF new
<1>5. InOrder(new, a)
  <2>1. \A i \in 1 .. Len(a) : new[a[i]] > 0
    BY <1>1, <1>2, <1>4 DEF InOrder
  <2>2. ASSUME NEW i \in 1 .. Len(a), NEW j \in 1 .. Len(a), i < j
        PROVE  new[a[i]] < new[a[j]]
    <3>1. i \in 1 .. Len(s)
      BY <1>1, <2>2
    <3>2. CASE j \in 1 .. Len(s)
      BY <1>2, <1>4, <2>2, <3>1, <3>2 DEF InOrder
    <3>3. CASE j = Len(s) + 1
      BY <1>1, <1>4, <3>1, <3>3
    <3>. QED
      BY <1>1, <3>2, <3>3
  <2>. QED
    BY <2>1, <2>2 DEF InOrder
<1>. HIDE DEF a
<1>6. /\ Len(t) \in Nat /\ d \in Nat /\ Len(t) + d = Len(a)
      /\ \A i \in 1 .. Len(t) : t[i] = a[i + d]
  <2>1. a \in Seq(Requests)
    BY <1>1
  <2>2. t \in Seq(Requests) /\ Len(t) \in Nat
    BY <2>1, LastTurnsProperties
  <2>3. d \in Nat /\ Len(t) + d = Len(a)
    BY <2>1, LastTurnsProperties
  <2>4. \A i \in 1 .. Len(t) : t[i] = a[i + d]
    BY <2>1, LastTurnsProperties
  <2>. QED
    BY <2>2, <2>3, <2>4
<1>. HIDE DEF d, t
<1>7. \A i \in 1 .. Len(t) : i + d \in 1 .. Len(a)
  BY <1>6
<1>8. InOrder(new, t)
  <2>1. \A i \in 1 .. Len(t) : new[t[i]] > 0
    BY <1>5, <1>6, <1>7 DEF InOrder
  <2>2. ASSUME NEW i \in 1 .. Len(t), NEW j \in 1 .. Len(t), i < j
        PROVE  new[t[i]] < new[t[j]]
    <3>1. i + d \in 1 .. Len(a) /\ j + d \in 1 .. Len(a) /\ i + d < j + d
      BY <1>6, <1>7, <2>2
    <3>2. new[a[i + d]] < new[a[j + d]]
      BY <1>5, <3>1 DEF InOrder
    <3>. QED
      BY <1>6, <3>2
  <2>. QED
    BY <2>1, <2>2 DEF InOrder
<1>. QED
  BY <1>8 DEF new, t, a

LEMMA OrderInit == Init => OrderInv
  BY DEF Init, OrderInv, InOrder, Absent

LEMMA OrderStep == TypeInv /\ OrderInv /\ [Next]_vars => OrderInv'
<1>. SUFFICES ASSUME TypeInv, OrderInv, [Next]_vars PROVE OrderInv'
  OBVIOUS
<1>. DEFINE Known(s) == \/ s = <<>>
                        \/ \E p \in Repos : s = stored[p].turns
                        \/ \E r \in Requests : s = copy[r].turns
            PcKept == \A r \in Requests : pc'[r] # "over" => pc[r] # "over"
            StoredKnown == \A p \in Repos : Known(stored'[p].turns)
            CopyKnown == \A r \in Requests : Known(copy'[r].turns)
<1>0. /\ TypeOK
      /\ UNCHANGED stored => StoredKnown
      /\ UNCHANGED copy => CopyKnown
      /\ UNCHANGED pc => PcKept
  BY DEF TypeInv
<1>1. ASSUME NEW r \in Requests, NEW label, Goto(r, label), pc[r] # "over" PROVE PcKept
  BY <1>0, <1>1 DEF Goto, TypeOK
<1>2. ASSUME NEW r \in Requests, Leave(r) PROVE PcKept /\ CopyKnown
  BY <1>0, <1>2 DEF Leave, Goto, TypeOK, Absent
<1>3. ASSUME NEW r \in Requests, copy' = [copy EXCEPT ![r] = stored[repo]] PROVE CopyKnown
  BY <1>0, <1>3 DEF TypeOK
<1>4. ASSUME NEW record, Save(record), Known(record.turns) PROVE StoredKnown
  BY <1>0, <1>4 DEF Save, TypeOK
<1>5. ASSUME NEW r \in Requests, NEW record, SaveRead(r, record), Known(record.turns)
      PROVE  StoredKnown
  BY <1>0, <1>4, <1>5 DEF SaveRead
<1>6. ASSUME UNCHANGED <<turnNo, total>>, PcKept, StoredKnown, CopyKnown PROVE OrderInv'
  <2>1. \A s : Known(s) => InOrder(turnNo, s)
    BY DEF OrderInv, InOrder
  <2>2. /\ \A p \in Repos : InOrder(turnNo', stored'[p].turns)
        /\ \A r \in Requests : InOrder(turnNo', copy'[r].turns)
    BY <1>6, <2>1
  <2>. QED
    BY <1>6, <2>2 DEF OrderInv
<1>7. \A r \in Requests : Known(copy[r].turns) /\ copy[r] \in Record
  BY <1>0 DEF TypeOK
<1>8. Known(Fresh.turns) /\ Known(Absent.turns)
  BY DEF Fresh, Absent
<1>. HIDE DEF Known, PcKept, StoredKnown, CopyKnown
<1>9. ASSUME NEW r \in Requests, NEW k \in Paths, NEW option \in BOOLEAN, Load(r, k, option)
      PROVE  OrderInv'
  BY <1>0, <1>1, <1>3, <1>6, <1>9 DEF Load, At
<1>10. ASSUME NEW r \in Requests, Create(r) PROVE OrderInv'
  BY <1>0, <1>1, <1>4, <1>6, <1>8, <1>10 DEF Create, At, history
<1>11. ASSUME NEW r \in Requests, ClearClarification(r) PROVE OrderInv'
  <2>1. [copy[r] EXCEPT !.clarification = {}].turns = copy[r].turns
    BY <1>7, Records
  <2>2. StoredKnown
    BY <1>4, <1>7, <1>11, <2>1 DEF ClearClarification
  <2>. QED
    BY <1>0, <1>1, <1>6, <1>11, <2>2 DEF ClearClarification, At, history
<1>12. ASSUME NEW r \in Requests,
              Answer(r) \/ AnalyzerFails(r) \/ PipelineAnswers(r) \/ Resume(r)
       PROVE  OrderInv'
  <2>1. PcKept
    BY <1>1, <1>12 DEF Answer, AnalyzerFails, PipelineAnswers, Resume, At
  <2>. QED
    BY <1>0, <1>6, <1>12, <2>1 DEF Answer, AnalyzerFails, PipelineAnswers, Resume, history
<1>13. ASSUME NEW r \in Requests, Read(r) PROVE OrderInv'
  <2>1. PcKept
    BY <1>1, <1>13 DEF Read, At, Reads
  <2>. QED
    BY <1>0, <1>3, <1>6, <1>13, <2>1 DEF Read, history
<1>14. ASSUME NEW r \in Requests, NEW asks \in BOOLEAN, RecordAnalysis(r, asks)
       PROVE  OrderInv'
  <2>. DEFINE asked == IF asks THEN {r} ELSE {}
  <2>1. asked \in SUBSET Requests
    OBVIOUS
  <2>2. [copy[r] EXCEPT !.clarification = asked].turns = copy[r].turns
    BY <1>7, <2>1, Records
  <2>3. StoredKnown
    BY <1>5, <1>7, <1>14, <2>2 DEF RecordAnalysis
  <2>. QED
    BY <1>0, <1>1, <1>6, <1>14, <2>3 DEF RecordAnalysis, At, history
<1>15. ASSUME NEW r \in Requests, AppendQuestion(r) PROVE OrderInv'
  <2>. DEFINE q == Append(copy[r].questions, r)
  <2>1. q \in Seq(Requests)
    BY <1>7 DEF Record
  <2>2. [copy[r] EXCEPT !.questions = q].turns = copy[r].turns
    BY <1>7, <2>1, Records
  <2>3. StoredKnown
    BY <1>5, <1>7, <1>15, <2>2 DEF AppendQuestion
  <2>. QED
    BY <1>2, <1>6, <1>15, <2>3 DEF AppendQuestion, history
<1>16. ASSUME NEW r \in Requests, AppendTurn(r) PROVE OrderInv'
  <2>1. CASE ~copy[r].live
    BY <1>0, <1>2, <1>6, <1>16, <2>1 DEF AppendTurn, SaveRead
  <2>2. CASE copy[r].live
    <3>. DEFINE n == total + 1
                s == copy[r].turns
    <3>1. /\ pc[r] = "turn" /\ turnNo' = [turnNo EXCEPT ![r] = n] /\ total' = n
          /\ pc' = [pc EXCEPT ![r] = "over"] /\ copy' = [copy EXCEPT ![r] = Absent]
          /\ stored' = [stored EXCEPT ![repo] = [copy[r] EXCEPT !.turns = LastTurns(Append(s, r))]]
      BY <1>16, <2>2 DEF AppendTurn, At, SaveRead, Save, Leave, Goto
    <3>2. /\ turnNo \in [Requests -> Nat] /\ n \in Nat \ {0} /\ turnNo[r] = 0
          /\ \A q \in Requests : turnNo[q] < n
      BY <1>0, <3>1 DEF TypeOK, OrderInv
    <3>3. s \in Seq(Requests) /\ InOrder(turnNo, s)
      BY <1>7 DEF OrderInv, Record
    <3>4. InOrder(turnNo', LastTurns(Append(s, r)))
      BY <3>1, <3>2, <3>3, OrderAppended
    <3>5. ASSUME NEW t \in Seq(Requests), InOrder(turnNo, t) PROVE InOrder(turnNo', t)
      BY <3>1, <3>2, <3>5, OrderKept
    <3>6. \A q \in Requests : InOrder(turnNo', copy'[q].turns)
      <4>1. \A q \in Requests : copy[q].turns \in Seq(Requests) /\ InOrder(turnNo, copy[q].turns)
        BY <1>7 DEF OrderInv, Record
      <4>2. InOrder(turnNo', Absent.turns)
        BY DEF InOrder, Absent
      <4>3. \A q \in Requests : copy'[q] = IF q = r THEN Absent ELSE copy[q]
        BY <1>0, <3>1 DEF TypeOK
      <4>. QED
        BY <3>5, <4>1, <4>2, <4>3
    <3>7. \A p \in Repos : InOrder(turnNo', stored'[p].turns)
      <4>1. \A p \in Repos : stored[p].turns \in Seq(Requests) /\ InOrder(turnNo, stored[p].turns)
        BY <1>0 DEF OrderInv, Record, TypeOK
      <4>2. Append(s, r) \in Seq(Requests)
        BY <3>3
      <4>3. LastTurns(Append(s, r)) \in Seq(Requests)
        BY <4>2, LastTurnsProperties
      <4>4. [copy[r] EXCEPT !.turns = LastTurns(Append(s, r))].turns = LastTurns(Append(s, r))
        BY <1>7, <4>3, Records
      <4>5. \A p \in Repos : \/ stored'[p] = stored[p]
                             \/ stored'[p].turns = LastTurns(Append(s, r))
        BY <1>0, <3>1, <4>4 DEF TypeOK
      <4>. QED
        BY <3>4, <3>5, <4>1, <4>5
    <3>8. \A q \in Requests : turnNo'[q] <= total' /\ (pc'[q] # "over" => turnNo'[q] = 0)
      BY <1>0, <3>1, <3>2 DEF TypeOK, OrderInv
    <3>. QED
      BY <3>6, <3>7, <3>8 DEF OrderInv
  <2>. QED
    BY <2>1, <2>2
<1>17. ASSUME NEW r \in Requests, Fail(r) PROVE OrderInv'
  BY <1>0, <1>2, <1>6, <1>17 DEF Fail, history
<1>18. CASE CreateSession
  BY <1>0, <1>4, <1>6, <1>8, <1>18 DEF CreateSession, history
<1>19. ASSUME NEW p \in Repos, Expire(p) PROVE OrderInv'
  <2>1. StoredKnown
    BY <1>0, <1>8, <1>19 DEF Expire, StoredKnown, Known, TypeOK
  <2>. QED
    BY <1>0, <1>6, <1>19, <2>1 DEF Expire, history
<1>20. CASE Restart
  <2>1. StoredKnown
    BY <1>0, <1>8, <1>20 DEF Restart, StoredKnown, Known, TypeOK
  <2>2. CopyKnown /\ PcKept
    BY <1>0, <1>8, <1>20 DEF Restart, CopyKnown, PcKept, TypeOK
  <2>. QED
    BY <1>6, <1>20, <2>1, <2>2 DEF Restart, history
<1>21. CASE UNCHANGED vars
  BY <1>0, <1>6, <1>21 DEF vars, history
<1>. QED
  BY <1>9, <1>10, <1>11, <1>12, <1>13, <1>14, <1>15, <1>16, <1>17, <1>18, <1>19, <1>20, <1>21
  DEF Next, Step

\* However the requests of a session overwrite each other's record, in Redis
\* or in memory, its history never tells a turn twice or out of order.
THEOREM HistoriesInOrder == Spec => []HistoryInOrder
<1>. DEFINE Inv == TypeInv /\ OrderInv
<1>1. Init => Inv
  BY TypeInit, OrderInit
<1>2. Inv /\ [Next]_vars => Inv'
  BY TypeStep, OrderStep
<1>3. Inv => HistoryInOrder
  BY DEF OrderInv, HistoryInOrder
<1>. QED
  BY <1>1, <1>2, <1>3, PTL DEF Spec

-----------------------------------------------------------------------------
(* The in-memory repository: one request at a time is between two waits *)

MemoryInv ==
  /\ \A p \in Repos : stored[p].live \/ stored[p] = Absent
  /\ \A r \in Requests : pc[r] = "create" => ~copy[r].live
  /\ \A r \in Requests : pc[r] = "clear" => copy[r].live
  /\ repo = "redis" => stored["memory"] = Absent
  /\ repo = "memory" =>
       /\ \A q, r \in Requests : pc[q] \notin Waits /\ pc[r] \notin Waits => q = r
       /\ \A r \in Requests : pc[r] \in Writes => copy[r] = stored["memory"]

LEMMA Labels ==
  /\ Reads \intersect Waits = {} /\ Writes \intersect Waits = {} /\ Reads \intersect Writes = {}
  /\ \A label \in Reads : AfterRead(label) \in Writes \ {"create", "clear"}
  /\ \A k : AfterAnswer(k) \in Reads \union Waits /\ AfterAnalysis(k) \in Reads \union Waits
BY DEF Reads, Writes, Waits, AfterRead, AfterAnswer, AfterAnalysis

LEMMA LiveKept ==
  /\ Fresh.live /\ ~Absent.live
  /\ \A record \in Record :
       /\ \A s \in Seq(Requests) : /\ [record EXCEPT !.turns = s].live = record.live
                                   /\ [record EXCEPT !.questions = s].live = record.live
       /\ \A c \in SUBSET Requests : [record EXCEPT !.clarification = c].live = record.live
BY DEF Fresh, Absent, Record

LEMMA MemoryInit == Init => MemoryInv
<1>. SUFFICES ASSUME Init PROVE MemoryInv
  OBVIOUS
<1>1. \A p \in Repos : stored[p] = Absent
  BY DEF Init
<1>2. \A r \in Requests : pc[r] = "new"
  BY DEF Init
<1>3. "new" \in Waits /\ "new" \notin Writes /\ "memory" \in Repos
  BY DEF Waits, Writes, Repos
<1>. QED
  BY <1>1, <1>2, <1>3 DEF MemoryInv

\* A request that takes a step leaves nobody else between two waits, and goes
\* on to write only what it has just read.
LEMMA StepAlone ==
  ASSUME TypeOK, MemoryInv, NEW r \in Requests, MayRun(r), UNCHANGED repo,
         \A q \in Requests \ {r} : pc'[q] = pc[q] /\ copy'[q] = copy[q],
         \A p \in Repos : stored'[p].live \/ stored'[p] = Absent,
         repo = "redis" => stored'["memory"] = stored["memory"],
         pc'[r] \in Writes => copy'[r] = stored[repo] /\ UNCHANGED stored,
         pc'[r] = "create" => ~copy'[r].live,
         pc'[r] = "clear" => copy'[r].live
  PROVE  MemoryInv'
<1>1. /\ \A q \in Requests : pc'[q] = "create" => ~copy'[q].live
      /\ \A q \in Requests : pc'[q] = "clear" => copy'[q].live
  BY DEF MemoryInv
<1>2. repo' = "redis" => stored'["memory"] = Absent
  BY DEF MemoryInv
<1>3. ASSUME repo = "memory" PROVE \A q \in Requests \ {r} : pc'[q] \in Waits
  BY <1>3 DEF MayRun
<1>4. ASSUME repo = "memory"
      PROVE  \A q \in Requests : pc'[q] \in Writes => copy'[q] = stored'["memory"]
  BY <1>3, <1>4, Labels
<1>. QED
  BY <1>1, <1>2, <1>3, <1>4 DEF MemoryInv

\* What is saved is live, and in the repository of the process.
LEMMA SaveLive ==
  ASSUME TypeOK, MemoryInv, NEW record, record.live, Save(record)
  PROVE  /\ \A p \in Repos : stored'[p].live \/ stored'[p] = Absent
         /\ repo = "redis" => stored'["memory"] = stored["memory"]
BY DEF TypeOK, MemoryInv, Save, Repos

LEMMA MemoryStep == TypeInv /\ MemoryInv /\ [Next]_vars => MemoryInv'
<1>. SUFFICES ASSUME TypeInv, MemoryInv, [Next]_vars PROVE MemoryInv'
  OBVIOUS
<1>. DEFINE Lives == /\ \A p \in Repos : stored'[p].live \/ stored'[p] = Absent
                     /\ repo = "redis" => stored'["memory"] = stored["memory"]
            Alone(r) == \A q \in Requests \ {r} : pc'[q] = pc[q] /\ copy'[q] = copy[q]
<1>0. /\ TypeOK
      /\ \A r \in Requests : copy[r] \in Record
      /\ UNCHANGED stored => Lives
  BY DEF TypeInv, TypeOK, MemoryInv
<1>1. ASSUME NEW r \in Requests, NEW label, Goto(r, label), UNCHANGED copy
      PROVE  Alone(r) /\ pc'[r] = label
  BY <1>0, <1>1 DEF Goto, TypeOK
<1>2. ASSUME NEW r \in Requests, NEW label, Goto(r, label),
             copy' = [copy EXCEPT ![r] = stored[repo]]
      PROVE  Alone(r) /\ pc'[r] = label /\ copy'[r] = stored[repo]
  BY <1>0, <1>2 DEF Goto, TypeOK
<1>3. ASSUME NEW r \in Requests, Leave(r)
      PROVE  Alone(r) /\ pc'[r] = "over"
  BY <1>0, <1>3 DEF Goto, Leave, TypeOK
<1>4. ASSUME NEW r \in Requests, NEW record, record.live = copy[r].live, SaveRead(r, record)
      PROVE  Lives
  BY <1>0, <1>4, SaveLive DEF SaveRead
<1>5. ASSUME NEW r \in Requests, MayRun(r), UNCHANGED repo, Lives, Alone(r),
             pc'[r] \in Reads \union Waits
      PROVE  MemoryInv'
  <2>1. pc'[r] \notin Writes /\ pc'[r] # "create" /\ pc'[r] # "clear"
    BY <1>5, Labels DEF Writes
  <2>. QED
    BY <1>0, <1>5, <2>1, StepAlone
<1>6. "answer" \in Waits /\ "over" \in Waits /\ "forward" \in Waits
      /\ "readForQuestion" \in Reads /\ "readForTurn" \in Reads
  BY DEF Reads, Waits
<1>. HIDE DEF Lives, Alone
<1>7. ASSUME NEW r \in Requests, NEW k \in Paths, NEW option \in BOOLEAN, Load(r, k, option)
      PROVE  MemoryInv'
  <2>1. /\ MayRun(r) /\ UNCHANGED repo /\ UNCHANGED stored
        /\ Alone(r) /\ copy'[r] = stored[repo] /\ pc'[r] = AfterLoad(k, option, stored[repo])
    BY <1>2, <1>7 DEF Load, At
  <2>2. stored[repo] \in Record /\ (stored[repo].live \/ stored[repo] = Absent)
    BY <1>0 DEF TypeOK, MemoryInv
  <2>3. AfterLoad(k, option, stored[repo]) = "create" => ~stored[repo].live
    BY DEF AfterLoad
  <2>4. AfterLoad(k, option, stored[repo]) = "clear" => stored[repo].live
    BY <2>2 DEF AfterLoad, Answers, Absent
  <2>. QED
    BY <1>0, <2>1, <2>3, <2>4, StepAlone DEF Lives, Alone
<1>8. ASSUME NEW r \in Requests, Create(r) PROVE MemoryInv'
  <2>1. Lives
    BY <1>0, <1>8, SaveLive, LiveKept DEF Create, Lives
  <2>. QED
    BY <1>1, <1>5, <1>6, <1>8, <2>1 DEF Create, At
<1>9. ASSUME NEW r \in Requests, ClearClarification(r) PROVE MemoryInv'
  <2>1. {} \in SUBSET Requests /\ copy[r].live
    BY <1>9 DEF ClearClarification, At, MemoryInv
  <2>2. [copy[r] EXCEPT !.clarification = {}].live
    BY <1>0, <2>1, LiveKept
  <2>3. Lives
    BY <1>0, <1>9, <2>2, SaveLive DEF ClearClarification, Lives
  <2>. QED
    BY <1>1, <1>5, <1>6, <1>9, <2>3 DEF ClearClarification, At
<1>10. ASSUME NEW r \in Requests, Answer(r) PROVE MemoryInv'
  BY <1>0, <1>1, <1>5, <1>10, Labels DEF Answer, At
<1>11. ASSUME NEW r \in Requests, AnalyzerFails(r) \/ PipelineAnswers(r) \/ Resume(r)
       PROVE  MemoryInv'
  BY <1>0, <1>1, <1>5, <1>6, <1>11 DEF AnalyzerFails, PipelineAnswers, Resume, At
<1>12. ASSUME NEW r \in Requests, Read(r) PROVE MemoryInv'
  <2>1. PICK label \in Reads : At(r, label) /\ Goto(r, AfterRead(label))
    BY <1>12 DEF Read
  <2>2. /\ MayRun(r) /\ UNCHANGED repo /\ UNCHANGED stored
        /\ Alone(r) /\ copy'[r] = stored[repo] /\ pc'[r] = AfterRead(label)
    BY <1>2, <1>12, <2>1 DEF Read, At
  <2>3. pc'[r] # "create" /\ pc'[r] # "clear"
    BY <2>2, Labels
  <2>. QED
    BY <1>0, <2>2, <2>3, StepAlone DEF Lives, Alone
<1>13. ASSUME NEW r \in Requests, NEW asks \in BOOLEAN, RecordAnalysis(r, asks)
       PROVE  MemoryInv'
  <2>. DEFINE asked == IF asks THEN {r} ELSE {}
  <2>1. asked \in SUBSET Requests
    OBVIOUS
  <2>2. [copy[r] EXCEPT !.clarification = asked].live = copy[r].live
    BY <1>0, <2>1, LiveKept
  <2>3. Lives
    BY <1>4, <1>13, <2>2 DEF RecordAnalysis
  <2>. QED
    BY <1>1, <1>5, <1>13, <2>3, Labels DEF RecordAnalysis, At
<1>14. ASSUME NEW r \in Requests, AppendQuestion(r) PROVE MemoryInv'
  <2>. DEFINE q == Append(copy[r].questions, r)
  <2>1. q \in Seq(Requests)
    BY <1>0 DEF Record
  <2>2. [copy[r] EXCEPT !.questions = q].live = copy[r].live
    BY <1>0, <2>1, LiveKept
  <2>3. Lives
    BY <1>4, <1>14, <2>2 DEF AppendQuestion
  <2>. QED
    BY <1>3, <1>5, <1>6, <1>14, <2>3 DEF AppendQuestion, At
<1>15. ASSUME NEW r \in Requests, AppendTurn(r) PROVE MemoryInv'
  <2>. DEFINE a == Append(copy[r].turns, r)
              s == LastTurns(a)
  <2>1. a \in Seq(Requests)
    BY <1>0 DEF Record
  <2>2. s \in Seq(Requests)
    BY <2>1, LastTurnsProperties
  <2>3. [copy[r] EXCEPT !.turns = s].live = copy[r].live
    BY <1>0, <2>2, LiveKept
  <2>4. Lives
    BY <1>4, <1>15, <2>3 DEF AppendTurn
  <2>. QED
    BY <1>3, <1>5, <1>6, <1>15, <2>4 DEF AppendTurn, At
<1>16. ASSUME NEW r \in Requests, Fail(r) PROVE MemoryInv'
  BY <1>0, <1>3, <1>5, <1>6, <1>16 DEF Fail
<1>17. CASE CreateSession
  <2>1. Lives
    BY <1>0, <1>17, SaveLive, LiveKept DEF CreateSession, Lives
  <2>2. \A r \in Requests : pc'[r] = "new" /\ "new" \in Waits /\ "new" \notin Writes
    BY <1>17 DEF CreateSession, Waits, Writes
  <2>. QED
    BY <1>17, <2>1, <2>2 DEF CreateSession, Lives, MemoryInv
<1>18. ASSUME NEW p \in Repos, Expire(p) PROVE MemoryInv'
  <2>1. \A q \in Repos : stored'[q] = IF q = p THEN Absent ELSE stored[q]
    BY <1>0, <1>18 DEF Expire, TypeOK
  <2>2. UNCHANGED <<repo, pc, copy>> /\ "memory" \in Repos
    BY <1>18 DEF Expire, Repos
  <2>3. CASE p = "memory"
    BY <1>18, <2>1, <2>2, <2>3, Labels DEF MemoryInv, Expire
  <2>4. CASE p # "memory"
    BY <2>1, <2>2, <2>4 DEF MemoryInv
  <2>. QED
    BY <2>3, <2>4
<1>19. CASE Restart
  <2>1. \A p \in Repos : stored'[p] = IF p = "memory" THEN Absent ELSE stored[p]
    BY <1>0, <1>19 DEF Restart, TypeOK
  <2>2. \A r \in Requests : pc'[r] \in {"new", "over"}
    BY <1>19 DEF Restart
  <2>3. "memory" \in Repos /\ {"new", "over"} \subseteq Waits /\ Writes \intersect {"new", "over"} = {}
    BY DEF Repos, Waits, Writes
  <2>. QED
    BY <2>1, <2>2, <2>3 DEF MemoryInv
<1>20. CASE UNCHANGED vars
  BY <1>20 DEF vars, MemoryInv
<1>. QED
  BY <1>7, <1>8, <1>9, <1>10, <1>11, <1>12, <1>13, <1>14, <1>15, <1>16, <1>17, <1>18, <1>19, <1>20
  DEF Next, Step

-----------------------------------------------------------------------------
(* The in-memory repository implements the abstract conversation *)

ConversationVars == <<stored["memory"].turns, stored["memory"].questions>>

LEMMA ConversationInit == Init => M!Init
BY DEF Init, M!Init, Repos, Absent

LEMMA Saved ==
  /\ Fresh.turns = <<>> /\ Fresh.questions = <<>> /\ Fresh.clarification = {}
  /\ Absent.turns = <<>> /\ Absent.questions = <<>> /\ Absent.clarification = {}
  /\ \A record \in Record :
       /\ \A s \in Seq(Requests) :
            /\ [record EXCEPT !.turns = s].turns = s
            /\ [record EXCEPT !.turns = s].questions = record.questions
            /\ [record EXCEPT !.turns = s].clarification = record.clarification
            /\ [record EXCEPT !.questions = s].turns = record.turns
            /\ [record EXCEPT !.questions = s].questions = s
            /\ [record EXCEPT !.questions = s].clarification = record.clarification
       /\ \A c \in SUBSET Requests :
            /\ [record EXCEPT !.clarification = c].turns = record.turns
            /\ [record EXCEPT !.clarification = c].questions = record.questions
            /\ [record EXCEPT !.clarification = c].clarification = c
BY DEF Fresh, Absent, Record

\* A write of a process on Redis does not touch the memory; a write in memory
\* starts from the record as it is.
LEMMA MemorySaved ==
  ASSUME TypeOK, MemoryInv, NEW r \in Requests, pc[r] \in Writes, NEW record, Save(record)
  PROVE  \/ stored'["memory"] = stored["memory"]
         \/ stored'["memory"] = record /\ copy[r] = stored["memory"] /\ repo = "memory"
BY DEF TypeOK, MemoryInv, Save, Repos

LEMMA MemorySaveRead ==
  ASSUME TypeOK, MemoryInv, NEW r \in Requests, pc[r] \in Writes, NEW record,
         SaveRead(r, record)
  PROVE  \/ stored'["memory"] = stored["memory"]
         \/ stored'["memory"] = record /\ copy[r] = stored["memory"] /\ repo = "memory"
BY MemorySaved DEF SaveRead

LEMMA ConversationStep ==
  TypeInv /\ MemoryInv /\ [Next]_vars => [M!Next]_ConversationVars
<1>. SUFFICES ASSUME TypeInv, MemoryInv, [Next]_vars PROVE [M!Next]_ConversationVars
  OBVIOUS
<1>. DEFINE memory == stored["memory"]
            Quiet == memory'.turns = memory.turns /\ memory'.questions = memory.questions
<1>0. /\ TypeOK
      /\ memory \in Record
      /\ \A r \in Requests : copy[r] \in Record
      /\ UNCHANGED stored => Quiet
      /\ {"create", "clear", "analysis", "question", "turn"} = Writes
  BY DEF TypeInv, TypeOK, Repos, Writes
<1>1. ASSUME Quiet PROVE [M!Next]_ConversationVars
  BY <1>1 DEF ConversationVars
<1>2. ASSUME memory'.turns = <<>>, memory'.questions = <<>> PROVE [M!Next]_ConversationVars
  BY <1>2 DEF M!Next, M!Forget
<1>3. ASSUME NEW r \in Requests, Create(r) PROVE Quiet
  <2>1. \/ memory' = memory
        \/ memory' = Fresh /\ copy[r] = memory /\ repo = "memory"
    BY <1>0, <1>3, MemorySaved DEF Create, At
  <2>2. ~copy[r].live /\ (memory.live \/ memory = Absent)
    BY <1>3 DEF Create, At, MemoryInv, Repos
  <2>. QED
    BY <2>1, <2>2, Saved
<1>4. ASSUME NEW r \in Requests, ClearClarification(r) PROVE Quiet
  <2>. DEFINE record == [copy[r] EXCEPT !.clarification = {}]
  <2>1. {} \in SUBSET Requests
    OBVIOUS
  <2>2. record.turns = copy[r].turns /\ record.questions = copy[r].questions
    BY <1>0, <2>1, Saved
  <2>3. pc[r] \in Writes /\ Save(record)
    BY <1>0, <1>4 DEF ClearClarification, At
  <2>. HIDE DEF record
  <2>4. memory' = memory \/ (memory' = record /\ copy[r] = memory)
    BY <1>0, <2>3, MemorySaved
  <2>. QED
    BY <2>4, <2>2
<1>5. ASSUME NEW r \in Requests, NEW asks \in BOOLEAN, RecordAnalysis(r, asks) PROVE Quiet
  <2>. DEFINE asked == IF asks THEN {r} ELSE {}
              record == [copy[r] EXCEPT !.clarification = asked]
  <2>1. asked \in SUBSET Requests
    OBVIOUS
  <2>2. record.turns = copy[r].turns /\ record.questions = copy[r].questions
    BY <1>0, <2>1, Saved
  <2>3. pc[r] \in Writes /\ SaveRead(r, record)
    BY <1>0, <1>5 DEF RecordAnalysis, At
  <2>. HIDE DEF record
  <2>4. memory' = memory \/ (memory' = record /\ copy[r] = memory)
    BY <1>0, <2>3, MemorySaveRead
  <2>. QED
    BY <2>4, <2>2
<1>6. ASSUME NEW r \in Requests, AppendQuestion(r) PROVE Quiet \/ M!AppendQuestion(r)
  <2>. DEFINE q == Append(copy[r].questions, r)
              record == [copy[r] EXCEPT !.questions = q]
  <2>1. q \in Seq(Requests)
    BY <1>0 DEF Record
  <2>2. record.turns = copy[r].turns /\ record.questions = q
    BY <1>0, <2>1, Saved
  <2>3. pc[r] \in Writes /\ SaveRead(r, record)
    BY <1>0, <1>6 DEF AppendQuestion, At
  <2>. HIDE DEF record
  <2>4. memory' = memory \/ (memory' = record /\ copy[r] = memory)
    BY <1>0, <2>3, MemorySaveRead
  <2>. QED
    BY <2>4, <2>2 DEF M!AppendQuestion
<1>7. ASSUME NEW r \in Requests, AppendTurn(r) PROVE Quiet \/ M!AppendTurn(r)
  <2>. DEFINE a == Append(copy[r].turns, r)
              s == LastTurns(a)
              record == [copy[r] EXCEPT !.turns = s]
  <2>1. a \in Seq(Requests)
    BY <1>0 DEF Record
  <2>2. s \in Seq(Requests) /\ s = M!LastTurns(a)
    BY <2>1, LastTurnsProperties DEF LastTurns, M!LastTurns
  <2>3. record.turns = s /\ record.questions = copy[r].questions
    BY <1>0, <2>2, Saved
  <2>4. pc[r] \in Writes /\ SaveRead(r, record)
    BY <1>0, <1>7 DEF AppendTurn, At
  <2>. HIDE DEF record
  <2>5. memory' = memory \/ (memory' = record /\ copy[r] = memory)
    BY <1>0, <2>4, MemorySaveRead
  <2>. QED
    BY <2>5, <2>2, <2>3 DEF M!AppendTurn
<1>8. CASE CreateSession
  BY <1>0, <1>2, <1>8, Saved DEF CreateSession, Save, MemoryInv, TypeOK, Repos
<1>9. ASSUME NEW p \in Repos, Expire(p) PROVE [M!Next]_ConversationVars
  BY <1>0, <1>1, <1>2, <1>9, Saved DEF Expire, TypeOK, Repos
<1>10. CASE Restart
  BY <1>0, <1>2, <1>10, Saved DEF Restart, TypeOK, Repos
<1>11. ASSUME NEW r \in Requests,
              \/ \E k \in Paths, option \in BOOLEAN : Load(r, k, option)
              \/ Answer(r) \/ AnalyzerFails(r) \/ PipelineAnswers(r) \/ Resume(r)
              \/ Read(r) \/ Fail(r)
       PROVE  Quiet
  BY <1>0, <1>11 DEF Load, Answer, AnalyzerFails, PipelineAnswers, Resume, Read, Fail
<1>12. CASE UNCHANGED vars
  <2>1. UNCHANGED stored
    BY <1>12 DEF vars
  <2>. QED
    BY <1>0, <1>1, <2>1
<1>. HIDE DEF Quiet
<1>13. ASSUME NEW r \in Requests, AppendQuestion(r) PROVE [M!Next]_ConversationVars
  BY <1>1, <1>6, <1>13 DEF M!Next
<1>14. ASSUME NEW r \in Requests, AppendTurn(r) PROVE [M!Next]_ConversationVars
  BY <1>1, <1>7, <1>14 DEF M!Next
<1>. QED
  BY <1>1, <1>3, <1>4, <1>5, <1>8, <1>9, <1>10, <1>11, <1>12, <1>13, <1>14 DEF Next, Step

\* In memory no request undoes what another has appended: the repository
\* implements the abstract conversation, however its requests interleave.
THEOREM MemoryKeepsTurns == Spec => MemoryConversation
<1>. DEFINE Inv == TypeInv /\ MemoryInv
<1>1. Init => Inv /\ M!Init
  BY TypeInit, MemoryInit, ConversationInit
<1>2. Inv /\ [Next]_vars => Inv'
  BY TypeStep, MemoryStep
<1>3. Inv /\ [Next]_vars => [M!Next]_ConversationVars
  BY ConversationStep
<1>. HIDE DEF Inv
<1>. QED
  BY <1>1, <1>2, <1>3, PTL DEF Spec, MemoryConversation, M!Spec, ConversationVars

-----------------------------------------------------------------------------
(* A clarification is answered once *)

\* Where a request stands after its own clarification was recorded.
Past == {"forward", "readForQuestion", "question", "over"}

\* What is on record was asked by a request that is past its analysis, and its
\* answerer, if it has one, is about to clear it.
AnswerInv ==
  /\ AnsweredOnce
  /\ \A one \in answered["memory"] : pc[one[1]] \in Past
  /\ \A c \in stored["memory"].clarification :
       /\ pc[c] \in Past
       /\ \A one \in answered["memory"] : one[1] = c => pc[one[2]] = "clear"

LEMMA AnswerInit == Init => AnswerInv
<1>. SUFFICES ASSUME Init PROVE AnswerInv
  OBVIOUS
<1>1. answered["memory"] = {} /\ stored["memory"] = Absent
  BY DEF Init, Repos
<1>. QED
  BY <1>1, Saved DEF AnswerInv, AnsweredOnce

\* Steps that leave the answers alone keep AnswerInv if they put nothing new on
\* record, keep who is past its analysis there, and let no answerer of what is
\* on record pass.
LEMMA AnswerKept ==
  ASSUME AnswerInv, answered'["memory"] = answered["memory"],
         \A q \in Requests : pc[q] \in Past => pc'[q] \in Past,
         answered["memory"] \subseteq Requests \X Requests,
         stored["memory"].clarification \subseteq Requests,
         \/ stored'["memory"].clarification = {}
         \/ /\ stored'["memory"].clarification \subseteq stored["memory"].clarification
            /\ \A q \in Requests : pc[q] = "clear" => pc'[q] = "clear"
  PROVE  AnswerInv'
<1>1. AnsweredOnce' /\ \A one \in answered'["memory"] : pc'[one[1]] \in Past
  BY DEF AnswerInv, AnsweredOnce
<1>2. ASSUME NEW c \in stored'["memory"].clarification
      PROVE  /\ pc'[c] \in Past
             /\ \A one \in answered'["memory"] : one[1] = c => pc'[one[2]] = "clear"
  BY <1>2 DEF AnswerInv
<1>. QED
  BY <1>1, <1>2 DEF AnswerInv

LEMMA AnswerStep == TypeInv /\ MemoryInv /\ AnswerInv /\ [Next]_vars => AnswerInv'
<1>. SUFFICES ASSUME TypeInv, MemoryInv, AnswerInv, [Next]_vars PROVE AnswerInv'
  OBVIOUS
<1>. DEFINE memory == stored["memory"]
            Onward == \A q \in Requests : pc[q] \in Past => pc'[q] \in Past
            Waiting == \A q \in Requests : pc[q] = "clear" => pc'[q] = "clear"
            Same == answered'["memory"] = answered["memory"]
<1>0. /\ TypeOK
      /\ memory \in Record /\ memory.clarification \subseteq Requests
      /\ \A r \in Requests : copy[r] \in Record
      /\ answered["memory"] \subseteq Requests \X Requests
      /\ UNCHANGED history => Same
      /\ Writes = {"create", "clear", "analysis", "question", "turn"}
  BY DEF TypeInv, TypeOK, Repos, Record, Writes, history
<1>1. ASSUME Same, Onward, memory'.clarification = {} PROVE AnswerInv'
  BY <1>0, <1>1, AnswerKept
<1>2. ASSUME Same, Onward, Waiting, memory'.clarification \subseteq memory.clarification
      PROVE  AnswerInv'
  BY <1>0, <1>2, AnswerKept
<1>3. ASSUME NEW r \in Requests, NEW label, Goto(r, label),
             pc[r] \in Past => label \in Past, pc[r] # "clear"
      PROVE  Onward /\ Waiting
  BY <1>0, <1>3 DEF Goto, TypeOK
<1>4. ASSUME NEW r \in Requests, Leave(r) PROVE Onward
  BY <1>0, <1>4 DEF Leave, Goto, TypeOK, Past
<1>5. ASSUME NEW r \in Requests, Leave(r), pc[r] # "clear" PROVE Waiting
  BY <1>0, <1>5 DEF Leave, Goto, TypeOK
<1>. HIDE DEF Onward, Waiting, Same
<1>6. ASSUME NEW r \in Requests, NEW k \in Paths, NEW option \in BOOLEAN, Load(r, k, option)
      PROVE  AnswerInv'
  <2>1. /\ pc[r] = "new" /\ MayRun(r) /\ UNCHANGED <<repo, stored>>
        /\ Goto(r, AfterLoad(k, option, stored[repo]))
    BY <1>6 DEF Load, At
  <2>2. Onward /\ Waiting
    BY <1>3, <2>1 DEF Past
  <2>3. CASE Same
    BY <1>2, <2>1, <2>2, <2>3
  <2>4. CASE ~Same
    <3>1. /\ repo = "memory" /\ Answers(k, option, memory)
          /\ answered'["memory"] = answered["memory"] \union (memory.clarification \X {r})
      BY <1>0, <1>6, <2>4 DEF Load, Same, TypeOK, Repos
    <3>2. memory.live
      BY <3>1, Saved DEF Answers, MemoryInv, Repos
    <3>3. pc'[r] = "clear"
      BY <1>0, <2>1, <3>1, <3>2 DEF AfterLoad, Goto, TypeOK
    <3>4. \A q \in Requests : pc[q] # "clear"
      BY <2>1, <3>1 DEF MayRun, Waits
    <3>5. \A c \in memory.clarification :
            pc[c] \in Past /\ \A one \in answered["memory"] : one[1] # c
      BY <1>0, <3>4 DEF AnswerInv
    <3>6. AnsweredOnce'
      BY <3>1, <3>5 DEF AnswerInv, AnsweredOnce
    <3>7. \A one \in answered'["memory"] : pc'[one[1]] \in Past
      BY <1>0, <2>2, <3>1, <3>5 DEF AnswerInv, Onward
    <3>8. ASSUME NEW c \in memory'.clarification
          PROVE  /\ pc'[c] \in Past
                 /\ \A one \in answered'["memory"] : one[1] = c => pc'[one[2]] = "clear"
      BY <1>0, <2>1, <2>2, <3>1, <3>3, <3>5, <3>8 DEF Onward
    <3>. QED
      BY <3>6, <3>7, <3>8 DEF AnswerInv
  <2>. QED
    BY <2>3, <2>4
<1>7. ASSUME NEW r \in Requests, Create(r) PROVE AnswerInv'
  <2>1. memory' = memory \/ memory' = Fresh
    BY <1>0, <1>7, MemorySaved DEF Create, At
  <2>2. Same /\ Onward /\ Waiting
    BY <1>0, <1>3, <1>7 DEF Create, At, Past
  <2>. QED
    BY <1>1, <1>2, <2>1, <2>2, Saved
<1>8. ASSUME NEW r \in Requests, ClearClarification(r) PROVE AnswerInv'
  <2>. DEFINE record == [copy[r] EXCEPT !.clarification = {}]
  <2>1. {} \in SUBSET Requests
    OBVIOUS
  <2>2. record.clarification = {}
    BY <1>0, <2>1, Saved
  <2>3. pc[r] = "clear" /\ pc[r] \in Writes /\ MayRun(r) /\ Save(record) /\ Same
    BY <1>0, <1>8 DEF ClearClarification, At
  <2>4. Onward
    BY <1>0, <1>8, <2>3 DEF ClearClarification, Goto, TypeOK, Onward, Past
  <2>. HIDE DEF record
  <2>5. memory' = record \/ (memory' = memory /\ repo # "memory")
    BY <1>0, <2>3 DEF Save, TypeOK, Repos
  <2>6. repo # "memory" => memory.clarification = {}
    BY <1>0, Saved DEF MemoryInv, TypeOK, Repos
  <2>. QED
    BY <1>1, <2>2, <2>3, <2>4, <2>5, <2>6
<1>9. ASSUME NEW r \in Requests,
             Answer(r) \/ AnalyzerFails(r) \/ PipelineAnswers(r) \/ Resume(r)
      PROVE  AnswerInv'
  <2>1. Same /\ memory' = memory
    BY <1>0, <1>9 DEF Answer, AnalyzerFails, PipelineAnswers, Resume
  <2>2. Onward /\ Waiting
    BY <1>3, <1>9 DEF Answer, AnalyzerFails, PipelineAnswers, Resume, At, Past
  <2>. QED
    BY <1>2, <2>1, <2>2
<1>10. ASSUME NEW r \in Requests, Read(r) PROVE AnswerInv'
  <2>1. PICK label \in Reads : At(r, label) /\ Goto(r, AfterRead(label))
    BY <1>10 DEF Read
  <2>2. pc[r] = label /\ pc[r] # "clear" /\ (pc[r] \in Past => AfterRead(label) \in Past)
    BY <2>1 DEF At, Reads, Past, AfterRead
  <2>3. Onward /\ Waiting
    BY <1>3, <2>1, <2>2
  <2>4. Same /\ memory' = memory
    BY <1>0, <1>10 DEF Read
  <2>. QED
    BY <1>2, <2>3, <2>4
<1>11. ASSUME NEW r \in Requests, NEW asks \in BOOLEAN, RecordAnalysis(r, asks)
       PROVE  AnswerInv'
  <2>. DEFINE asked == IF asks THEN {r} ELSE {}
              record == [copy[r] EXCEPT !.clarification = asked]
  <2>1. asked \in SUBSET Requests
    OBVIOUS
  <2>2. record.clarification = asked
    BY <1>0, <2>1, Saved
  <2>3. pc[r] = "analysis" /\ pc[r] \in Writes /\ SaveRead(r, record) /\ Same
    BY <1>0, <1>11 DEF RecordAnalysis, At
  <2>4. pc'[r] \in Past /\ Onward /\ Waiting
    BY <1>0, <1>11, <2>3
    DEF RecordAnalysis, Goto, TypeOK, AfterAnalysis, Past, Onward, Waiting
  <2>. HIDE DEF record
  <2>5. memory' = memory \/ memory'.clarification = asked
    BY <1>0, <2>2, <2>3, MemorySaveRead
  <2>6. CASE memory' = memory
    BY <1>2, <2>3, <2>4, <2>6
  <2>7. CASE memory'.clarification = asked
    <3>1. \A one \in answered["memory"] : one[1] # r
      BY <2>3 DEF AnswerInv, Past
    <3>2. AnsweredOnce' /\ \A one \in answered'["memory"] : pc'[one[1]] \in Past
      BY <1>0, <2>3, <2>4 DEF AnswerInv, AnsweredOnce, Same, Onward
    <3>. QED
      BY <2>3, <2>4, <2>7, <3>1, <3>2 DEF AnswerInv, Same
  <2>. QED
    BY <2>5, <2>6, <2>7
<1>12. ASSUME NEW r \in Requests, AppendQuestion(r) PROVE AnswerInv'
  <2>. DEFINE q == Append(copy[r].questions, r)
              record == [copy[r] EXCEPT !.questions = q]
  <2>1. q \in Seq(Requests)
    BY <1>0 DEF Record
  <2>2. record.clarification = copy[r].clarification
    BY <1>0, <2>1, Saved
  <2>3. pc[r] = "question" /\ pc[r] \in Writes /\ SaveRead(r, record) /\ Same
    BY <1>0, <1>12 DEF AppendQuestion, At
  <2>4. Onward /\ Waiting
    BY <1>4, <1>5, <1>12, <2>3 DEF AppendQuestion
  <2>. HIDE DEF record
  <2>5. memory'.clarification = memory.clarification
    BY <1>0, <2>2, <2>3, MemorySaveRead
  <2>. QED
    BY <1>2, <2>3, <2>4, <2>5
<1>13. ASSUME NEW r \in Requests, AppendTurn(r) PROVE AnswerInv'
  <2>. DEFINE a == Append(copy[r].turns, r)
              s == LastTurns(a)
              record == [copy[r] EXCEPT !.turns = s]
  <2>1. a \in Seq(Requests)
    BY <1>0 DEF Record
  <2>2. s \in Seq(Requests)
    BY <2>1, LastTurnsProperties
  <2>3. record.clarification = copy[r].clarification
    BY <1>0, <2>2, Saved
  <2>4. pc[r] = "turn" /\ pc[r] \in Writes /\ SaveRead(r, record) /\ Same
    BY <1>0, <1>13 DEF AppendTurn, At, Same
  <2>5. Onward /\ Waiting
    BY <1>4, <1>5, <1>13, <2>4 DEF AppendTurn
  <2>. HIDE DEF record
  <2>6. memory'.clarification = memory.clarification
    BY <1>0, <2>3, <2>4, MemorySaveRead
  <2>. QED
    BY <1>2, <2>4, <2>5, <2>6
<1>14. ASSUME NEW r \in Requests, Fail(r) PROVE AnswerInv'
  <2>1. Same /\ memory' = memory /\ Onward
    BY <1>0, <1>4, <1>14 DEF Fail
  <2>2. CASE pc[r] = "clear"
    BY <1>0, <1>1, <1>14, <2>1, <2>2, Saved DEF Fail, MemoryInv
  <2>3. CASE pc[r] # "clear"
    BY <1>2, <1>5, <1>14, <2>1, <2>3 DEF Fail
  <2>. QED
    BY <2>2, <2>3
<1>15. CASE CreateSession
  <2>1. Same /\ Onward /\ Waiting
    BY <1>0, <1>15 DEF CreateSession, Onward, Waiting
  <2>2. memory' = memory \/ memory' = Fresh
    BY <1>0, <1>15 DEF CreateSession, Save, TypeOK, Repos
  <2>. QED
    BY <1>1, <1>2, <2>1, <2>2, Saved
<1>16. ASSUME NEW p \in Repos, Expire(p) PROVE AnswerInv'
  <2>1. Same /\ Onward /\ Waiting
    BY <1>0, <1>16 DEF Expire, Onward, Waiting
  <2>2. memory' = memory \/ memory' = Absent
    BY <1>0, <1>16 DEF Expire, TypeOK, Repos
  <2>. QED
    BY <1>1, <1>2, <2>1, <2>2, Saved
<1>17. CASE Restart
  <2>1. Same /\ Onward
    BY <1>0, <1>17 DEF Restart, Onward, Past
  <2>2. memory' = Absent
    BY <1>0, <1>17 DEF Restart, TypeOK, Repos
  <2>. QED
    BY <1>1, <2>1, <2>2, Saved
<1>18. CASE UNCHANGED vars
  BY <1>0, <1>2, <1>18 DEF vars, Onward, Waiting, history
<1>. QED
  BY <1>6, <1>7, <1>8, <1>9, <1>10, <1>11, <1>12, <1>13, <1>14, <1>15, <1>16, <1>17, <1>18
  DEF Next, Step

\* In memory a clarification that ChatUsecase has handed to one request is not
\* handed to another, for any number of requests.
THEOREM ClarificationsAnsweredOnce == Spec => []AnsweredOnce
<1>. DEFINE Inv == TypeInv /\ MemoryInv /\ AnswerInv
<1>1. Init => Inv
  BY TypeInit, MemoryInit, AnswerInit
<1>2. Inv /\ [Next]_vars => Inv'
  BY TypeStep, MemoryStep, AnswerStep
<1>3. Inv => AnsweredOnce
  BY DEF AnswerInv
<1>. QED
  BY <1>1, <1>2, <1>3, PTL DEF Spec
=============================================================================
