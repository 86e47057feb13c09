--------------------------- MODULE ProposalsProofs ---------------------------
(***************************************************************************)
(* What holds of Proposals for any number of analyses and clients.         *)
(***************************************************************************)
EXTENDS Proposals, TLAPS

-----------------------------------------------------------------------------
(* Types *)

LEMMA Labels ==
  /\ Saving \subseteq Running /\ Working \subseteq Running /\ Stages \subseteq Running
  /\ Running \intersect Ended = {} /\ "new" \notin Running \union Ended
  /\ Saving \intersect Working = {}
BY DEF Running, Saving, Working, Stages, Ended

LEMMA WrittenStatus ==
  ASSUME NEW m \in Modes, NEW label \in Saving
  PROVE  Written(m, label) \in Status \ {"none"}
BY DEF Written, Saving, Status, Final

LEMMA AfterSaveLabel ==
  ASSUME NEW label \in Saving
  PROVE  AfterSave(label) \in {"queued", "done"}
BY DEF AfterSave

\* What a step may do to the type: pc, mode, analysis and stored at one call,
\* asked and told at one client.
LEMMA PutType ==
  ASSUME TypeOK, NEW s \in Stores, NEW c \in Calls, NEW status \in Status, Put(s, c, status)
  PROVE  stored' \in [Stores -> [Calls -> Status]]
BY DEF TypeOK, Put

LEMMA GotoType ==
  ASSUME TypeOK, NEW c \in Calls, NEW label \in Running \union Ended, Goto(c, label)
  PROVE  pc' \in [Calls -> {"new"} \union Running \union Ended]
BY DEF TypeOK, Goto

LEMMA TellType ==
  ASSUME TypeOK, NEW q \in Clients, NEW c \in Calls, NEW status \in Status,
         Tell(q, c, status)
  PROVE  told' \in [Clients -> [Calls -> Status]]
BY DEF TypeOK, Tell

LEMMA SaveProposalType ==
  ASSUME TypeOK, NEW c \in Calls, NEW m \in Modes, NEW label \in Saving,
         SaveProposal(c, m, label)
  PROVE  /\ stored' \in [Stores -> [Calls -> Status]]
         /\ pc' \in [Calls -> {"new"} \union Running \union Ended]
         /\ announced' \in SUBSET Calls
         /\ hidden' \in SUBSET Calls
<1>1. Written(m, label) \in Status
  BY WrittenStatus
<1>2. AfterSave(label) \in Running \union Ended /\ label \in Running
  BY AfterSaveLabel DEF Running, Working, Ended
<1>3. "memory" \in Stores
  BY DEF Stores
<1>4. CASE redis
  <2>1. Goto(c, label) /\ UNCHANGED <<stored, announced, hidden>>
    BY <1>4 DEF SaveProposal
  <2>. QED
    BY <2>1, <1>2, GotoType DEF TypeOK
<1>5. CASE ~redis
  <2>1. /\ Put("memory", c, Written(m, label)) /\ Goto(c, AfterSave(label))
        /\ announced' = announced \union {c} /\ hidden' = hidden \ {c}
    BY <1>5 DEF SaveProposal, Saved
  <2>. QED
    BY <2>1, <1>1, <1>2, <1>3, GotoType, PutType DEF TypeOK
<1>. QED
  BY <1>4, <1>5

LEMMA TypeInit == Init => TypeOK
BY ConstantsAssumption
DEF Init, TypeOK, NothingIn, Status, Modes, Running, Stores

LEMMA TypeStep == TypeOK /\ [Next]_vars => TypeOK'
<1>. SUFFICES ASSUME TypeOK, [Next]_vars PROVE TypeOK'
  OBVIOUS
<1>0. /\ Repo \in Stores /\ "redis" \in Stores /\ "memory" \in Stores
      /\ "none" \in Status /\ Nobody \in Calls \union {Nobody}
  BY DEF Repo, Stores, Status
<1>l. /\ {"queued", "parallel", "synthesize", "started", "searching", "analyse", "compose"}
           \subseteq Running \union Ended
      /\ {"over", "done", "cut"} \subseteq Running \union Ended
  BY DEF Running, Working, Stages, Ended
<1>1. ASSUME NEW c \in Calls, Progress(c) PROVE TypeOK'
  <2>0. mode[c] \in Modes
    BY DEF TypeOK
  <2>1. CASE SaveLands(c)
    <3>1. pc[c] \in Saving /\ Written(mode[c], pc[c]) \in Status
          /\ AfterSave(pc[c]) \in Running \union Ended
      BY <2>0, <2>1, <1>l, WrittenStatus, AfterSaveLabel DEF SaveLands
    <3>2. Put("redis", c, Written(mode[c], pc[c])) /\ Goto(c, AfterSave(pc[c]))
      BY <2>1 DEF SaveLands, Saved
    <3>3. /\ stored' \in [Stores -> [Calls -> Status]]
          /\ pc' \in [Calls -> {"new"} \union Running \union Ended]
      BY <1>0, <3>1, <3>2, PutType, GotoType
    <3>4. announced' \in SUBSET Calls /\ hidden' \in SUBSET Calls
      BY <2>1 DEF SaveLands, Saved, TypeOK
    <3>. QED
      BY <2>1, <3>3, <3>4 DEF SaveLands, TypeOK, client
  <2>2. CASE SaveFails(c)
    <3>1. pc[c] \in Saving /\ Written(mode[c], pc[c]) \in Status
          /\ AfterSave(pc[c]) \in Running \union Ended
      BY <2>0, <2>2, <1>l, WrittenStatus, AfterSaveLabel DEF SaveFails
    <3>2. Put("memory", c, Written(mode[c], pc[c])) /\ Goto(c, AfterSave(pc[c]))
      BY <2>2 DEF SaveFails, Saved
    <3>3. /\ stored' \in [Stores -> [Calls -> Status]]
          /\ pc' \in [Calls -> {"new"} \union Running \union Ended]
      BY <1>0, <3>1, <3>2, PutType, GotoType
    <3>4. announced' \in SUBSET Calls /\ hidden' \in SUBSET Calls
      BY <2>2 DEF SaveFails, Saved, TypeOK, OnlyInRedis
    <3>. QED
      BY <2>2, <3>3, <3>4 DEF SaveFails, TurnToMemory, TypeOK, client
  <2>3. CASE StartGraph(c)
    BY <2>3, <1>l, GotoType DEF StartGraph, TypeOK, client
  <2>4. CASE AnalysisEnds(c)
    BY <2>4 DEF AnalysisEnds, TypeOK, client
  <2>5. CASE GatherReturns(c)
    BY <2>5, <1>l, GotoType DEF GatherReturns, TypeOK, client
  <2>6. CASE GraphReturns(c)
    <3>1. CASE mode[c] = "agent"
      <4>1. /\ Goto(c, "done") /\ announced' = announced \union {c}
            /\ UNCHANGED <<redis, stored, mode, analysis, client, hidden>>
        BY <2>6, <3>1 DEF GraphReturns
      <4>. QED
        BY <4>1, <1>l, GotoType DEF TypeOK, client
    <3>2. CASE mode[c] # "agent"
      <4>1. SaveProposal(c, mode[c], "saveDraft") /\ "saveDraft" \in Saving
            /\ UNCHANGED <<redis, mode, analysis, client>>
        BY <2>6, <3>2 DEF GraphReturns, Saving
      <4>. QED
        BY <2>0, <4>1, SaveProposalType DEF TypeOK, client
    <3>. QED
      BY <3>1, <3>2
  <2>7. CASE GraphRaises(c)
    <3>1. CASE mode[c] = "async"
      <4>1. SaveProposal(c, "async", "saveError") /\ "saveError" \in Saving
            /\ "async" \in Modes /\ UNCHANGED <<redis, mode, analysis, client>>
        BY <2>7, <3>1 DEF GraphRaises, Saving, Modes
      <4>. QED
        BY <4>1, SaveProposalType DEF TypeOK, client
    <3>2. CASE mode[c] # "async"
      <4>1. /\ Goto(c, "over")
            /\ UNCHANGED <<redis, stored, mode, analysis, client, announced, hidden>>
        BY <2>7, <3>2 DEF GraphRaises
      <4>. QED
        BY <4>1, <1>l, GotoType DEF TypeOK, client
    <3>. QED
      BY <3>1, <3>2
  <2>8. CASE StreamStarts(c)
    <3>1. pc' \in [Calls -> {"new"} \union Running \union Ended]
      <4>1. PICK label \in {"searching", "analyse"} : Goto(c, label)
        BY <2>8 DEF StreamStarts
      <4>. QED
        BY <4>1, <1>l, GotoType
    <3>. QED
      BY <2>8, <3>1 DEF StreamStarts, TypeOK, client
  <2>9. CASE SearchEnds(c) \/ AnalyseReturns(c) \/ ComposeFails(c)
    <3>1. Goto(c, "analyse") \/ Goto(c, "compose") \/ Goto(c, "over")
      BY <2>9 DEF SearchEnds, AnalyseReturns, ComposeFails
    <3>2. pc' \in [Calls -> {"new"} \union Running \union Ended]
      BY <3>1, <1>l, GotoType
    <3>3. UNCHANGED <<redis, stored, mode, analysis, client, announced, hidden>>
      BY <2>9 DEF SearchEnds, AnalyseReturns, ComposeFails
    <3>. QED
      BY <3>2, <3>3 DEF TypeOK, client
  <2>10. CASE Composed(c)
    <3>1. SaveProposal(c, mode[c], "saveDraft") /\ "saveDraft" \in Saving
          /\ UNCHANGED <<redis, mode, analysis, client>>
      BY <2>10 DEF Composed, Saving
    <3>. QED
      BY <2>0, <3>1, SaveProposalType DEF TypeOK, client
  <2>. QED
    BY <1>1, <2>1, <2>2, <2>3, <2>4, <2>5, <2>6, <2>7, <2>8, <2>9, <2>10 DEF Progress
<1>2. ASSUME NEW c \in Calls, NEW m \in Modes, Begin(c, m) PROVE TypeOK'
  <2>1. mode' \in [Calls -> Modes] /\ UNCHANGED <<redis, analysis, client>>
    BY <1>2 DEF Begin, TypeOK
  <2>2. CASE m = "async"
    <3>1. SaveProposal(c, m, "placeholder") /\ "placeholder" \in Saving
      BY <1>2, <2>2 DEF Begin, Saving
    <3>. QED
      BY <2>1, <3>1, SaveProposalType DEF TypeOK, client
  <2>3. CASE m # "async"
    <3>1. (Goto(c, "started") \/ Goto(c, "queued")) /\ UNCHANGED <<stored, announced, hidden>>
      BY <1>2, <2>3 DEF Begin
    <3>2. pc' \in [Calls -> {"new"} \union Running \union Ended]
      BY <3>1, <1>l, GotoType
    <3>. QED
      BY <2>1, <3>1, <3>2 DEF TypeOK, client
  <2>. QED
    BY <2>2, <2>3
<1>3. ASSUME NEW c \in Calls, BeginFails(c) PROVE TypeOK'
  BY <1>3, <1>l, GotoType DEF BeginFails, TypeOK, client
<1>4. ASSUME NEW c \in Calls, Disconnect(c) PROVE TypeOK'
  <2>1. pc' \in [Calls -> {"new"} \union Running \union Ended]
    BY <1>4, <1>l, GotoType DEF Disconnect
  <2>2. stored' \in [Stores -> [Calls -> Status]]
    <3>1. CASE UNCHANGED stored
      BY <3>1 DEF TypeOK
    <3>2. CASE pc[c] \in Saving /\ Put("redis", c, Written(mode[c], pc[c]))
      <4>1. mode[c] \in Modes
        BY DEF TypeOK
      <4>. QED
        BY <1>0, <3>2, <4>1, WrittenStatus, PutType
    <3>. QED
      BY <1>4, <3>1, <3>2 DEF Disconnect
  <2>3. analysis' \in [Calls -> {"none", "running", "ok", "failed"}]
    BY <1>4 DEF Disconnect, TypeOK
  <2>. QED
    BY <1>4, <2>1, <2>2, <2>3 DEF Disconnect, TypeOK, client
<1>5. ASSUME NEW c \in Calls, Expire(c) PROVE TypeOK'
  <2>1. stored' \in [Stores -> [Calls -> Status]]
    BY <1>0, <1>5, PutType DEF Expire
  <2>. QED
    BY <1>5, <2>1 DEF Expire, TypeOK, client
<1>6. ASSUME NEW q \in Clients, ClientStep(q) PROVE TypeOK'
  <2>1. ASSUME NEW c \in Calls, GetProposal(q, c) PROVE TypeOK'
    <3>1. told' \in [Clients -> [Calls -> Status]]
      <4>1. CASE redis
        BY <2>1, <4>1 DEF GetProposal, TypeOK
      <4>2. CASE ~redis
        <5>1. Tell(q, c, stored["memory"][c]) /\ stored["memory"][c] \in Status
          BY <2>1, <4>2, <1>0 DEF GetProposal, TypeOK
        <5>. QED
          BY <5>1, TellType
      <4>. QED
        BY <4>1, <4>2
    <3>2. asked' \in [Clients -> Calls \union {Nobody}]
      BY <2>1 DEF GetProposal, TypeOK
    <3>. QED
      BY <2>1, <3>1, <3>2 DEF GetProposal, TypeOK
  <2>2. CASE GetLands(q) \/ GetFails(q)
    <3>1. asked[q] \in Calls
      BY <2>2 DEF GetLands, GetFails, TypeOK
    <3>2. PICK s \in Stores : Tell(q, asked[q], stored[s][asked[q]])
      BY <2>2, <1>0 DEF GetLands, GetFails
    <3>3. stored[s][asked[q]] \in Status
      BY <3>1 DEF TypeOK
    <3>4. told' \in [Clients -> [Calls -> Status]]
      BY <3>1, <3>2, <3>3, TellType
    <3>5. asked' \in [Clients -> Calls \union {Nobody}]
      BY <2>2 DEF GetLands, GetFails, TypeOK
    <3>6. redis' \in BOOLEAN /\ hidden' \in SUBSET Calls
      BY <2>2 DEF GetLands, GetFails, TurnToMemory, OnlyInRedis, TypeOK
    <3>7. UNCHANGED <<stored, mode, pc, analysis, announced>>
      BY <2>2 DEF GetLands, GetFails
    <3>. QED
      BY <3>4, <3>5, <3>6, <3>7 DEF TypeOK
  <2>. QED
    BY <1>6, <2>1, <2>2 DEF ClientStep
<1>7. CASE Restart
  <2>1. stored' \in [Stores -> [Calls -> Status]] /\ told' \in [Clients -> [Calls -> Status]]
    BY <1>0, <1>7 DEF Restart, TypeOK, NothingIn
  <2>2. pc' \in [Calls -> {"new"} \union Running \union Ended]
    BY <1>7, <1>l DEF Restart, TypeOK
  <2>3. /\ analysis' \in [Calls -> {"none", "running", "ok", "failed"}]
        /\ asked' \in [Clients -> Calls \union {Nobody}]
        /\ hidden' \in SUBSET Calls /\ redis' \in BOOLEAN
    BY <1>7, ConstantsAssumption DEF Restart, TypeOK
  <2>. QED
    BY <1>7, <2>1, <2>2, <2>3 DEF Restart, TypeOK
<1>8. CASE UNCHANGED vars
  BY <1>8 DEF vars, client, TypeOK
<1>. QED
  BY <1>1, <1>2, <1>3, <1>4, <1>5, <1>6, <1>7, <1>8 DEF Next

\* TypeOK holds: what analyses save, clients are told and tasks go through
\* stays in the vocabulary of the assist API.
THEOREM TypeCorrect == Spec => []TypeOK
<1>1. Init => TypeOK
  BY TypeInit
<1>2. TypeOK /\ [Next]_vars => TypeOK'
  BY TypeStep
<1>. QED
  BY <1>1, <1>2, PTL DEF Spec

-----------------------------------------------------------------------------
(* Where the record of a call can be, given where the call stands *)

\* As long as the process uses Redis nothing is in memory, and a save that
\* began on Redis finds nothing of its call in memory.  A record says
\* "processing" until its call is done, or else lies in the store given up.
\* An outcome is saved once.
CallInv(c) ==
  /\ pc[c] = "new" => c \notin announced
  /\ pc[c] \in {"placeholder", "saveError"} => mode[c] = "async"
  /\ redis \/ pc[c] \in Saving => stored["memory"][c] = "none"
  /\ stored["memory"][c] = "processing" => mode[c] = "async" /\ pc[c] \in Working
  /\ stored["redis"][c] = "processing" =>
       /\ mode[c] = "async"
       /\ \/ pc[c] \in Working \union Saving \union {"cut"}
          \/ pc[c] = "done" /\ ~redis
  /\ stored["memory"][c] \in Final => pc[c] \in Ended
  /\ stored["redis"][c] \in Final => pc[c] \in Ended /\ stored["memory"][c] = "none"

StoreInv == \A c \in Calls : CallInv(c)

\* a call that a step leaves alone, if the step does not turn back to Redis
Untouched(c) ==
  /\ pc'[c] = pc[c] /\ mode'[c] = mode[c]
  /\ c \in announced' <=> c \in announced
  /\ stored'["redis"][c] = stored["redis"][c]
  /\ stored'["memory"][c] = stored["memory"][c]

LEMMA CallKept ==
  ASSUME NEW c \in Calls, CallInv(c), Untouched(c), redis' => redis
  PROVE  CallInv(c)'
BY DEF CallInv, Untouched

\* what the functions are at a call after a step
LEMMA PutAt ==
  ASSUME TypeOK, NEW s \in Stores, NEW c \in Calls, NEW status, Put(s, c, status)
  PROVE  /\ stored'[s][c] = status
         /\ \A t \in Stores, d \in Calls :
              t # s \/ d # c => stored'[t][d] = stored[t][d]
BY DEF TypeOK, Put

LEMMA GotoAt ==
  ASSUME TypeOK, NEW c \in Calls, NEW label, Goto(c, label)
  PROVE  pc'[c] = label /\ \A d \in Calls \ {c} : pc'[d] = pc[d]
BY DEF TypeOK, Goto

\* save_proposal, called by c when it is not saving yet
LEMMA SaveProposalKeeps ==
  ASSUME TypeOK, StoreInv, NEW c \in Calls, NEW m \in Modes, NEW label \in Saving,
         SaveProposal(c, m, label), redis' = redis,
         mode'[c] = m, \A d \in Calls \ {c} : mode'[d] = mode[d],
         pc[c] = "new" \/ mode[c] = m,
         pc[c] \in {"new"} \union Working \union Stages,
         label \in {"placeholder", "saveError"} => m = "async",
         label = "placeholder" => pc[c] = "new"
  PROVE  StoreInv'
<1>0. /\ "redis" \in Stores /\ "memory" \in Stores
      /\ {"queued", "done"} \intersect (Saving \union {"new"}) = {}
      /\ "queued" \in Working /\ "done" \in Ended /\ label # "new" /\ label \notin Ended
  BY DEF Stores, Saving, Working, Ended
<1>1. CallInv(c) /\ pc[c] \notin Ended \union Saving
      /\ stored["redis"][c] \notin Final /\ stored["memory"][c] \notin Final
  BY DEF StoreInv, CallInv, Ended, Saving, Working, Stages
<1>2. stored["redis"][c] = "processing" => m = "async" /\ pc[c] # "new"
  BY <1>1 DEF CallInv, Working, Saving, Ended
<1>3. CASE redis
  <2>1. Goto(c, label) /\ UNCHANGED <<stored, announced>>
    BY <1>3 DEF SaveProposal
  <2>2. pc'[c] = label /\ \A d \in Calls \ {c} : pc'[d] = pc[d]
    BY <2>1, GotoAt
  <2>3. CallInv(c)'
    BY <1>0, <1>1, <1>2, <1>3, <2>1, <2>2 DEF CallInv
  <2>4. ASSUME NEW d \in Calls \ {c} PROVE CallInv(d)'
    <3>1. Untouched(d)
      BY <2>1, <2>2 DEF Untouched
    <3>. QED
      BY <3>1, CallKept DEF StoreInv
  <2>. QED
    BY <2>3, <2>4 DEF StoreInv
<1>4. CASE ~redis
  <2>1. /\ Put("memory", c, Written(m, label)) /\ Goto(c, AfterSave(label))
        /\ announced' = announced \union {c}
    BY <1>4 DEF SaveProposal, Saved
  <2>2. pc'[c] = AfterSave(label) /\ \A d \in Calls \ {c} : pc'[d] = pc[d]
    BY <2>1, GotoAt
  <2>3. /\ stored'["memory"][c] = Written(m, label)
        /\ stored'["redis"][c] = stored["redis"][c]
        /\ \A d \in Calls \ {c} : /\ stored'["memory"][d] = stored["memory"][d]
                                  /\ stored'["redis"][d] = stored["redis"][d]
    BY <1>0, <2>1, PutAt
  <2>4. CallInv(c)'
    <3>1. CASE label = "placeholder"
      <4>1. Written(m, label) = "processing" /\ pc'[c] = "queued" /\ m = "async"
        BY <2>2, <3>1 DEF Written, AfterSave
      <4>2. "processing" \notin Final
        BY DEF Final
      <4>. QED
        BY <1>0, <1>1, <1>4, <2>3, <4>1, <4>2 DEF CallInv
    <3>2. CASE label # "placeholder"
      <4>1. Written(m, label) # "processing" /\ pc'[c] = "done"
        BY <2>2, <3>2 DEF Written, AfterSave, Saving
      <4>. QED
        BY <1>0, <1>1, <1>2, <1>4, <2>3, <4>1 DEF CallInv
    <3>. QED
      BY <3>1, <3>2
  <2>5. ASSUME NEW d \in Calls \ {c} PROVE CallInv(d)'
    <3>1. Untouched(d)
      BY <2>1, <2>2, <2>3 DEF Untouched
    <3>. QED
      BY <3>1, CallKept DEF StoreInv
  <2>. QED
    BY <2>4, <2>5 DEF StoreInv
<1>. QED
  BY <1>3, <1>4

\* c goes on from one place of its work to another and saves nothing.
LEMMA MoveKeeps ==
  ASSUME TypeOK, StoreInv, NEW c \in Calls, NEW label, Goto(c, label),
         UNCHANGED <<redis, stored>>, \A d \in Calls \ {c} : mode'[d] = mode[d],
         pc[c] = "new" \/ mode'[c] = mode[c],
         announced' \in {announced, announced \union {c}},
         label \notin Saving \union {"new"},
         pc[c] \notin Ended \union Saving,
         \/ pc[c] \in Working /\ label \in Working
         \/ pc[c] = "new" \/ mode[c] # "async"
  PROVE  StoreInv'
<1>1. pc'[c] = label /\ \A d \in Calls \ {c} : pc'[d] = pc[d]
  BY GotoAt
<1>2. CallInv(c)'
  BY <1>1 DEF StoreInv, CallInv, Working, Saving, Ended
<1>3. ASSUME NEW d \in Calls \ {c} PROVE CallInv(d)'
  <2>1. Untouched(d)
    BY <1>1 DEF Untouched
  <2>. QED
    BY <2>1, CallKept DEF StoreInv
<1>. QED
  BY <1>2, <1>3 DEF StoreInv

LEMMA StoreInit == Init => StoreInv
<1>. SUFFICES ASSUME Init, NEW c \in Calls PROVE CallInv(c)
  BY DEF StoreInv
<1>1. /\ pc[c] = "new" /\ c \notin announced
      /\ stored["memory"][c] = "none" /\ stored["redis"][c] = "none"
  BY DEF Init, Stores, NothingIn
<1>. QED
  BY <1>1 DEF CallInv, Saving, Final

LEMMA StoreStep == TypeOK /\ StoreInv /\ [Next]_vars => StoreInv'
<1>. SUFFICES ASSUME TypeOK, StoreInv, [Next]_vars PROVE StoreInv'
  OBVIOUS
<1>0. "redis" \in Stores /\ "memory" \in Stores
  BY DEF Stores
<1>w. /\ {"queued", "parallel", "synthesize"} \subseteq Working
      /\ {"started", "searching", "analyse", "compose"} \subseteq Stages
      /\ {"done", "over", "cut"} = Ended
      /\ (Working \union Stages) \intersect (Saving \union Ended \union {"new"}) = {}
      /\ (Ended \union {"new"}) \intersect Saving = {} /\ "new" \notin Ended
      /\ Working \intersect Stages = {}
  BY DEF Working, Stages, Ended, Saving
\* the same, if no call is touched
<1>u. ASSUME UNCHANGED <<stored, mode, pc, announced>>, redis' => redis PROVE StoreInv'
  BY <1>u, CallKept DEF StoreInv, Untouched
<1>1. ASSUME NEW c \in Calls, Progress(c) PROVE StoreInv'
  <2>0. mode[c] \in Modes /\ CallInv(c)
    BY DEF TypeOK, StoreInv
  <2>1. CASE SaveLands(c)
    <3>1. /\ pc[c] \in Saving /\ Put("redis", c, Written(mode[c], pc[c]))
          /\ Goto(c, AfterSave(pc[c])) /\ announced' = announced \union {c}
          /\ redis' = redis /\ mode' = mode
      BY <2>1 DEF SaveLands, Saved
    <3>2. pc'[c] = AfterSave(pc[c]) /\ \A d \in Calls \ {c} : pc'[d] = pc[d]
      BY <3>1, GotoAt
    <3>3. /\ stored'["redis"][c] = Written(mode[c], pc[c])
          /\ stored'["memory"][c] = stored["memory"][c]
          /\ \A d \in Calls \ {c} : /\ stored'["memory"][d] = stored["memory"][d]
                                    /\ stored'["redis"][d] = stored["redis"][d]
      BY <1>0, <3>1, PutAt
    <3>4. CallInv(c)'
      <4>0. stored["memory"][c] = "none"
        BY <2>0, <3>1 DEF CallInv
      <4>1. CASE pc[c] = "placeholder"
        <5>1. /\ Written(mode[c], pc[c]) = "processing" /\ pc'[c] = "queued"
              /\ mode[c] = "async" /\ "processing" \notin Final /\ "none" \notin Final
          BY <2>0, <3>2, <4>1 DEF Written, AfterSave, CallInv, Final
        <5>. QED
          BY <1>w, <3>1, <3>3, <4>0, <5>1 DEF CallInv
      <4>2. CASE pc[c] # "placeholder"
        <5>1. /\ Written(mode[c], pc[c]) # "processing" /\ pc'[c] = "done"
              /\ "none" \notin Final
          BY <3>1, <3>2, <4>2 DEF Written, AfterSave, Saving, Final
        <5>. QED
          BY <1>w, <3>1, <3>3, <4>0, <5>1 DEF CallInv
      <4>. QED
        BY <4>1, <4>2
    <3>5. ASSUME NEW d \in Calls \ {c} PROVE CallInv(d)'
      <4>1. Untouched(d)
        BY <3>1, <3>2, <3>3 DEF Untouched
      <4>. QED
        BY <3>1, <4>1, CallKept DEF StoreInv
    <3>. QED
      BY <3>4, <3>5 DEF StoreInv
  <2>2. CASE SaveFails(c)
    <3>1. /\ pc[c] \in Saving /\ Put("memory", c, Written(mode[c], pc[c]))
          /\ Goto(c, AfterSave(pc[c])) /\ announced' = announced \union {c}
          /\ redis' = FALSE /\ mode' = mode
      BY <2>2 DEF SaveFails, Saved, TurnToMemory
    <3>2. pc'[c] = AfterSave(pc[c]) /\ \A d \in Calls \ {c} : pc'[d] = pc[d]
      BY <3>1, GotoAt
    <3>3. /\ stored'["memory"][c] = Written(mode[c], pc[c])
          /\ stored'["redis"][c] = stored["redis"][c]
          /\ \A d \in Calls \ {c} : /\ stored'["memory"][d] = stored["memory"][d]
                                    /\ stored'["redis"][d] = stored["redis"][d]
      BY <1>0, <3>1, PutAt
    <3>4. CallInv(c)'
      <4>0. stored["redis"][c] \notin Final
        BY <1>w, <2>0, <3>1 DEF CallInv
      <4>1. CASE pc[c] = "placeholder"
        <5>1. /\ Written(mode[c], pc[c]) = "processing" /\ pc'[c] = "queued"
              /\ mode[c] = "async" /\ "processing" \notin Final
          BY <2>0, <3>2, <4>1 DEF Written, AfterSave, CallInv, Final
        <5>. QED
          BY <1>w, <3>1, <3>3, <4>0, <5>1 DEF CallInv
      <4>2. CASE pc[c] # "placeholder"
        <5>1. Written(mode[c], pc[c]) # "processing" /\ pc'[c] = "done"
          BY <3>1, <3>2, <4>2 DEF Written, AfterSave, Saving
        <5>. QED
          BY <1>w, <2>0, <3>1, <3>3, <4>0, <5>1 DEF CallInv
      <4>. QED
        BY <4>1, <4>2
    <3>5. ASSUME NEW d \in Calls \ {c} PROVE CallInv(d)'
      <4>1. Untouched(d)
        BY <3>1, <3>2, <3>3 DEF Untouched
      <4>. QED
        BY <3>1, <4>1, CallKept DEF StoreInv
    <3>. QED
      BY <3>4, <3>5 DEF StoreInv
  <2>3. CASE StartGraph(c)
    <3>1. pc[c] = "queued" /\ Goto(c, "parallel") /\ UNCHANGED <<redis, stored, mode, announced>>
      BY <2>3 DEF StartGraph
    <3>. QED
      BY <1>w, <3>1, MoveKeeps
  <2>4. CASE AnalysisEnds(c)
    BY <1>u, <2>4 DEF AnalysisEnds
  <2>5. CASE GatherReturns(c)
    <3>1. pc[c] = "parallel" /\ Goto(c, "synthesize") /\ UNCHANGED <<redis, stored, mode, announced>>
      BY <2>5 DEF GatherReturns
    <3>. QED
      BY <1>w, <3>1, MoveKeeps
  <2>6. CASE GraphReturns(c)
    <3>0. pc[c] = "synthesize" /\ redis' = redis /\ mode' = mode
      BY <2>6 DEF GraphReturns
    <3>1. CASE mode[c] = "agent"
      <4>1. Goto(c, "done") /\ announced' = announced \union {c} /\ stored' = stored
        BY <2>6, <3>1 DEF GraphReturns
      <4>. QED
        BY <1>w, <3>0, <3>1, <4>1, MoveKeeps
    <3>2. CASE mode[c] # "agent"
      <4>1. SaveProposal(c, mode[c], "saveDraft") /\ "saveDraft" \in Saving
        BY <2>6, <3>2 DEF GraphReturns, Saving
      <4>. QED
        BY <1>w, <2>0, <3>0, <4>1, SaveProposalKeeps
    <3>. QED
      BY <3>1, <3>2
  <2>7. CASE GraphRaises(c)
    <3>0. pc[c] = "synthesize" /\ redis' = redis /\ mode' = mode
      BY <2>7 DEF GraphRaises
    <3>1. CASE mode[c] = "async"
      <4>1. SaveProposal(c, mode[c], "saveError") /\ "saveError" \in Saving
        BY <2>7, <3>1 DEF GraphRaises, Saving
      <4>. QED
        BY <1>w, <2>0, <3>0, <3>1, <4>1, SaveProposalKeeps
    <3>2. CASE mode[c] # "async"
      <4>1. Goto(c, "over") /\ announced' = announced /\ stored' = stored
        BY <2>7, <3>2 DEF GraphRaises
      <4>. QED
        BY <1>w, <3>0, <3>2, <4>1, MoveKeeps
    <3>. QED
      BY <3>1, <3>2
  <2>8. CASE StreamStarts(c) \/ SearchEnds(c) \/ AnalyseReturns(c) \/ ComposeFails(c)
    <3>1. /\ pc[c] \in Stages
          /\ UNCHANGED <<redis, stored, mode, announced>>
      BY <1>w, <2>8 DEF StreamStarts, SearchEnds, AnalyseReturns, ComposeFails
    <3>2. PICK label \in Stages \union {"over"} : Goto(c, label)
      BY <1>w, <2>8 DEF StreamStarts, SearchEnds, AnalyseReturns, ComposeFails
    <3>3. label \notin Saving \union {"new"} /\ pc[c] \notin Ended \union Saving
      BY <1>w, <3>1
    <3>4. pc'[c] = label /\ \A d \in Calls \ {c} : pc'[d] = pc[d]
      BY <3>2, GotoAt
    <3>5. /\ stored["redis"][c] # "processing" /\ stored["memory"][c] # "processing"
          /\ stored["redis"][c] \notin Final /\ stored["memory"][c] \notin Final
      BY <1>w, <2>0, <3>1 DEF CallInv
    <3>6. CallInv(c)'
      BY <2>0, <3>1, <3>3, <3>4, <3>5 DEF CallInv, Saving
    <3>7. ASSUME NEW d \in Calls \ {c} PROVE CallInv(d)'
      <4>1. Untouched(d)
        BY <3>1, <3>4 DEF Untouched
      <4>. QED
        BY <3>1, <4>1, CallKept DEF StoreInv
    <3>. QED
      BY <3>6, <3>7 DEF StoreInv
  <2>9. CASE Composed(c)
    <3>1. /\ SaveProposal(c, mode[c], "saveDraft") /\ "saveDraft" \in Saving
          /\ pc[c] = "compose" /\ redis' = redis /\ mode' = mode
      BY <2>9 DEF Composed, Saving
    <3>. QED
      BY <1>w, <2>0, <3>1, SaveProposalKeeps
  <2>. QED
    BY <1>1, <2>1, <2>2, <2>3, <2>4, <2>5, <2>6, <2>7, <2>8, <2>9 DEF Progress
<1>2. ASSUME NEW c \in Calls, NEW m \in Modes, Begin(c, m) PROVE StoreInv'
  <2>1. /\ pc[c] = "new" /\ redis' = redis
        /\ mode'[c] = m /\ \A d \in Calls \ {c} : mode'[d] = mode[d]
    BY <1>2 DEF Begin, TypeOK
  <2>2. CASE m = "async"
    <3>1. SaveProposal(c, m, "placeholder") /\ "placeholder" \in Saving
      BY <1>2, <2>2 DEF Begin, Saving
    <3>. QED
      BY <2>1, <2>2, <3>1, SaveProposalKeeps
  <2>3. CASE m # "async"
    <3>1. PICK label \in {"started", "queued"} : Goto(c, label)
      BY <1>2, <2>3 DEF Begin
    <3>2. UNCHANGED <<stored, announced>>
      BY <1>2, <2>3 DEF Begin
    <3>3. label \notin Saving \union {"new"} /\ pc[c] \notin Ended \union Saving
      BY <1>w, <2>1
    <3>. QED
      BY <2>1, <3>1, <3>2, <3>3, MoveKeeps
  <2>. QED
    BY <2>2, <2>3
<1>3. ASSUME NEW c \in Calls, BeginFails(c) PROVE StoreInv'
  <2>1. /\ pc[c] = "new" /\ Goto(c, "over")
        /\ UNCHANGED <<redis, stored, mode, announced>>
    BY <1>3 DEF BeginFails
  <2>2. "over" \notin Saving \union {"new"} /\ pc[c] \notin Ended \union Saving
    BY <1>w, <2>1
  <2>. QED
    BY <2>1, <2>2, MoveKeeps
<1>4. ASSUME NEW c \in Calls, Disconnect(c) PROVE StoreInv'
  <2>1. /\ mode[c] # "async" /\ pc[c] \in Running /\ Goto(c, "over")
        /\ UNCHANGED <<redis, mode, announced>>
    BY <1>4 DEF Disconnect, Streaming
  <2>2. pc'[c] = "over" /\ \A d \in Calls \ {c} : pc'[d] = pc[d]
    BY <2>1, GotoAt
  <2>3. /\ stored'["memory"][c] = stored["memory"][c]
        /\ \A d \in Calls \ {c} : /\ stored'["memory"][d] = stored["memory"][d]
                                  /\ stored'["redis"][d] = stored["redis"][d]
        /\ \/ stored'["redis"][c] = stored["redis"][c]
           \/ pc[c] = "saveDraft" /\ stored'["redis"][c] # "processing"
    <3>0. pc[c] \in Saving => pc[c] = "saveDraft"
      BY <2>1 DEF StoreInv, CallInv, Saving
    <3>1. CASE UNCHANGED stored
      BY <3>1
    <3>2. CASE pc[c] \in Saving /\ Put("redis", c, Written(mode[c], pc[c]))
      <4>1. Written(mode[c], pc[c]) # "processing"
        BY <3>0, <3>2 DEF Written
      <4>. QED
        BY <1>0, <3>0, <3>2, <4>1, PutAt
    <3>. QED
      BY <1>4, <3>1, <3>2 DEF Disconnect
  <2>4. CallInv(c)'
    <3>1. CallInv(c) /\ pc[c] \notin Ended /\ pc[c] # "new"
      BY <2>1 DEF StoreInv, Running, Saving, Working, Stages, Ended
    <3>2. stored["memory"][c] \notin Final /\ stored["redis"][c] \notin Final
      BY <3>1 DEF CallInv
    <3>3. pc[c] = "saveDraft" => stored["memory"][c] = "none"
      BY <3>1 DEF CallInv, Saving
    <3>. QED
      BY <1>w, <2>1, <2>2, <2>3, <3>1, <3>2, <3>3 DEF CallInv
  <2>5. ASSUME NEW d \in Calls \ {c} PROVE CallInv(d)'
    <3>1. Untouched(d)
      BY <2>1, <2>2, <2>3 DEF Untouched
    <3>. QED
      BY <2>1, <3>1, CallKept DEF StoreInv
  <2>. QED
    BY <2>4, <2>5 DEF StoreInv
<1>5. ASSUME NEW c \in Calls, Expire(c) PROVE StoreInv'
  <2>1. Put("redis", c, "none") /\ UNCHANGED <<redis, mode, pc, announced>>
    BY <1>5 DEF Expire
  <2>2. /\ stored'["redis"][c] = "none" /\ stored'["memory"][c] = stored["memory"][c]
        /\ \A d \in Calls \ {c} : /\ stored'["memory"][d] = stored["memory"][d]
                                  /\ stored'["redis"][d] = stored["redis"][d]
    BY <1>0, <2>1, PutAt
  <2>3. CallInv(c)'
    BY <2>1, <2>2 DEF StoreInv, CallInv, Final
  <2>4. ASSUME NEW d \in Calls \ {c} PROVE CallInv(d)'
    <3>1. Untouched(d)
      BY <2>1, <2>2 DEF Untouched
    <3>. QED
      BY <2>1, <3>1, CallKept DEF StoreInv
  <2>. QED
    BY <2>3, <2>4 DEF StoreInv
<1>6. ASSUME NEW q \in Clients, ClientStep(q) PROVE StoreInv'
  <2>1. UNCHANGED <<stored, mode, pc, announced>> /\ (redis' => redis)
    BY <1>6 DEF ClientStep, GetProposal, GetLands, GetFails, TurnToMemory
  <2>. QED
    BY <1>u, <2>1
<1>7. CASE Restart
  <2>1. ASSUME NEW c \in Calls PROVE CallInv(c)'
    <3>1. /\ stored'["memory"][c] = "none" /\ stored'["redis"][c] = stored["redis"][c]
          /\ mode' = mode /\ announced' = announced
          /\ pc'[c] = IF pc[c] = "new" THEN "new" ELSE "cut"
      BY <1>0, <1>7 DEF Restart, TypeOK, NothingIn
    <3>2. CallInv(c)
      BY DEF StoreInv
    <3>3. pc[c] = "new" => stored["redis"][c] # "processing" /\ stored["redis"][c] \notin Final
      BY <1>w, <3>2 DEF CallInv, Working, Saving
    <3>4. "none" \notin Final /\ "cut" \in Ended /\ "cut" \notin Saving /\ "new" \notin Saving
      BY <1>w DEF Final
    <3>. QED
      BY <3>1, <3>2, <3>3, <3>4 DEF CallInv
  <2>. QED
    BY <2>1 DEF StoreInv
<1>8. CASE UNCHANGED vars
  BY <1>8, <1>u DEF vars
<1>. QED
  BY <1>1, <1>2, <1>3, <1>4, <1>5, <1>6, <1>7, <1>8 DEF Next

THEOREM Invariance == Spec => [](TypeOK /\ StoreInv)
<1>1. Init => TypeOK /\ StoreInv
  BY TypeInit, StoreInit
<1>2. TypeOK /\ StoreInv /\ [Next]_vars => (TypeOK /\ StoreInv)'
  BY TypeStep, StoreStep
<1>. QED
  BY <1>1, <1>2, PTL DEF Spec

\* ProcessingIsInProgress holds: whatever becomes of Redis, no finished
\* analysis is shown as processing by the process that ran it.
THEOREM ProcessingMeansRunning == Spec => []ProcessingIsInProgress
<1>1. StoreInv => ProcessingIsInProgress
  BY DEF StoreInv, CallInv, ProcessingIsInProgress, Repo
<1>. QED
  BY <1>1, Invariance, PTL

-----------------------------------------------------------------------------
(* What was announced is found *)

Found(c) == c \in Given \ hidden => stored[Repo][c] # "none"

LEMMA FoundKept ==
  ASSUME NEW c \in Calls, Found(c), redis' = redis,
         c \in announced' <=> c \in announced, mode'[c] = mode[c],
         c \in hidden' <=> c \in hidden,
         stored'["redis"][c] = stored["redis"][c],
         stored'["memory"][c] = stored["memory"][c]
  PROVE  Found(c)'
BY DEF Found, Given, Repo

\* save_proposal, by the call c
LEMMA SaveProposalFound ==
  ASSUME TypeOK, AnnouncedIsFound, NEW c \in Calls, NEW m \in Modes, NEW label \in Saving,
         SaveProposal(c, m, label), redis' = redis,
         \A d \in Calls \ {c} : mode'[d] = mode[d],
         mode'[c] = mode[c] \/ c \notin announced
  PROVE  \A d \in Calls : Found(d)'
<1>0. "redis" \in Stores /\ "memory" \in Stores
  BY DEF Stores
<1>1. CASE redis
  BY <1>1 DEF SaveProposal, AnnouncedIsFound, Found, Given, Repo
<1>2. CASE ~redis
  <2>1. /\ Put("memory", c, Written(m, label))
        /\ announced' = announced \union {c} /\ hidden' = hidden \ {c}
    BY <1>2 DEF SaveProposal, Saved
  <2>2. Written(m, label) # "none"
    BY WrittenStatus
  <2>3. /\ stored'["memory"][c] # "none"
        /\ \A d \in Calls \ {c} : /\ stored'["memory"][d] = stored["memory"][d]
                                  /\ stored'["redis"][d] = stored["redis"][d]
    BY <1>0, <2>1, <2>2, PutAt
  <2>4. Found(c)'
    BY <1>2, <2>3 DEF Found, Repo
  <2>5. ASSUME NEW d \in Calls \ {c} PROVE Found(d)'
    <3>1. Found(d)
      BY DEF AnnouncedIsFound, Found
    <3>. QED
      BY <2>1, <2>3, <3>1, FoundKept
  <2>. QED
    BY <2>4, <2>5
<1>. QED
  BY <1>1, <1>2

LEMMA FoundStep ==
  TypeOK /\ StoreInv /\ AnnouncedIsFound /\ [Next]_vars => AnnouncedIsFound'
<1>. SUFFICES ASSUME TypeOK, StoreInv, AnnouncedIsFound, [Next]_vars
              PROVE  \A d \in Calls : Found(d)'
  <2>1. TypeOK /\ [Next]_vars => announced' \in SUBSET Calls
    BY TypeStep DEF TypeOK
  <2>. QED
    BY <2>1 DEF AnnouncedIsFound, Found, Given
<1>0. /\ "redis" \in Stores /\ "memory" \in Stores
      /\ \A d \in Calls : Found(d)
  BY DEF Stores, AnnouncedIsFound, Found
\* the same, if nothing about the calls is touched
<1>u. ASSUME UNCHANGED <<redis, stored, mode, announced, hidden>>
      PROVE  \A d \in Calls : Found(d)'
  BY <1>u, <1>0, FoundKept
\* the process turns to memory, where it has saved what c saves last
<1>m. ASSUME UNCHANGED mode, redis' = FALSE,
             NEW D \in SUBSET Calls,
             announced' = announced \union D,
             hidden' = (hidden \union OnlyInRedis) \ D,
             \A c \in D : stored'["memory"][c] # "none",
             \A c \in Calls \ D : stored'["memory"][c] = stored["memory"][c]
      PROVE  \A d \in Calls : Found(d)'
  <2>. SUFFICES ASSUME NEW d \in Calls, d \in Given' \ hidden'
                PROVE  stored'["memory"][d] # "none"
    BY <1>m DEF Found, Repo
  <2>1. CASE d \in D
    BY <1>m, <2>1
  <2>2. CASE d \notin D
    <3>1. d \in Given \ hidden /\ d \notin OnlyInRedis
      BY <1>m, <2>2 DEF Given
    <3>2. stored[Repo][d] # "none"
      BY <3>1 DEF AnnouncedIsFound
    <3>3. stored["memory"][d] # "none"
      BY <3>1, <3>2 DEF OnlyInRedis, Repo
    <3>. QED
      BY <1>m, <2>2, <3>3
  <2>. QED
    BY <2>1, <2>2
<1>1. ASSUME NEW c \in Calls, Progress(c) PROVE \A d \in Calls : Found(d)'
  <2>0. mode[c] \in Modes
    BY DEF TypeOK
  <2>1. CASE SaveLands(c)
    <3>1. /\ pc[c] \in Saving /\ Put("redis", c, Written(mode[c], pc[c]))
          /\ announced' = announced \union {c}
          /\ hidden' = (IF redis THEN hidden \ {c} ELSE hidden \union {c})
          /\ redis' = redis /\ mode' = mode
      BY <2>1 DEF SaveLands, Saved
    <3>2. Written(mode[c], pc[c]) # "none"
      BY <2>0, <3>1, WrittenStatus
    <3>3. /\ stored'["redis"][c] # "none"
          /\ \A d \in Calls \ {c} : /\ stored'["memory"][d] = stored["memory"][d]
                                    /\ stored'["redis"][d] = stored["redis"][d]
      BY <1>0, <3>1, <3>2, PutAt
    <3>4. Found(c)'
      BY <3>1, <3>3 DEF Found, Repo
    <3>5. ASSUME NEW d \in Calls \ {c} PROVE Found(d)'
      <4>1. d \in hidden' <=> d \in hidden
        BY <3>1
      <4>2. d \in announced' <=> d \in announced
        BY <3>1
      <4>. QED
        BY <1>0, <3>1, <3>3, <4>1, <4>2, FoundKept
    <3>. QED
      BY <3>4, <3>5
  <2>2. CASE SaveFails(c)
    <3>1. /\ pc[c] \in Saving /\ Put("memory", c, Written(mode[c], pc[c]))
          /\ announced' = announced \union {c}
          /\ hidden' = (hidden \union OnlyInRedis) \ {c}
          /\ redis' = FALSE /\ mode' = mode
      BY <2>2 DEF SaveFails, Saved, TurnToMemory
    <3>2. Written(mode[c], pc[c]) # "none"
      BY <2>0, <3>1, WrittenStatus
    <3>3. /\ stored'["memory"][c] # "none"
          /\ \A d \in Calls \ {c} : stored'["memory"][d] = stored["memory"][d]
      BY <1>0, <3>1, <3>2, PutAt
    <3>4. /\ {c} \in SUBSET Calls
          /\ \A d \in {c} : stored'["memory"][d] # "none"
      BY <3>3
    <3>. QED
      BY <1>m, <3>1, <3>3, <3>4
  <2>3. CASE StartGraph(c) \/ AnalysisEnds(c) \/ GatherReturns(c)
    BY <1>u, <2>3 DEF StartGraph, AnalysisEnds, GatherReturns
  <2>4. CASE GraphReturns(c)
    <3>0. redis' = redis /\ mode' = mode
      BY <2>4 DEF GraphReturns
    <3>1. CASE mode[c] = "agent"
      <4>1. announced' = announced \union {c} /\ UNCHANGED <<stored, hidden>>
        BY <2>4, <3>1 DEF GraphReturns
      <4>2. Found(c)'
        BY <3>0, <3>1 DEF Found, Given
      <4>3. ASSUME NEW d \in Calls \ {c} PROVE Found(d)'
        BY <1>0, <3>0, <4>1, FoundKept
      <4>. QED
        BY <4>2, <4>3
    <3>2. CASE mode[c] # "agent"
      <4>1. SaveProposal(c, mode[c], "saveDraft") /\ "saveDraft" \in Saving
        BY <2>4, <3>2 DEF GraphReturns, Saving
      <4>. QED
        BY <2>0, <3>0, <4>1, SaveProposalFound
    <3>. QED
      BY <3>1, <3>2
  <2>5. CASE GraphRaises(c)
    <3>0. redis' = redis /\ mode' = mode
      BY <2>5 DEF GraphRaises
    <3>1. CASE mode[c] = "async"
      <4>1. SaveProposal(c, "async", "saveError") /\ "saveError" \in Saving /\ "async" \in Modes
        BY <2>5, <3>1 DEF GraphRaises, Saving, Modes
      <4>. QED
        BY <3>0, <4>1, SaveProposalFound
    <3>2. CASE mode[c] # "async"
      BY <1>u, <2>5, <3>0, <3>2 DEF GraphRaises
    <3>. QED
      BY <3>1, <3>2
  <2>6. CASE StreamStarts(c) \/ SearchEnds(c) \/ AnalyseReturns(c) \/ ComposeFails(c)
    BY <1>u, <2>6 DEF StreamStarts, SearchEnds, AnalyseReturns, ComposeFails
  <2>7. CASE Composed(c)
    <3>1. /\ SaveProposal(c, mode[c], "saveDraft") /\ "saveDraft" \in Saving
          /\ redis' = redis /\ mode' = mode
      BY <2>7 DEF Composed, Saving
    <3>. QED
      BY <2>0, <3>1, SaveProposalFound
  <2>. QED
    BY <1>1, <2>1, <2>2, <2>3, <2>4, <2>5, <2>6, <2>7 DEF Progress
<1>2. ASSUME NEW c \in Calls, NEW m \in Modes, Begin(c, m) PROVE \A d \in Calls : Found(d)'
  <2>1. /\ redis' = redis /\ c \notin announced
        /\ \A d \in Calls \ {c} : mode'[d] = mode[d]
    BY <1>2 DEF Begin, TypeOK, StoreInv, CallInv
  <2>2. CASE m = "async"
    <3>1. SaveProposal(c, m, "placeholder") /\ "placeholder" \in Saving
      BY <1>2, <2>2 DEF Begin, Saving
    <3>. QED
      BY <2>1, <3>1, SaveProposalFound
  <2>3. CASE m # "async"
    <3>1. UNCHANGED <<stored, announced, hidden>>
      BY <1>2, <2>3 DEF Begin
    <3>. QED
      BY <1>0, <2>1, <3>1 DEF Found, Given, Repo
  <2>. QED
    BY <2>2, <2>3
<1>3. ASSUME NEW c \in Calls, BeginFails(c) PROVE \A d \in Calls : Found(d)'
  BY <1>u, <1>3 DEF BeginFails
<1>4. ASSUME NEW c \in Calls, Disconnect(c) PROVE \A d \in Calls : Found(d)'
  <2>1. UNCHANGED <<redis, mode, announced, hidden>>
    BY <1>4 DEF Disconnect
  <2>2. CASE UNCHANGED stored
    BY <1>u, <2>1, <2>2
  <2>3. CASE pc[c] \in Saving /\ Put("redis", c, Written(mode[c], pc[c]))
    <3>1. Written(mode[c], pc[c]) # "none"
      BY <2>3, WrittenStatus DEF TypeOK
    <3>2. /\ stored'["redis"][c] # "none" /\ stored'["memory"][c] = stored["memory"][c]
          /\ \A d \in Calls \ {c} : /\ stored'["memory"][d] = stored["memory"][d]
                                    /\ stored'["redis"][d] = stored["redis"][d]
      BY <1>0, <2>3, <3>1, PutAt
    <3>3. Found(c)'
      BY <1>0, <2>1, <3>2 DEF Found, Given, Repo
    <3>4. ASSUME NEW d \in Calls \ {c} PROVE Found(d)'
      BY <1>0, <2>1, <3>2, FoundKept
    <3>. QED
      BY <3>3, <3>4
  <2>. QED
    BY <1>4, <2>2, <2>3 DEF Disconnect
<1>5. ASSUME NEW c \in Calls, Expire(c) PROVE \A d \in Calls : Found(d)'
  <2>1. /\ Put("redis", c, "none") /\ UNCHANGED <<redis, mode, announced>>
        /\ hidden' = (IF redis THEN hidden \union {c} ELSE hidden)
    BY <1>5 DEF Expire
  <2>2. /\ stored'["memory"][c] = stored["memory"][c]
        /\ \A d \in Calls \ {c} : /\ stored'["memory"][d] = stored["memory"][d]
                                  /\ stored'["redis"][d] = stored["redis"][d]
    BY <1>0, <2>1, PutAt
  <2>3. Found(c)'
    <3>1. CASE redis
      BY <2>1, <3>1 DEF Found
    <3>2. CASE ~redis
      BY <1>0, <2>1, <2>2, <3>2 DEF Found, Given, Repo
    <3>. QED
      BY <3>1, <3>2
  <2>4. ASSUME NEW d \in Calls \ {c} PROVE Found(d)'
    <3>1. d \in hidden' <=> d \in hidden
      BY <2>1
    <3>. QED
      BY <1>0, <2>1, <2>2, <3>1, FoundKept
  <2>. QED
    BY <2>3, <2>4
<1>6. ASSUME NEW q \in Clients, ClientStep(q) PROVE \A d \in Calls : Found(d)'
  <2>1. CASE GetFails(q)
    <3>1. /\ redis' = FALSE /\ UNCHANGED <<stored, mode, announced>>
          /\ hidden' = hidden \union OnlyInRedis
      BY <2>1 DEF GetFails, TurnToMemory
    <3>2. announced' = announced \union {} /\ hidden' = (hidden \union OnlyInRedis) \ {}
      BY <3>1
    <3>3. /\ {} \in SUBSET Calls
          /\ \A d \in {} : stored'["memory"][d] # "none"
          /\ \A d \in Calls \ {} : stored'["memory"][d] = stored["memory"][d]
      BY <3>1
    <3>. QED
      BY <1>m, <3>1, <3>2, <3>3
  <2>2. CASE GetLands(q) \/ \E c \in Calls : GetProposal(q, c)
    BY <1>u, <2>2 DEF GetLands, GetProposal
  <2>. QED
    BY <1>6, <2>1, <2>2 DEF ClientStep
<1>7. CASE Restart
  <2>. SUFFICES ASSUME NEW d \in Calls, d \notin hidden' PROVE stored'[Repo'][d] # "none"
    BY DEF Found
  <2>1. RedisUrl /\ stored["redis"][d] # "none" /\ redis'
    BY <1>7, ConstantsAssumption DEF Restart
  <2>2. stored'["redis"][d] = stored["redis"][d]
    BY <1>0, <1>7 DEF Restart, TypeOK
  <2>. QED
    BY <2>1, <2>2 DEF Repo
<1>8. CASE UNCHANGED vars
  BY <1>8, <1>u DEF vars
<1>. QED
  BY <1>1, <1>2, <1>3, <1>4, <1>5, <1>6, <1>7, <1>8 DEF Next

\* AnnouncedIsFound holds: expiry, the turn from Redis to memory and the end of
\* the process are the only ways to lose a proposal a client was given.
THEOREM AnnouncedFound == Spec => []AnnouncedIsFound
<1>1. Init => AnnouncedIsFound
  BY DEF Init, AnnouncedIsFound, Given
<1>2. TypeOK /\ StoreInv /\ AnnouncedIsFound /\ [Next]_vars => AnnouncedIsFound'
  BY FoundStep
<1>. QED
  BY <1>1, <1>2, Invariance, PTL DEF Spec

-----------------------------------------------------------------------------
(* Outcomes are final *)

\* Once a client was told how c ended, memory has nothing else to tell, and what
\* else Redis may have is not asked for any more.
ToldInv(q, c) ==
  told[q][c] \in Final =>
    /\ pc[c] \in Ended
    /\ stored["memory"][c] \in {told[q][c], "none"}
    /\ \/ stored["redis"][c] \in {told[q][c], "none"}
       \/ ~redis /\ asked[q] = Nobody

OutcomeInv == \A q \in Clients, c \in Calls : ToldInv(q, c)

\* d has ended and saves nothing more.
Stays(d) ==
  /\ pc'[d] \in Ended
  /\ stored'["memory"][d] = stored["memory"][d]
  /\ stored'["redis"][d] \in {stored["redis"][d], "none"}

LEMMA EndedStays ==
  ASSUME TypeOK, [Next]_vars, ~Restart, NEW d \in Calls, pc[d] \in Ended
  PROVE  Stays(d)
<1>0. "redis" \in Stores /\ "memory" \in Stores
  BY DEF Stores
<1>1. pc[d] \notin Running \union {"new"}
  BY Labels
<1>2. Saving \union Working \union Stages \subseteq Running
  BY Labels
<1>u. ASSUME UNCHANGED <<stored, pc>> PROVE Stays(d)
  BY <1>u DEF Stays
<1>o. ASSUME NEW c \in Calls \ {d}, NEW label, Goto(c, label), UNCHANGED stored PROVE Stays(d)
  BY <1>0, <1>o, GotoAt DEF Stays
<1>p. ASSUME NEW c \in Calls \ {d}, NEW label, Goto(c, label),
             NEW s \in Stores, NEW status, Put(s, c, status) PROVE Stays(d)
  BY <1>0, <1>p, GotoAt, PutAt DEF Stays
<1>s. ASSUME NEW c \in Calls \ {d}, NEW m, NEW label, SaveProposal(c, m, label) PROVE Stays(d)
  <2>1. CASE redis
    BY <1>o, <1>s, <2>1 DEF SaveProposal
  <2>2. CASE ~redis
    BY <1>0, <1>p, <1>s, <2>2 DEF SaveProposal, Saved
  <2>. QED
    BY <2>1, <2>2
<1>3. ASSUME NEW c \in Calls, Progress(c) PROVE Stays(d)
  <2>1. CASE SaveLands(c)
    <3>1. c # d
      BY <1>1, <1>2, <2>1 DEF SaveLands
    <3>. QED
      BY <1>0, <1>p, <2>1, <3>1 DEF SaveLands, Saved
  <2>2. CASE SaveFails(c)
    <3>1. c # d
      BY <1>1, <1>2, <2>2 DEF SaveFails
    <3>. QED
      BY <1>0, <1>p, <2>2, <3>1 DEF SaveFails, Saved
  <2>3. CASE AnalysisEnds(c)
    BY <1>u, <2>3 DEF AnalysisEnds
  <2>4. CASE \/ StartGraph(c) \/ GatherReturns(c) \/ GraphReturns(c) \/ GraphRaises(c)
             \/ StreamStarts(c) \/ SearchEnds(c) \/ AnalyseReturns(c) \/ Composed(c)
             \/ ComposeFails(c)
    <3>1. pc[c] \in Working \union Stages
      BY <2>4 DEF StartGraph, GatherReturns, GraphReturns, GraphRaises, StreamStarts,
                  SearchEnds, AnalyseReturns, Composed, ComposeFails, Working, Stages
    <3>2. c # d
      BY <1>1, <1>2, <3>1
    <3>3. \/ UNCHANGED stored /\ \E label \in Stages \union Working \union Ended : Goto(c, label)
          \/ \E m \in Modes, label \in Saving : SaveProposal(c, m, label)
      <4>1. CASE GraphReturns(c) \/ GraphRaises(c) \/ Composed(c)
        BY <4>1 DEF GraphReturns, GraphRaises, Composed, Saving, Ended, Modes, TypeOK
      <4>2. CASE ~(GraphReturns(c) \/ GraphRaises(c) \/ Composed(c))
        BY <2>4, <4>2 DEF StartGraph, GatherReturns, StreamStarts, SearchEnds,
                          AnalyseReturns, ComposeFails, Working, Stages, Ended
      <4>. QED
        BY <4>1, <4>2
    <3>. QED
      BY <1>o, <1>s, <3>2, <3>3
  <2>. QED
    BY <1>3, <2>1, <2>2, <2>3, <2>4 DEF Progress
<1>4. ASSUME NEW c \in Calls, NEW m \in Modes, Begin(c, m) PROVE Stays(d)
  <2>1. c # d
    BY <1>1, <1>4 DEF Begin
  <2>2. CASE m = "async"
    BY <1>s, <1>4, <2>1, <2>2 DEF Begin
  <2>3. CASE m # "async"
    BY <1>o, <1>4, <2>1, <2>3 DEF Begin
  <2>. QED
    BY <2>2, <2>3
<1>5. ASSUME NEW c \in Calls, BeginFails(c) PROVE Stays(d)
  <2>1. c # d
    BY <1>1, <1>5 DEF BeginFails
  <2>. QED
    BY <1>o, <1>5, <2>1 DEF BeginFails
<1>6. ASSUME NEW c \in Calls, Disconnect(c) PROVE Stays(d)
  <2>1. c # d
    BY <1>1, <1>6 DEF Disconnect
  <2>. QED
    BY <1>0, <1>o, <1>p, <1>6, <2>1 DEF Disconnect
<1>7. ASSUME NEW c \in Calls, Expire(c) PROVE Stays(d)
  <2>1. Put("redis", c, "none") /\ pc' = pc
    BY <1>7 DEF Expire
  <2>. QED
    BY <1>0, <2>1, PutAt DEF Stays
<1>8. ASSUME NEW q \in Clients, ClientStep(q) PROVE Stays(d)
  BY <1>u, <1>8 DEF ClientStep, GetProposal, GetLands, GetFails
<1>9. CASE UNCHANGED vars
  BY <1>u, <1>9 DEF vars
<1>. QED
  BY <1>3, <1>4, <1>5, <1>6, <1>7, <1>8, <1>9 DEF Next

\* The process does not turn back to Redis, and then no client waits for it.
LEMMA TurnedStays ==
  ASSUME TypeOK, [Next]_vars, ~Restart, ~redis
  PROVE  /\ ~redis'
         /\ \A q \in Clients : asked[q] = Nobody => asked'[q] = Nobody
<1>1. ASSUME NEW c \in Calls, Progress(c) PROVE ~redis' /\ asked' = asked
  BY <1>1 DEF Progress, SaveLands, SaveFails, StartGraph, AnalysisEnds, GatherReturns,
              GraphReturns, GraphRaises, StreamStarts, SearchEnds, AnalyseReturns,
              Composed, ComposeFails, TurnToMemory, client
<1>2. ASSUME NEW c \in Calls,
             BeginFails(c) \/ Disconnect(c) \/ Expire(c) \/ \E m \in Modes : Begin(c, m)
      PROVE  ~redis' /\ asked' = asked
  BY <1>2 DEF Begin, BeginFails, Disconnect, Expire, client
<1>3. ASSUME NEW p \in Clients, ClientStep(p), NEW q \in Clients
      PROVE  ~redis' /\ (asked[q] = Nobody => asked'[q] = Nobody)
  <2>1. ASSUME NEW c \in Calls, GetProposal(p, c) PROVE ~redis' /\ asked' = asked
    BY <2>1 DEF GetProposal
  <2>2. CASE GetLands(p) \/ GetFails(p)
    BY <2>2 DEF GetLands, GetFails, TurnToMemory, TypeOK
  <2>. QED
    BY <1>3, <2>1, <2>2 DEF ClientStep
<1>4. CASE UNCHANGED vars
  BY <1>4 DEF vars, client
<1>5. ASSUME NEW p \in Clients, ClientStep(p) PROVE ~redis'
  BY <1>3, <1>5
<1>. QED
  BY <1>1, <1>2, <1>3, <1>4, <1>5 DEF Next

LEMMA ToldKept ==
  ASSUME TypeOK, [Next]_vars, ~Restart, NEW q \in Clients, NEW c \in Calls, ToldInv(q, c),
         told'[q][c] = told[q][c]
  PROVE  ToldInv(q, c)'
<1>. SUFFICES ASSUME told[q][c] \in Final PROVE ToldInv(q, c)'
  BY DEF ToldInv
<1>1. Stays(c)
  BY EndedStays DEF ToldInv
<1>2. CASE stored["redis"][c] \in {told[q][c], "none"}
  BY <1>1, <1>2 DEF ToldInv, Stays
<1>3. CASE ~redis /\ asked[q] = Nobody
  <2>1. ~redis' /\ asked'[q] = Nobody
    BY <1>3, TurnedStays
  <2>. QED
    BY <1>1, <2>1 DEF ToldInv, Stays
<1>. QED
  BY <1>2, <1>3 DEF ToldInv

\* The statuses a client may be told next agree with the outcome it knows.
LEMMA TellFinal ==
  ASSUME TypeOK, NEW q \in Clients, NEW c \in Calls, NEW status, Tell(q, c, status)
  PROVE  /\ told'[q][c] = IF status = "none" THEN told[q][c] ELSE status
         /\ \A p \in Clients, d \in Calls :
              p # q \/ d # c => told'[p][d] = told[p][d]
BY DEF TypeOK, Tell

\* What a step makes of what clients were told.
Learns(q, c) ==
  \/ told'[q][c] = told[q][c]
  \/ /\ told'[q][c] = stored["memory"][c] /\ ~redis'
     /\ asked'[q] = Nobody /\ stored' = stored /\ pc' = pc
  \/ /\ told'[q][c] = stored["redis"][c] /\ asked[q] = c
     /\ stored' = stored /\ pc' = pc

LEMMA Learning ==
  ASSUME TypeOK, [Next]_vars, ~Restart, NEW q \in Clients, NEW c \in Calls
  PROVE  Learns(q, c)
<1>0. "redis" \in Stores /\ "memory" \in Stores
  BY DEF Stores
<1>1. ASSUME NEW d \in Calls, Progress(d) PROVE told' = told
  BY <1>1 DEF Progress, SaveLands, SaveFails, StartGraph, AnalysisEnds, GatherReturns,
              GraphReturns, GraphRaises, StreamStarts, SearchEnds, AnalyseReturns,
              Composed, ComposeFails, client
<1>2. ASSUME NEW d \in Calls,
             BeginFails(d) \/ Disconnect(d) \/ Expire(d) \/ \E m \in Modes : Begin(d, m)
      PROVE  told' = told
  BY <1>2 DEF Begin, BeginFails, Disconnect, Expire, client
<1>3. ASSUME NEW p \in Clients, ClientStep(p) PROVE Learns(q, c)
  <2>1. ASSUME NEW d \in Calls, GetProposal(p, d) PROVE Learns(q, c)
    <3>1. CASE redis
      BY <2>1, <3>1 DEF GetProposal, Learns
    <3>2. CASE ~redis
      <4>1. /\ Tell(p, d, stored["memory"][d]) /\ asked[p] = Nobody
            /\ UNCHANGED <<redis, stored, pc, asked>>
        BY <2>1, <3>2 DEF GetProposal
      <4>2. /\ told'[p][d] = IF stored["memory"][d] = "none" THEN told[p][d]
                             ELSE stored["memory"][d]
            /\ p # q \/ d # c => told'[q][c] = told[q][c]
        BY <4>1, TellFinal
      <4>. QED
        BY <3>2, <4>1, <4>2 DEF Learns
    <3>. QED
      BY <3>1, <3>2
  <2>2. CASE GetLands(p)
    <3>1. /\ Tell(p, asked[p], stored["redis"][asked[p]]) /\ asked[p] \in Calls
          /\ UNCHANGED <<stored, pc>>
      BY <2>2 DEF GetLands, TypeOK
    <3>2. /\ told'[p][asked[p]] = IF stored["redis"][asked[p]] = "none" THEN told[p][asked[p]]
                                  ELSE stored["redis"][asked[p]]
          /\ p # q \/ asked[p] # c => told'[q][c] = told[q][c]
      BY <3>1, TellFinal
    <3>. QED
      BY <3>1, <3>2 DEF Learns
  <2>3. CASE GetFails(p)
    <3>1. /\ Tell(p, asked[p], stored["memory"][asked[p]]) /\ asked[p] \in Calls
          /\ redis' = FALSE /\ UNCHANGED <<stored, pc>>
          /\ asked'[p] = Nobody
      BY <2>3 DEF GetFails, TurnToMemory, TypeOK
    <3>2. /\ told'[p][asked[p]] = IF stored["memory"][asked[p]] = "none" THEN told[p][asked[p]]
                                  ELSE stored["memory"][asked[p]]
          /\ p # q \/ asked[p] # c => told'[q][c] = told[q][c]
      BY <3>1, TellFinal
    <3>. QED
      BY <3>1, <3>2 DEF Learns
  <2>. QED
    BY <1>3, <2>1, <2>2, <2>3 DEF ClientStep
<1>4. CASE UNCHANGED vars
  BY <1>4 DEF vars, client, Learns
<1>. QED
  BY <1>1, <1>2, <1>3, <1>4 DEF Next, Learns

LEMMA OutcomeInit == Init => OutcomeInv
<1>. SUFFICES ASSUME Init, NEW q \in Clients, NEW c \in Calls PROVE ToldInv(q, c)
  BY DEF OutcomeInv
<1>1. told[q][c] = "none"
  BY DEF Init, NothingIn
<1>. QED
  BY <1>1 DEF ToldInv, Final

LEMMA RestartForgets ==
  ASSUME Restart, NEW q \in Clients, NEW c \in Calls
  PROVE  told'[q][c] = "none"
BY DEF Restart, NothingIn

LEMMA OutcomeStep == TypeOK /\ StoreInv /\ OutcomeInv /\ [Next]_vars => OutcomeInv'
<1>. SUFFICES ASSUME TypeOK, StoreInv, OutcomeInv, [Next]_vars,
                     NEW q \in Clients, NEW c \in Calls
              PROVE  ToldInv(q, c)'
  BY DEF OutcomeInv
<1>1. CASE Restart
  BY <1>1, RestartForgets DEF ToldInv, Final
<1>2. CASE ~Restart
  <2>0. CallInv(c) /\ ToldInv(q, c)
    BY DEF StoreInv, OutcomeInv
  <2>1. CASE told'[q][c] = told[q][c]
    BY <1>2, <2>0, <2>1, ToldKept
  <2>2. CASE /\ told'[q][c] = stored["memory"][c] /\ ~redis'
             /\ asked'[q] = Nobody /\ stored' = stored /\ pc' = pc
    BY <2>0, <2>2 DEF CallInv, ToldInv
  <2>3. CASE told'[q][c] = stored["redis"][c] /\ stored' = stored /\ pc' = pc
    BY <2>0, <2>3 DEF CallInv, ToldInv
  <2>. QED
    BY <1>2, <2>1, <2>2, <2>3, Learning DEF Learns
<1>. QED
  BY <1>1, <1>2

\* OutcomeIsFinal holds: in one process no client is told two different ends of
\* one analysis, or an end and then that it is still processing.
THEOREM OutcomesFinal == Spec => OutcomeIsFinal
<1>1. Init => OutcomeInv
  BY OutcomeInit
<1>2. TypeOK /\ StoreInv /\ OutcomeInv /\ [Next]_vars => OutcomeInv'
  BY OutcomeStep
<1>3. ASSUME TypeOK, OutcomeInv, [Next]_vars, NEW q \in Clients, NEW c \in Calls,
             told[q][c] \in Final
      PROVE  told'[q][c] \in {told[q][c], "none"}
  <2>0. ToldInv(q, c) /\ c # Nobody
    BY <1>3, ConstantsAssumption DEF OutcomeInv
  <2>1. CASE Restart
    BY <2>1, RestartForgets
  <2>2. CASE ~Restart
    <3>1. Learns(q, c)
      BY <1>3, <2>2, Learning
    <3>. QED
      BY <1>3, <2>0, <3>1 DEF Learns, ToldInv
  <2>. QED
    BY <2>1, <2>2
<1>4. TypeOK /\ OutcomeInv /\ [Next]_vars =>
        [\A q \in Clients, c \in Calls :
           told[q][c] \in Final => told'[q][c] \in {told[q][c], "none"}]_vars
  BY <1>3
<1>. QED
  BY <1>1, <1>2, <1>4, Invariance, PTL DEF Spec, OutcomeIsFinal

-----------------------------------------------------------------------------
(* What the liveness of an analysis rests on: it only gets nearer to its     *)
(* end, and until then there is a step that takes it on.                     *)

\* Steps a call has before it, at most, where it stands; its analysis counts
\* one, also when the call has gone away and left it running.
Ahead(label) ==
  CASE label = "placeholder" -> 8
    [] label = "started" -> 7
    [] label = "queued" -> 6
    [] label = "searching" -> 4
    [] label \in {"parallel", "analyse"} -> 3
    [] label \in {"synthesize", "compose"} -> 2
    [] label \in {"saveDraft", "saveError"} -> 1
    [] OTHER -> 0
StepsLeft(c) == Ahead(pc[c]) + (IF analysis[c] = "running" THEN 1 ELSE 0)

\* No step of a client, of another analysis or of a store that fails takes an
\* analysis back, and each of its own takes it on.
AnalysesAdvance ==
  [][\A c \in Calls : pc[c] # "new" =>
       /\ StepsLeft(c)' <= StepsLeft(c)
       /\ Progress(c) => StepsLeft(c)' < StepsLeft(c)]_vars

\* The guard of one of its actions holds.
CanProgress(c) ==
  \/ pc[c] \in Saving \union {"queued", "started", "searching", "compose"}
  \/ analysis[c] = "running"
  \/ pc[c] \in {"parallel", "analyse"} /\ analysis[c] # "running"
  \/ pc[c] = "synthesize" /\ analysis[c] \in {"ok", "failed"}

\* An analysis that is under way can go on, whatever became of the store.
NoDeadEnd == \A c \in Calls : pc[c] \in Running => CanProgress(c)

\* The graph goes past its first node only with the outcome of an analysis.
HasOutcome(c) ==
  /\ pc[c] = "parallel" => analysis[c] # "none"
  /\ pc[c] = "synthesize" => analysis[c] \in {"ok", "failed"}

LEMMA AheadOfLabels ==
  /\ Ahead("placeholder") = 8 /\ Ahead("started") = 7 /\ Ahead("queued") = 6
  /\ Ahead("searching") = 4 /\ Ahead("parallel") = 3 /\ Ahead("analyse") = 3
  /\ Ahead("synthesize") = 2 /\ Ahead("compose") = 2
  /\ Ahead("saveDraft") = 1 /\ Ahead("saveError") = 1
  /\ Ahead("done") = 0 /\ Ahead("over") = 0 /\ Ahead("cut") = 0 /\ Ahead("new") = 0
BY DEF Ahead

LEMMA AheadNat == \A label : Ahead(label) \in Nat
BY DEF Ahead

\* Where save_proposal takes a call that is ahead of saving
LEMMA SaveProposalNear ==
  ASSUME TypeOK, NEW c \in Calls, NEW m, NEW label \in Saving, SaveProposal(c, m, label)
  PROVE  /\ pc'[c] \in {label, AfterSave(label)}
         /\ \A d \in Calls \ {c} : pc'[d] = pc[d]
<1>1. CASE redis
  BY <1>1, GotoAt DEF SaveProposal
<1>2. CASE ~redis
  BY <1>2, GotoAt DEF SaveProposal, Saved
<1>. QED
  BY <1>1, <1>2

\* Each step of an analysis takes it on and leaves the others where they are.
LEMMA ProgressAdvances ==
  ASSUME TypeOK, NEW c \in Calls, Progress(c)
  PROVE  /\ StepsLeft(c)' < StepsLeft(c)
         /\ \A d \in Calls \ {c} : pc'[d] = pc[d] /\ analysis'[d] = analysis[d]
<1> DEFINE Near == StepsLeft(c)' < StepsLeft(c)
           Alone == \A d \in Calls \ {c} : pc'[d] = pc[d] /\ analysis'[d] = analysis[d]
<1>0. Ahead(pc[c]) \in Nat /\ Ahead(pc'[c]) \in Nat
  BY AheadNat
<1>1. ASSUME Ahead(pc'[c]) < Ahead(pc[c]), analysis'[c] = analysis[c] PROVE Near
  BY <1>0, <1>1 DEF StepsLeft
<1>2. ASSUME Ahead(pc'[c]) + 1 < Ahead(pc[c]) PROVE Near
  BY <1>0, <1>2 DEF StepsLeft
<1>3. CASE SaveLands(c) \/ SaveFails(c)
  <2>1. /\ pc[c] \in Saving /\ Goto(c, AfterSave(pc[c])) /\ analysis' = analysis
    BY <1>3 DEF SaveLands, SaveFails, Saved
  <2>2. pc'[c] = AfterSave(pc[c]) /\ \A d \in Calls \ {c} : pc'[d] = pc[d]
    BY <2>1, GotoAt
  <2>3. Ahead(pc'[c]) < Ahead(pc[c])
    BY <2>1, <2>2, AheadOfLabels DEF Saving, AfterSave
  <2>. QED
    BY <1>1, <2>1, <2>2, <2>3
<1>4. CASE StartGraph(c) \/ StreamStarts(c)
  <2>1. /\ \/ pc[c] = "queued" /\ pc'[c] = "parallel"
           \/ pc[c] = "started" /\ pc'[c] \in {"searching", "analyse"}
        /\ \A d \in Calls \ {c} : pc'[d] = pc[d]
    BY <1>4, GotoAt DEF StartGraph, StreamStarts
  <2>2. Ahead(pc'[c]) + 1 < Ahead(pc[c])
    BY <2>1, AheadOfLabels
  <2>3. \A d \in Calls \ {c} : analysis'[d] = analysis[d]
    BY <1>4 DEF StartGraph, StreamStarts, TypeOK
  <2>. QED
    BY <1>2, <2>1, <2>2, <2>3
<1>5. CASE AnalysisEnds(c)
  <2>1. /\ analysis[c] = "running" /\ analysis'[c] \in {"ok", "failed"} /\ pc' = pc
        /\ \A d \in Calls \ {c} : analysis'[d] = analysis[d]
    BY <1>5 DEF AnalysisEnds, TypeOK
  <2>2. Near
    BY <1>0, <2>1 DEF StepsLeft
  <2>. QED
    BY <2>1, <2>2
<1>6. CASE \/ GatherReturns(c) \/ SearchEnds(c) \/ AnalyseReturns(c) \/ ComposeFails(c)
  <2>1. /\ \/ pc[c] = "parallel" /\ pc'[c] = "synthesize"
           \/ pc[c] = "searching" /\ pc'[c] = "analyse"
           \/ pc[c] = "analyse" /\ pc'[c] = "compose"
           \/ pc[c] = "compose" /\ pc'[c] = "over"
        /\ \A d \in Calls \ {c} : pc'[d] = pc[d]
        /\ analysis' = analysis
    BY <1>6, GotoAt DEF GatherReturns, SearchEnds, AnalyseReturns, ComposeFails
  <2>2. Ahead(pc'[c]) < Ahead(pc[c])
    BY <2>1, AheadOfLabels
  <2>. QED
    BY <1>1, <2>1, <2>2
<1>7. CASE GraphReturns(c) \/ GraphRaises(c) \/ Composed(c)
  <2>1. pc[c] \in {"synthesize", "compose"} /\ analysis' = analysis
    BY <1>7 DEF GraphReturns, GraphRaises, Composed
  <2>2. /\ pc'[c] \in {"saveDraft", "saveError", "done", "over"}
        /\ \A d \in Calls \ {c} : pc'[d] = pc[d]
    <3>1. ASSUME NEW label \in {"saveDraft", "saveError"}, NEW m, SaveProposal(c, m, label)
          PROVE  /\ pc'[c] \in {label, "done"}
                 /\ \A d \in Calls \ {c} : pc'[d] = pc[d]
      <4>1. label \in Saving /\ AfterSave(label) = "done"
        BY DEF Saving, AfterSave
      <4>. QED
        BY <3>1, <4>1, SaveProposalNear
    <3>. QED
      BY <1>7, <3>1, GotoAt DEF GraphReturns, GraphRaises, Composed
  <2>3. Ahead(pc'[c]) < Ahead(pc[c])
    BY <2>1, <2>2, AheadOfLabels
  <2>. QED
    BY <1>1, <2>1, <2>2, <2>3
<1>. QED
  BY <1>3, <1>4, <1>5, <1>6, <1>7 DEF Progress

\* An analysis only gets nearer to its end: the safety half of
\* EveryAnalysisEnds, with NoAnalysisStuck.
THEOREM AnalysesGetNearer == Spec => AnalysesAdvance
<1>1. ASSUME TypeOK, [Next]_vars, NEW d \in Calls, pc[d] # "new"
      PROVE  StepsLeft(d)' <= StepsLeft(d)
  <2>0. StepsLeft(d) \in Nat /\ StepsLeft(d)' \in Nat
    BY AheadNat DEF StepsLeft
  <2>s. pc'[d] = pc[d] /\ analysis'[d] = analysis[d] => StepsLeft(d)' <= StepsLeft(d)
    BY <2>0 DEF StepsLeft
  <2>1. ASSUME NEW c \in Calls, Progress(c) PROVE StepsLeft(d)' <= StepsLeft(d)
    <3>1. CASE c = d
      BY <1>1, <2>0, <2>1, <3>1, ProgressAdvances
    <3>2. CASE c # d
      BY <1>1, <2>1, <2>s, <3>2, ProgressAdvances
    <3>. QED
      BY <3>1, <3>2
  <2>2. ASSUME NEW c \in Calls, NEW m \in Modes, Begin(c, m)
        PROVE  StepsLeft(d)' <= StepsLeft(d)
    <3>1. c # d /\ "placeholder" \in Saving
      BY <1>1, <2>2 DEF Begin, Saving
    <3>2. pc'[d] = pc[d] /\ analysis' = analysis
      BY <1>1, <2>2, <3>1, GotoAt, SaveProposalNear DEF Begin
    <3>. QED
      BY <2>s, <3>2
  <2>3. ASSUME NEW c \in Calls, BeginFails(c) PROVE StepsLeft(d)' <= StepsLeft(d)
    BY <1>1, <2>3, <2>s, GotoAt DEF BeginFails
  <2>4. ASSUME NEW c \in Calls, Disconnect(c) PROVE StepsLeft(d)' <= StepsLeft(d)
    <3>1. CASE c = d
      <4>1. pc'[d] = "over" /\ analysis'[d] \in {"none", analysis[d]}
        BY <1>1, <2>4, <3>1, GotoAt DEF Disconnect, TypeOK
      <4>2. Ahead(pc'[d]) = 0 /\ Ahead(pc[d]) \in Nat
        BY <4>1, AheadOfLabels, AheadNat
      <4>. QED
        BY <4>1, <4>2 DEF StepsLeft
    <3>2. CASE c # d
      <4>1. pc'[d] = pc[d] /\ analysis'[d] = analysis[d]
        BY <1>1, <2>4, <3>2, GotoAt DEF Disconnect, TypeOK
      <4>. QED
        BY <4>1, <2>s
    <3>. QED
      BY <3>1, <3>2
  <2>5. ASSUME NEW c \in Calls, Expire(c) PROVE StepsLeft(d)' <= StepsLeft(d)
    BY <2>5, <2>s DEF Expire
  <2>6. ASSUME NEW q \in Clients, ClientStep(q) PROVE StepsLeft(d)' <= StepsLeft(d)
    BY <2>6, <2>s DEF ClientStep, GetProposal, GetLands, GetFails
  <2>7. CASE Restart
    <3>1. pc'[d] = "cut" /\ analysis'[d] = "none"
      BY <1>1, <2>7 DEF Restart
    <3>2. StepsLeft(d)' = 0
      BY <3>1, AheadOfLabels DEF StepsLeft
    <3>. QED
      BY <2>0, <3>2
  <2>8. CASE UNCHANGED vars
    BY <2>8, <2>s DEF vars
  <2>. QED
    BY <1>1, <2>1, <2>2, <2>3, <2>4, <2>5, <2>6, <2>7, <2>8 DEF Next
<1>2. TypeOK /\ [Next]_vars =>
        \A c \in Calls : pc[c] # "new" =>
          /\ StepsLeft(c)' <= StepsLeft(c)
          /\ Progress(c) => StepsLeft(c)' < StepsLeft(c)
  BY <1>1, ProgressAdvances
<1>. QED
  BY <1>2, TypeCorrect, PTL DEF AnalysesAdvance, Spec

\* No analysis stands where none of its steps is possible.
THEOREM NoAnalysisStuck == Spec => []NoDeadEnd
<1> DEFINE Sound == \A c \in Calls : HasOutcome(c)
<1>1. Init => Sound
  BY DEF Init, HasOutcome
<1>2. ASSUME TypeOK, Sound, [Next]_vars, NEW d \in Calls
      PROVE  HasOutcome(d)'
  <2>0. HasOutcome(d) /\ analysis[d] \in {"none", "running", "ok", "failed"}
    BY <1>2 DEF TypeOK
  <2>s. pc'[d] = pc[d] /\ analysis'[d] = analysis[d] => HasOutcome(d)'
    BY <2>0 DEF HasOutcome
  <2>m. pc'[d] \notin {"parallel", "synthesize"} => HasOutcome(d)'
    BY DEF HasOutcome
  <2>p. ASSUME NEW m, NEW label \in Saving, SaveProposal(d, m, label)
        PROVE  HasOutcome(d)'
    <3>1. pc'[d] \in {label, AfterSave(label)}
      BY <1>2, <2>p, SaveProposalNear
    <3>2. pc'[d] \notin {"parallel", "synthesize"}
      BY <3>1 DEF Saving, AfterSave
    <3>. QED
      BY <2>m, <3>2
  <2>1. ASSUME Progress(d) PROVE HasOutcome(d)'
    <3>1. CASE SaveLands(d) \/ SaveFails(d)
      <4>1. pc[d] \in Saving /\ pc'[d] = AfterSave(pc[d])
        BY <1>2, <3>1, GotoAt DEF SaveLands, SaveFails, Saved
      <4>. QED
        BY <2>m, <4>1 DEF Saving, AfterSave
    <3>2. CASE StartGraph(d)
      <4>1. pc'[d] = "parallel" /\ analysis'[d] = "running"
        BY <1>2, <3>2, GotoAt DEF StartGraph, TypeOK
      <4>. QED
        BY <4>1 DEF HasOutcome
    <3>3. CASE AnalysisEnds(d)
      <4>1. pc' = pc /\ analysis'[d] \in {"ok", "failed"}
        BY <1>2, <3>3 DEF AnalysisEnds, TypeOK
      <4>. QED
        BY <2>0, <4>1 DEF HasOutcome
    <3>4. CASE GatherReturns(d)
      <4>1. pc[d] = "parallel" /\ analysis[d] # "running" /\ pc'[d] = "synthesize"
            /\ analysis'[d] = analysis[d]
        BY <1>2, <3>4, GotoAt DEF GatherReturns
      <4>. QED
        BY <2>0, <4>1 DEF HasOutcome
    <3>5. CASE SearchEnds(d) \/ AnalyseReturns(d) \/ ComposeFails(d) \/ StreamStarts(d)
      <4>1. pc'[d] \in {"searching", "analyse", "compose", "over"}
        BY <1>2, <3>5, GotoAt DEF SearchEnds, AnalyseReturns, ComposeFails, StreamStarts
      <4>. QED
        BY <2>m, <4>1
    <3>6. CASE GraphReturns(d) \/ GraphRaises(d) \/ Composed(d)
      <4>1. \/ pc'[d] \in {"done", "over"}
            \/ \E label \in {"saveDraft", "saveError"}, m \in Modes : SaveProposal(d, m, label)
        BY <1>2, <3>6, GotoAt DEF GraphReturns, GraphRaises, Composed, TypeOK, Modes
      <4>. QED
        BY <2>m, <2>p, <4>1 DEF Saving
    <3>. QED
      BY <2>1, <3>1, <3>2, <3>3, <3>4, <3>5, <3>6 DEF Progress
  <2>2. ASSUME NEW c \in Calls, Progress(c) PROVE HasOutcome(d)'
    BY <1>2, <2>1, <2>2, <2>s, ProgressAdvances
  <2>3. ASSUME NEW c \in Calls, NEW m \in Modes, Begin(c, m) PROVE HasOutcome(d)'
    <3>0. "placeholder" \in Saving
      BY DEF Saving
    <3>1. CASE c = d
      <4>1. CASE m = "async"
        BY <2>3, <2>p, <3>0, <3>1, <4>1 DEF Begin
      <4>2. CASE m # "async"
        <5>1. pc'[d] \in {"started", "queued"}
          BY <1>2, <2>3, <3>1, <4>2, GotoAt DEF Begin
        <5>. QED
          BY <2>m, <5>1
      <4>. QED
        BY <4>1, <4>2
    <3>2. CASE c # d
      <4>1. pc'[d] = pc[d] /\ analysis' = analysis
        BY <1>2, <2>3, <3>0, <3>2, GotoAt, SaveProposalNear DEF Begin
      <4>. QED
        BY <2>s, <4>1
    <3>. QED
      BY <3>1, <3>2
  <2>4. ASSUME NEW c \in Calls, BeginFails(c) PROVE HasOutcome(d)'
    <3>1. pc'[d] \in {pc[d], "over"} /\ analysis' = analysis
      BY <1>2, <2>4, GotoAt DEF BeginFails
    <3>. QED
      BY <2>m, <2>s, <3>1
  <2>5. ASSUME NEW c \in Calls, Disconnect(c) PROVE HasOutcome(d)'
    <3>1. CASE c = d
      <4>1. pc'[d] = "over"
        BY <1>2, <2>5, <3>1, GotoAt DEF Disconnect
      <4>. QED
        BY <2>m, <4>1
    <3>2. CASE c # d
      <4>1. pc'[d] = pc[d] /\ analysis'[d] = analysis[d]
        BY <1>2, <2>5, <3>2, GotoAt DEF Disconnect, TypeOK
      <4>. QED
        BY <2>s, <4>1
    <3>. QED
      BY <3>1, <3>2
  <2>6. ASSUME NEW c \in Calls, Expire(c) PROVE HasOutcome(d)'
    BY <2>6, <2>s DEF Expire
  <2>7. ASSUME NEW q \in Clients, ClientStep(q) PROVE HasOutcome(d)'
    BY <2>7, <2>s DEF ClientStep, GetProposal, GetLands, GetFails
  <2>8. CASE Restart
    <3>1. pc'[d] \in {"new", "cut"}
      BY <2>8 DEF Restart
    <3>. QED
      BY <2>m, <3>1
  <2>9. CASE UNCHANGED vars
    BY <2>9, <2>s DEF vars
  <2>. QED
    BY <1>2, <2>2, <2>3, <2>4, <2>5, <2>6, <2>7, <2>8, <2>9 DEF Next
<1>3. TypeOK /\ Sound /\ [Next]_vars => Sound'
  BY <1>2
<1>4. TypeOK /\ Sound => NoDeadEnd
  BY DEF TypeOK, HasOutcome, NoDeadEnd, CanProgress, Running, Working, Stages
<1> HIDE DEF Sound
<1>. QED
  BY <1>1, <1>3, <1>4, TypeCorrect, PTL DEF Spec
=============================================================================
