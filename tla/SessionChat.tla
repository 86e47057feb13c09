----------------------------- MODULE SessionChat -----------------------------
(***************************************************************************)
(* One chat session: the requests of ChatUsecase (app/services/            *)
(* chat_usecase.py) and of agent_chat that name it and the record that     *)
(* SessionRepository (app/services/session_repository.py) keeps of it, in  *)
(* Redis or in the memory of the process.                                  *)
(*                                                                         *)
(* A coroutine gives way to others only where it really waits: for the     *)
(* answer of a handler, for the consumer of a stream and for Redis.  The   *)
(* coroutines of the in-memory repository never wait.                      *)
(***************************************************************************)
EXTENDS Naturals, Sequences

CONSTANTS
  Requests,   \* chat requests that name the session
  MaxTurns,   \* as in Conversation
  RedisUrl    \* BOOLEAN: settings.redis_url is set

ASSUME ConstantsAssumption == MaxTurns \in Nat \ {0} /\ RedisUrl \in BOOLEAN

VARIABLES
  repo,       \* the repository of the process: "redis" or "memory"
  stored,     \* per repository: the record of the session
  path,       \* per request: the way ChatUsecase takes it
  pc,         \* per request: its next step
  copy,       \* per request: the record it last read
  answered,   \* history, per repository: <<asker, answerer>> of clarifications
  turnNo,     \* history: place of a request's turn among all turns appended
  total       \* history: number of turns appended

vars == <<repo, stored, path, pc, copy, answered, turnNo, total>>
history == <<answered, turnNo, total>>

Repos == {"redis", "memory"}

\* common:      handle_legacy_chat by the common handler, or with a tenant
\* multi:       handle_multitenant_chat
\* ticket, pipeline: handle_legacy_chat by the ticket handler, the pipeline
\* stream:      stream_legacy_chat
\* streamMulti: stream_multitenant_chat
\* agent:       agent_chat of app/api/routes/agents.py
Paths == {"common", "multi", "ticket", "pipeline", "stream", "streamMulti", "agent"}
Creating == {"common", "ticket", "pipeline", "stream"}
Clearing == {"ticket", "pipeline"}
Asking == Clearing \union {"agent"}
Streaming == {"stream", "streamMulti"}

Reads == {"readForAnalysis", "readForQuestion", "readForTurn"}
Writes == {"create", "clear", "analysis", "question", "turn"}
Waits == {"new", "answer", "forward", "yielded", "over"}

\* The record: conversationHistory (a pair of entries is one turn),
\* questionHistory and clarificationState, as the request that asked.
Fresh == [live |-> TRUE, turns |-> <<>>, questions |-> <<>>, clarification |-> {}]
Absent == [live |-> FALSE, turns |-> <<>>, questions |-> <<>>, clarification |-> {}]

Record == [live : BOOLEAN, turns : Seq(Requests), questions : Seq(Requests),
           clarification : SUBSET Requests]

TypeOK ==
  /\ repo \in Repos
  /\ stored \in [Repos -> Record]
  /\ \A p \in Repos : Len(stored[p].turns) <= MaxTurns
  /\ path \in [Requests -> Paths]
  /\ pc \in [Requests -> Reads \union Writes \union Waits]
  /\ copy \in [Requests -> Record]
  /\ answered \in [Repos -> SUBSET (Requests \X Requests)]
  /\ turnNo \in [Requests -> Nat]
  /\ total \in Nat

\* get_session_repository: Redis when it is configured and answers a ping
Repositories == IF RedisUrl THEN Repos ELSE {"memory"}

Init ==
  /\ repo \in Repositories
  /\ stored = [p \in Repos |-> Absent]
  /\ path = [r \in Requests |-> "common"]
  /\ pc = [r \in Requests |-> "new"]
  /\ copy = [r \in Requests |-> Absent]
  /\ answered = [p \in Repos |-> {}]
  /\ turnNo = [r \in Requests |-> 0]
  /\ total = 0

-----------------------------------------------------------------------------
(* The steps of a request *)

\* In memory, r runs only while every other request waits.
MayRun(r) == repo = "memory" => \A q \in Requests \ {r} : pc[q] \in Waits

At(r, label) == pc[r] = label /\ MayRun(r)
Goto(r, label) == pc' = [pc EXCEPT ![r] = label]

\* the request is over, and what it has read is gone with it
Leave(r) == Goto(r, "over") /\ copy' = [copy EXCEPT ![r] = Absent]

\* request.clarification_option was sent and the session has a question open
Answers(k, option, session) == k \in Clearing /\ option /\ session.clarification # {}

AfterLoad_NotCleared(k, option, session) ==
  IF ~session.live /\ k \in Creating THEN "create" ELSE "answer"
AfterLoad(k, option, session) ==
  IF ~session.live /\ k \in Creating THEN "create"
  ELSE IF ~session.live /\ k = "agent" THEN "over"
  ELSE IF Answers(k, option, session) THEN "clear" ELSE "answer"

Load(r, k, option) ==
  LET session == stored[repo] IN
  /\ At(r, "new")
  /\ path' = [path EXCEPT ![r] = k]
  /\ copy' = [copy EXCEPT ![r] = session]
  /\ Goto(r, AfterLoad(k, option, session))
  /\ answered' = IF Answers(k, option, session)
                 THEN [answered EXCEPT ![repo] = @ \union (session.clarification \X {r})]
                 ELSE answered
  /\ UNCHANGED <<repo, stored, turnNo, total>>

\* SessionRepository.save
Save(record) == stored' = [stored EXCEPT ![repo] = record]

Create(r) ==
  /\ At(r, "create")
  /\ Save(Fresh)
  /\ Goto(r, "answer")
  /\ UNCHANGED <<repo, path, copy, history>>

ClearClarification(r) ==
  /\ At(r, "clear")
  /\ Save([copy[r] EXCEPT !.clarification = {}])
  /\ Goto(r, "answer")
  /\ UNCHANGED <<repo, path, copy, history>>

AfterAnswer(k) ==
  IF k \in Streaming THEN "yielded"
  ELSE IF k \in Asking THEN "readForAnalysis" ELSE "readForTurn"

\* the handler, or the analyzer of the pipeline's requests, has answered
Answer(r) ==
  /\ At(r, "answer")
  /\ Goto(r, AfterAnswer(path[r]))
  /\ UNCHANGED <<repo, stored, path, copy, history>>

\* the pipeline is called all the same
AnalyzerFails(r) ==
  /\ At(r, "answer") /\ path[r] = "pipeline"
  /\ Goto(r, "forward")
  /\ UNCHANGED <<repo, stored, path, copy, history>>

PipelineAnswers(r) ==
  /\ At(r, "forward")
  /\ Goto(r, "readForQuestion")
  /\ UNCHANGED <<repo, stored, path, copy, history>>

\* the consumer of the stream has taken the result and asks for the next event
Resume(r) ==
  /\ At(r, "yielded")
  /\ Goto(r, "readForTurn")
  /\ UNCHANGED <<repo, stored, path, copy, history>>

AfterRead(label) ==
  CASE label = "readForAnalysis" -> "analysis"
    [] label = "readForQuestion" -> "question"
    [] label = "readForTurn" -> "turn"

Read_AsLoaded(r) ==
  /\ \E label \in Reads : At(r, label) /\ Goto(r, AfterRead(label))
  /\ UNCHANGED <<repo, stored, path, copy, history>>
\* the get at the head of the three operations that change a record
Read(r) ==
  /\ \E label \in Reads : At(r, label) /\ Goto(r, AfterRead(label))
  /\ copy' = [copy EXCEPT ![r] = stored[repo]]
  /\ UNCHANGED <<repo, stored, path, history>>

\* ... and the save at their end, skipped when the get found no session
SaveRead(r, record) == IF copy[r].live THEN Save(record) ELSE UNCHANGED stored

AfterAnalysis(k) == IF k = "pipeline" THEN "forward" ELSE "readForQuestion"

\* record_analyzer_result, of a result that asks for clarification or not
RecordAnalysis(r, asks) ==
  /\ At(r, "analysis")
  /\ SaveRead(r, [copy[r] EXCEPT !.clarification = IF asks THEN {r} ELSE {}])
  /\ Goto(r, AfterAnalysis(path[r]))
  /\ UNCHANGED <<repo, path, copy, history>>

AppendQuestion(r) ==
  /\ At(r, "question")
  /\ SaveRead(r, [copy[r] EXCEPT !.questions = Append(@, r)])
  /\ Leave(r)
  /\ UNCHANGED <<repo, path, history>>

LastTurns_OffByOne(s) ==
  IF Len(s) > MaxTurns + 1 THEN SubSeq(s, Len(s) - MaxTurns + 1, Len(s)) ELSE s
LastTurns(s) ==
  IF Len(s) > MaxTurns THEN SubSeq(s, Len(s) - MaxTurns + 1, Len(s)) ELSE s

AppendTurn_Retried(r) ==
  /\ At(r, "turn") /\ copy[r].live
  /\ Save([copy[r] EXCEPT !.turns = LastTurns(Append(@, r))])
  /\ \/ Goto(r, "over")
     \/ repo = "redis" /\ Goto(r, "readForTurn")
  /\ turnNo' = [turnNo EXCEPT ![r] = total + 1] /\ total' = total + 1
  /\ UNCHANGED <<repo, path, copy, answered>>
AppendTurn(r) ==
  /\ At(r, "turn")
  /\ SaveRead(r, [copy[r] EXCEPT !.turns = LastTurns(Append(@, r))])
  /\ Leave(r)
  /\ IF copy[r].live
     THEN turnNo' = [turnNo EXCEPT ![r] = total + 1] /\ total' = total + 1
     ELSE UNCHANGED <<turnNo, total>>
  /\ UNCHANGED <<repo, path, answered>>

\* A handler raises, the consumer of a stream goes away, or Redis fails.
Fail(r) ==
  /\ \/ pc[r] \in {"answer", "forward", "yielded"}
     \/ repo = "redis" /\ pc[r] \in Reads \union Writes
  /\ MayRun(r)
  /\ Leave(r)
  /\ UNCHANGED <<repo, stored, path, history>>

-----------------------------------------------------------------------------
(* The session itself *)

\* POST /session, whose uuid no request can name before
CreateSession ==
  /\ \A r \in Requests : pc[r] = "new"
  /\ \A p \in Repos : ~stored[p].live
  /\ Save(Fresh)
  /\ UNCHANGED <<repo, path, pc, copy, history>>

\* The time to live runs out.  In memory a record that was just read has all
\* of it left.
Expire(p) ==
  /\ stored[p].live
  /\ p = "memory" => \A r \in Requests : pc[r] \in Waits
  /\ stored' = [stored EXCEPT ![p] = Absent]
  /\ UNCHANGED <<repo, path, pc, copy, history>>

\* The process ends, with its requests, and is started anew.
Restart ==
  /\ repo' \in Repositories
  /\ stored' = [stored EXCEPT !["memory"] = Absent]
  /\ pc' = [r \in Requests |-> IF pc[r] = "new" THEN "new" ELSE "over"]
  /\ copy' = [r \in Requests |-> Absent]
  /\ UNCHANGED <<path, history>>

Step(r) ==
  \/ \E k \in Paths, option \in BOOLEAN : Load(r, k, option)
  \/ Create(r)
  \/ ClearClarification(r)
  \/ Answer(r)
  \/ AnalyzerFails(r)
  \/ PipelineAnswers(r)
  \/ Resume(r)
  \/ Read(r)
  \/ \E asks \in BOOLEAN : RecordAnalysis(r, asks)
  \/ AppendQuestion(r)
  \/ AppendTurn(r)
  \/ Fail(r)

Next ==
  \/ \E r \in Requests : Step(r)
  \/ CreateSession
  \/ \E p \in Repos : Expire(p)
  \/ Restart

Spec == Init /\ [][Next]_vars

-----------------------------------------------------------------------------
(* Properties *)

InOrder(number, s) ==
  /\ \A i \in 1 .. Len(s) : number[s[i]] > 0
  /\ \A i, j \in 1 .. Len(s) : i < j => number[s[i]] < number[s[j]]

\* Whatever the requests of a session overwrite of each other in Redis, its
\* history tells turns in the order in which they were appended, each once.
HistoryInOrder == \A p \in Repos : InOrder(turnNo, stored[p].turns)

\* In memory ChatUsecase lets one request at most answer a clarification: the
\* one that reads it takes it away before any other can read it.
AnsweredOnce ==
  \A one, other \in answered["memory"] : one[1] = other[1] => one = other

\* The in-memory repository keeps what SessionRepository promises: no request
\* undoes what another request appended.
M == INSTANCE Conversation WITH
       turns <- stored["memory"].turns, questions <- stored["memory"].questions
MemoryConversation == M!Spec

\* README.md:34 and session_repository.py:39 promise the same of Redis.
R == INSTANCE Conversation WITH
       turns <- stored["redis"].turns, questions <- stored["redis"].questions
RedisConversation == R!Spec
=============================================================================
