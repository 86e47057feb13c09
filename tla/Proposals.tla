------------------------------ MODULE Proposals ------------------------------
(***************************************************************************)
(* The analyses of app/api/routes/assist.py, which leave a proposal in     *)
(* ProposalRepository (app/repositories/proposal_repository.py), and the   *)
(* clients that ask for it to see its status, to approve or to refine it.  *)
(*                                                                         *)
(* The repository uses Redis until an operation fails, and from then on    *)
(* the memory of the process.  An operation on Redis is under way until    *)
(* it lands or fails; one on memory never waits.                           *)
(***************************************************************************)
EXTENDS Naturals

CONSTANTS
  Calls,      \* analyses; a proposal goes by the name of its analysis
  Clients,    \* requests for a proposal, one at a time per client
  Nobody,     \* the proposal of a client that asks for none
  RedisUrl    \* BOOLEAN: settings.redis_url is set

ASSUME ConstantsAssumption == Nobody \notin Calls /\ RedisUrl \in BOOLEAN

VARIABLES
  redis,      \* ProposalRepository.redis is set
  stored,     \* per store and proposal: its status, or "none"
  mode,       \* per call: the endpoint and its options
  pc,         \* per call: where it stands
  analysis,   \* per call: its run of analyze_ticket
  asked,      \* per client: the proposal it waits for Redis to get
  told,       \* history, per client and proposal: the status it last got
  announced,  \* history: calls whose client was given a proposal
  hidden      \* history: proposals that cannot be found any more, and why

client == <<asked, told>>
vars == <<redis, stored, mode, pc, analysis, client, announced, hidden>>

Stores == {"redis", "memory"}
Repo == IF redis THEN "redis" ELSE "memory"

\* sync:   analyze_ticket without streaming
\* async:  analyze_ticket with asyncMode
\* agent:  run_agent_stream, the default of analyze_ticket
\* stream: run_progressive_stream, with all stages or for fields only
Modes == {"sync", "async", "agent", "stream"}
Streaming == {"agent", "stream"}

\* What the record says: a synchronous analysis saves no status at all.
Final == {"draft", "error"}
Status == {"none", "processing", "unset"} \union Final

Saving == {"placeholder", "saveDraft", "saveError"}
Working == {"queued", "parallel", "synthesize"}
Stages == {"started", "searching", "analyse", "compose"}
Running == Saving \union Working \union Stages
\* over: without a proposal;  cut: in a process that has ended since
Ended == {"done", "over", "cut"}

TypeOK ==
  /\ redis \in BOOLEAN
  /\ stored \in [Stores -> [Calls -> Status]]
  /\ mode \in [Calls -> Modes]
  /\ pc \in [Calls -> {"new"} \union Running \union Ended]
  /\ analysis \in [Calls -> {"none", "running", "ok", "failed"}]
  /\ asked \in [Clients -> Calls \union {Nobody}]
  /\ told \in [Clients -> [Calls -> Status]]
  /\ announced \in SUBSET Calls
  /\ hidden \in SUBSET Calls

NothingIn == [c \in Calls |-> "none"]

Init ==
  /\ redis = RedisUrl
  /\ stored = [s \in Stores |-> NothingIn]
  /\ mode = [c \in Calls |-> "sync"]
  /\ pc = [c \in Calls |-> "new"]
  /\ analysis = [c \in Calls |-> "none"]
  /\ asked = [q \in Clients |-> Nobody]
  /\ told = [q \in Clients |-> NothingIn]
  /\ announced = {}
  /\ hidden = {}

-----------------------------------------------------------------------------
(* ProposalRepository *)

Goto(c, label) == pc' = [pc EXCEPT ![c] = label]

Put(store, c, status) == stored' = [stored EXCEPT ![store][c] = status]

\* What is saved at a label, for a call in mode m ...
Written_Completed(m, label) ==
  CASE label = "placeholder" -> "processing"
    [] label = "saveError" -> "error"
    [] label = "saveDraft" -> IF m = "sync" THEN "unset" ELSE "completed"
Written(m, label) ==
  CASE label = "placeholder" -> "processing"
    [] label = "saveError" -> "error"
    [] label = "saveDraft" -> IF m = "sync" THEN "unset" ELSE "draft"

AfterSave_NoTask(label) == "done"
\* ... and where the call goes on, having told its client
AfterSave(label) == IF label = "placeholder" THEN "queued" ELSE "done"

Saved(c, label) == Goto(c, AfterSave(label)) /\ announced' = announced \union {c}

\* save_proposal up to its await, or in memory to its end
SaveProposal(c, m, label) ==
  IF redis
  THEN /\ Goto(c, label)
       /\ UNCHANGED <<stored, announced, hidden>>
  ELSE /\ Put("memory", c, Written(m, label))
       /\ Saved(c, label)
       /\ hidden' = hidden \ {c}

\* Redis has it.  If the process has turned to memory meanwhile, the proposal
\* is where nobody looks.
SaveLands(c) ==
  /\ pc[c] \in Saving
  /\ Put("redis", c, Written(mode[c], pc[c]))
  /\ Saved(c, pc[c])
  /\ hidden' = IF redis THEN hidden \ {c} ELSE hidden \union {c}
  /\ UNCHANGED <<redis, mode, analysis, client>>

OnlyInRedis == {c \in Calls : stored["redis"][c] # "none" /\ stored["memory"][c] = "none"}

TurnToMemory_ThisTime == UNCHANGED redis
\* The exception of an operation on Redis: memory from now on, for all.
TurnToMemory == redis' = FALSE

SaveFails_Dropped(c) ==
  /\ pc[c] \in Saving
  /\ TurnToMemory
  /\ Saved(c, pc[c])
  /\ hidden' = (hidden \union OnlyInRedis) \ {c}
  /\ UNCHANGED <<stored, mode, analysis, client>>
SaveFails(c) ==
  /\ pc[c] \in Saving
  /\ TurnToMemory
  /\ Put("memory", c, Written(mode[c], pc[c]))
  /\ Saved(c, pc[c])
  /\ hidden' = (hidden \union OnlyInRedis) \ {c}
  /\ UNCHANGED <<mode, analysis, client>>

\* A client that is answered 404 has learnt no status.
Tell(q, c, status) ==
  told' = IF status = "none" THEN told ELSE [told EXCEPT ![q][c] = status]

\* get_proposal up to its await, or in memory to its end, by approve, refine
\* and status, which change nothing
GetProposal(q, c) ==
  /\ asked[q] = Nobody
  /\ pc[c] # "new"
  /\ IF redis
     THEN asked' = [asked EXCEPT ![q] = c] /\ UNCHANGED told
     ELSE Tell(q, c, stored["memory"][c]) /\ UNCHANGED asked
  /\ UNCHANGED <<redis, stored, mode, pc, analysis, announced, hidden>>

GetLands(q) ==
  /\ asked[q] # Nobody
  /\ Tell(q, asked[q], stored["redis"][asked[q]])
  /\ asked' = [asked EXCEPT ![q] = Nobody]
  /\ UNCHANGED <<redis, stored, mode, pc, analysis, announced, hidden>>

GetFails(q) ==
  /\ asked[q] # Nobody
  /\ TurnToMemory
  /\ Tell(q, asked[q], stored["memory"][asked[q]])
  /\ asked' = [asked EXCEPT ![q] = Nobody]
  /\ hidden' = hidden \union OnlyInRedis
  /\ UNCHANGED <<stored, mode, pc, analysis, announced>>

\* the time to live of a day, which only Redis keeps
Expire(c) ==
  /\ stored["redis"][c] # "none"
  /\ Put("redis", c, "none")
  /\ hidden' = IF redis THEN hidden \union {c} ELSE hidden
  /\ UNCHANGED <<redis, mode, pc, analysis, client, announced>>

-----------------------------------------------------------------------------
(* The analyses *)

\* The ticket has been enriched and its tenant read: the endpoint goes on.
Begin(c, m) ==
  /\ pc[c] = "new"
  /\ mode' = [mode EXCEPT ![c] = m]
  /\ IF m = "async"
     THEN SaveProposal(c, m, "placeholder")
     ELSE /\ Goto(c, IF m = "stream" THEN "started" ELSE "queued")
          /\ UNCHANGED <<stored, announced, hidden>>
  /\ UNCHANGED <<redis, analysis, client>>

BeginFails(c) ==
  /\ pc[c] = "new"
  /\ Goto(c, "over")
  /\ UNCHANGED <<redis, stored, mode, analysis, client, announced, hidden>>

\* the graph: parallel_retrieve_analyze, then synthesize_results
StartGraph(c) ==
  /\ pc[c] = "queued"
  /\ Goto(c, "parallel")
  /\ analysis' = [analysis EXCEPT ![c] = "running"]
  /\ UNCHANGED <<redis, stored, mode, client, announced, hidden>>

\* analyze_ticket swallows what goes wrong and then returns no analysis.
AnalysisEnds(c) ==
  /\ analysis[c] = "running"
  /\ \E result \in {"ok", "failed"} : analysis' = [analysis EXCEPT ![c] = result]
  /\ UNCHANGED <<redis, stored, mode, pc, client, announced, hidden>>

GatherReturns(c) ==
  /\ pc[c] = "parallel" /\ analysis[c] # "running"
  /\ Goto(c, "synthesize")
  /\ UNCHANGED <<redis, stored, mode, analysis, client, announced, hidden>>

\* With an analysis the graph has a proposal, its own fallback if need be.
\* run_agent_stream waits for a node "resolve" to save it, which the graph
\* does not have: it completes with a proposal that is nowhere.
GraphReturns(c) ==
  /\ pc[c] = "synthesize" /\ analysis[c] = "ok"
  /\ IF mode[c] = "agent"
     THEN Goto(c, "done") /\ announced' = announced \union {c} /\ UNCHANGED <<stored, hidden>>
     ELSE SaveProposal(c, mode[c], "saveDraft")
  /\ UNCHANGED <<redis, mode, analysis, client>>

\* Without one, synthesize_results fails on None and its fallback as well.
GraphRaises_NotRecorded(c) ==
  /\ pc[c] = "synthesize" /\ analysis[c] = "failed"
  /\ Goto(c, "over")
  /\ UNCHANGED <<redis, stored, mode, analysis, client, announced, hidden>>
GraphRaises(c) ==
  /\ pc[c] = "synthesize" /\ analysis[c] = "failed"
  /\ IF mode[c] = "async"
     THEN SaveProposal(c, "async", "saveError")
     ELSE Goto(c, "over") /\ UNCHANGED <<stored, announced, hidden>>
  /\ UNCHANGED <<redis, mode, analysis, client>>

\* run_progressive_stream: the analysis is a task of its own beside the search,
\* which is skipped for fields only.
StreamStarts(c) ==
  /\ pc[c] = "started"
  /\ analysis' = [analysis EXCEPT ![c] = "running"]
  /\ \E label \in {"searching", "analyse"} : Goto(c, label)
  /\ UNCHANGED <<redis, stored, mode, client, announced, hidden>>

SearchEnds(c) ==
  /\ pc[c] = "searching"
  /\ Goto(c, "analyse")
  /\ UNCHANGED <<redis, stored, mode, analysis, client, announced, hidden>>

AnalyseReturns(c) ==
  /\ pc[c] = "analyse" /\ analysis[c] # "running"
  /\ Goto(c, "compose")
  /\ UNCHANGED <<redis, stored, mode, analysis, client, announced, hidden>>

\* The fields are sent one by one, then the synthesis follows.
Composed(c) ==
  /\ pc[c] = "compose"
  /\ SaveProposal(c, mode[c], "saveDraft")
  /\ UNCHANGED <<redis, mode, analysis, client>>

\* a field proposal that is not a record
ComposeFails(c) ==
  /\ pc[c] = "compose" /\ analysis[c] = "ok"
  /\ Goto(c, "over")
  /\ UNCHANGED <<redis, stored, mode, analysis, client, announced, hidden>>

\* The consumer of a stream goes away: the coroutine is cancelled where it
\* stands, with what it awaits.  A save may have reached Redis.
Disconnect(c) ==
  /\ mode[c] \in Streaming /\ pc[c] \in Running
  /\ Goto(c, "over")
  /\ analysis' = IF pc[c] \in {"parallel", "analyse"} /\ analysis[c] = "running"
                 THEN [analysis EXCEPT ![c] = "none"] ELSE analysis
  /\ \/ UNCHANGED stored
     \/ pc[c] \in Saving /\ Put("redis", c, Written(mode[c], pc[c]))
  /\ UNCHANGED <<redis, mode, client, announced, hidden>>

\* The process ends and starts anew, with Redis if it is configured; of a save
\* under way nothing arrives, or else it has landed before.
Restart ==
  /\ redis' = RedisUrl
  /\ stored' = [stored EXCEPT !["memory"] = NothingIn]
  /\ pc' = [c \in Calls |-> IF pc[c] = "new" THEN "new" ELSE "cut"]
  /\ analysis' = [c \in Calls |-> "none"]
  /\ asked' = [q \in Clients |-> Nobody]
  /\ told' = [q \in Clients |-> NothingIn]
  /\ hidden' = {c \in Calls : ~RedisUrl \/ stored["redis"][c] = "none"}
  /\ UNCHANGED <<mode, announced>>

-----------------------------------------------------------------------------
\* what the event loop, a model or Redis brings about by itself
Progress(c) ==
  \/ SaveLands(c)
  \/ SaveFails(c)
  \/ StartGraph(c)
  \/ AnalysisEnds(c)
  \/ GatherReturns(c)
  \/ GraphReturns(c)
  \/ GraphRaises(c)
  \/ StreamStarts(c)
  \/ SearchEnds(c)
  \/ AnalyseReturns(c)
  \/ Composed(c)
  \/ ComposeFails(c)

ClientStep(q) ==
  \/ \E c \in Calls : GetProposal(q, c)
  \/ GetLands(q)
  \/ GetFails(q)

Next ==
  \/ \E c \in Calls : Progress(c)
  \/ \E c \in Calls, m \in Modes : Begin(c, m)
  \/ \E c \in Calls : BeginFails(c)
  \/ \E c \in Calls : Disconnect(c)
  \/ \E c \in Calls : Expire(c)
  \/ \E q \in Clients : ClientStep(q)
  \/ Restart

Spec == Init /\ [][Next]_vars

\* Awaited answers arrive or time out, and what they resume runs.
FairSpec == Spec /\ \A c \in Calls : WF_vars(Progress(c))

-----------------------------------------------------------------------------
(* Properties *)

\* A proposal a client was given is found, whatever store it was saved to,
\* unless it expired, the process turned from Redis to memory, or ended.
\* (run_agent_stream does not save what it gives: see CompletedIsFound.)
Given == {c \in announced : mode[c] # "agent"}
AnnouncedIsFound == \A c \in Given \ hidden : stored[Repo][c] # "none"

\* The status endpoint says "processing" only while the analysis is running,
\* or after the process that ran it ended.
ProcessingIsInProgress ==
  \A c \in Calls :
    stored[Repo][c] = "processing" => pc[c] \in Working \union Saving \union {"cut"}

\* A client that was told how an analysis ended is never told anything else by
\* the same process, although records live in two stores.
OutcomeIsFinal ==
  [][\A q \in Clients, c \in Calls :
       told[q][c] \in Final => told'[q][c] \in {told[q][c], "none"}]_vars

\* An analysis in the background comes to an end that its client can see.
EveryAnalysisEnds ==
  \A c \in Calls :
    stored[Repo][c] = "processing" ~> (stored[Repo][c] # "processing" \/ pc[c] = "cut")

\* assist.py:361, "Save proposal before yielding": what a stream completes with
\* can be approved, as AnnouncedIsFound says of the others.
CompletedIsFound == \A c \in announced \ hidden : stored[Repo][c] # "none"
=============================================================================
