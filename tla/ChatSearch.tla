------------------------------ MODULE ChatSearch ------------------------------
(***************************************************************************)
(* What a chat searches for.  ChatUsecase and the agent route hand a       *)
(* question to one of six handlers; four of them let a language model      *)
(* extract filters (QueryFilterAnalyzer).  The analysis may end in a       *)
(* question back to the user, whose option the next request brings along;  *)
(* the tenant's handler is told nothing of either.  The ticket and the     *)
(* agent handler then search Freshdesk, and all but the pipeline search    *)
(* the document stores.                                                    *)
(*                                                                         *)
(* One conversation of one user, who waits for each answer: SessionChat    *)
(* has the requests that overlap.  A filter is a pair <<field, value>>.    *)
(* Left out: histories, prompts, what the pipeline service searches for,   *)
(* and the entity resolution of the Freshdesk search, whose terms no       *)
(* analysis ever sets.                                                     *)
(***************************************************************************)
EXTENDS FiniteSets, Naturals

CONSTANTS
  Labels,    \* field -> labels that its metadata knows, for priority and status
  Odd        \* a label that no field knows

Fields == DOMAIN Labels
KnownValues == UNION {{f} \X Labels[f] : f \in Fields}

\* A field with labels is none of those that filters are made for otherwise.
ASSUME ChatSearchAssumption ==
  /\ \A f \in Fields : {Odd, ""} \cap Labels[f] = {}
  /\ Fields \cap {"createdAt", "sourceId", "own", "product", "requester", "any", "none"} = {}

VARIABLES
  open,      \* clarificationState of the session: a field, "any" or "none"
  request,   \* [path, stage, option, open, filters, asks, fixed]
  question,  \* history: the field that the last answer asked the user about
  dropped    \* history: whether a request has failed since that answer after it
             \* had the session forget what was asked, or record a new question

searchVars == <<open, request, question, dropped>>

\* "tenant" answers in one piece, "stream" is the tenant's answer as a stream.
Paths == {"common", "tenant", "stream", "ticket", "pipeline", "agent"}
Analysing == {"tenant", "ticket", "pipeline", "agent"}
Choosing == {"ticket", "pipeline", "agent"}       \* tell the analysis of the option
Forgetting == {"ticket", "pipeline"}
NoOption == ""
RecentFilter == <<"createdAt", "recent">>      \* the filter applied by default
Found == <<"sourceId", "found">>         \* the first 20 of the tickets found
Own == <<"own", "own">>                  \* the filters of a tenant
OwnProduct == <<"product", "own">>       \* of an agent's configuration
Chosen == <<"product", "chosen">>        \* request.common_product
Other == <<"requester", "someone">>      \* a field that Freshdesk is not asked for
Extracted == KnownValues \union (Fields \X {Odd}) \union {Other}
Filters == KnownValues \union {RecentFilter, Found, Own, OwnProduct, Chosen, Other}
Asks == Fields \union {"any", "none"}

SearchTypeOK ==
  /\ open \in Asks /\ question \in Asks /\ dropped \in BOOLEAN
  /\ request.path \in Paths
  /\ request.stage \in {"idle", "analyze", "lookup", "search", "recorded", "record"}
  /\ request.option \in {NoOption} \union UNION {Labels[f] : f \in Fields}
  /\ request.open \in Asks /\ request.asks \in Asks
  /\ request.filters \subseteq Filters /\ request.fixed \subseteq Filters

Idle == [path |-> "common", stage |-> "idle", option |-> NoOption, open |-> "none",
         filters |-> {}, asks |-> "none", fixed |-> {}]

SearchInit == open = "none" /\ request = Idle /\ question = "none" /\ dropped = FALSE

-----------------------------------------------------------------------------
(* The filters that do not come from the question: the tenant's, and the   *)
(* product that the user chose, which an agent's own product gives way to. *)
ProductFilter(chosen) == IF chosen THEN {Chosen} ELSE {}
TenantFilters(chosen) == {Own} \union ProductFilter(chosen)
AgentFilters(chosen) == {Own} \union (IF chosen THEN {Chosen} ELSE {OwnProduct})

FixedFilters(path, chosen) ==
  CASE path = "common" -> ProductFilter(chosen)
    [] path \in {"tenant", "stream"} -> TenantFilters(chosen)
    [] path = "agent"  -> AgentFilters(chosen)
    [] OTHER           -> {}

(* The user asks, or answers the question of the last answer with one of   *)
(* its options.  ChatUsecase forgets the open question of the session when *)
(* an option comes with a request for the ticket handler or the pipeline.  *)
AskChat(path, option, chosen) ==
  /\ request.stage = "idle"
  /\ option # NoOption => question \in Fields /\ option \in Labels[question]
  /\ request' = [Idle EXCEPT !.path = path, !.option = option, !.open = open,
                             !.fixed = FixedFilters(path, chosen),
                             !.stage = IF path \in Analysing THEN "analyze" ELSE "search"]
  /\ open' = IF option # NoOption /\ path \in Forgetting THEN "none" ELSE open
  /\ UNCHANGED <<question, dropped>>

(* _apply_clarification_choice: the option of a question with a field that *)
(* knows it takes the place of every filter on this field.                 *)
ApplyChoice_Added(result) ==
  IF request.open \in Fields /\ request.option \in Labels[request.open]
  THEN [filters |-> result.filters \union {<<request.open, request.option>>}, asks |-> "none"]
  ELSE result
ApplyChoice(result) ==
  IF request.open \in Fields /\ request.option \in Labels[request.open]
  THEN [filters |-> {f \in result.filters : f[1] # request.open}
                      \union {<<request.open, request.option>>},
        asks |-> "none"]
  ELSE result

FallbackResult == [filters |-> {RecentFilter}, asks |-> "any"]

(* _normalize_with_metadata: a label that its field does not know becomes  *)
(* a question; only the first question is asked.                           *)
Unknown(extracted) == {f \in Fields : <<f, Odd>> \in extracted}
Resolved(extracted) == {f \in extracted : f[2] # Odd}

Results(extracted) ==
  LET asks == IF Unknown(extracted) = {} THEN {"none"} ELSE Unknown(extracted) IN
  IF Resolved(extracted) = {} /\ Unknown(extracted) = {}
  THEN {FallbackResult}
  ELSE {[filters |-> Resolved(extracted), asks |-> a] : a \in asks}

(* What a path makes of the result: the tenant's handler asks for an       *)
(* analysis of the question alone, and passes on nothing but the filters.  *)
Taken(result) ==
  IF request.path \in Choosing THEN ApplyChoice(result) ELSE [result EXCEPT !.asks = "none"]

AfterAnalysis(path) ==
  CASE path = "tenant" -> "search" [] path = "pipeline" -> "recorded" [] OTHER -> "lookup"

(* Requests for the pipeline have the result recorded at once, before the  *)
(* pipeline is called.                                                     *)
Analyse(result) ==
  /\ request.stage = "analyze"
  /\ request' = [request EXCEPT !.filters = Taken(result).filters,
                                !.asks = Taken(result).asks,
                                !.stage = AfterAnalysis(request.path)]
  /\ open' = IF request.path = "pipeline" THEN Taken(result).asks ELSE open
  /\ UNCHANGED <<question, dropped>>

(* There is no analyser, or the one of the pipeline's requests failed:     *)
(* these go on without a result, and nothing is recorded.                  *)
AnalyserSkipped ==
  /\ request.stage = "analyze" /\ request.path \in {"tenant", "pipeline"}
  /\ request' = [request EXCEPT !.stage = "search"]
  /\ UNCHANGED <<open, question, dropped>>

(* Freshdesk is asked with the filters that it has an expression for; an   *)
(* agent of another pipeline type, or without the service, skips this.     *)
Translatable(filters) == {f \in filters : f[1] \in Fields \union {"createdAt"}}

SearchFreshdesk(found) ==
  /\ request.stage = "lookup"
  /\ found => Translatable(request.filters) # {}
  /\ request' = [request EXCEPT !.stage = "search", !.filters = IF found THEN @ \union {Found} ELSE @]
  /\ UNCHANGED <<open, question, dropped>>

(* The handler's search has an answer.  Common and the tenant's stream     *)
(* search with the fixed filters alone, tickets with those of the          *)
(* question, tenant and agent with both; the pipeline is given the request *)
(* as it came, and no filters.                                             *)
HandlerAnswers(path, filters) ==
  /\ request.stage \in {"search", "recorded"} /\ request.path = path
  /\ request' = [request EXCEPT !.stage = "record", !.filters = filters]
  /\ UNCHANGED <<open, question, dropped>>

CommonAnswers == HandlerAnswers("common", request.fixed)
TenantAnswers == HandlerAnswers("tenant", request.fixed \union request.filters)
StreamAnswers == HandlerAnswers("stream", request.fixed)
TicketsAnswer == HandlerAnswers("ticket", request.filters)
AgentAnswers == HandlerAnswers("agent", request.fixed \union request.filters)
PipelineAnswersChat == HandlerAnswers("pipeline", {})

(* Analyser, Freshdesk, stores or pipeline fail; what was forgotten or     *)
(* recorded by then stays so.                                              *)
RequestFails ==
  /\ request.stage \in {"analyze", "lookup", "search", "recorded"}
  /\ request' = Idle
  /\ dropped' = \/ dropped
                \/ request.option # NoOption /\ request.path \in Forgetting
                \/ request.stage = "recorded"
  /\ UNCHANGED <<open, question>>

(* record_analyzer_result of the ticket and the agent handler, and the     *)
(* answer.  Common and tenant have no question, and leave what is open.    *)
RecordAndAnswer ==
  /\ request.stage = "record"
  /\ open' = IF request.path \in {"ticket", "agent"} THEN request.asks ELSE open
  /\ question' = request.asks /\ dropped' = FALSE
  /\ request' = Idle

SearchNext ==
  \/ \E path \in Paths, option \in {NoOption} \union UNION {Labels[f] : f \in Fields},
        chosen \in BOOLEAN : AskChat(path, option, chosen)
  \/ \E extracted \in SUBSET Extracted : \E result \in Results(extracted) : Analyse(result)
  \/ Analyse(FallbackResult)
  \/ \E found \in BOOLEAN : SearchFreshdesk(found)
  \/ CommonAnswers \/ TenantAnswers \/ StreamAnswers
  \/ TicketsAnswer \/ AgentAnswers \/ PipelineAnswersChat
  \/ RequestFails \/ RecordAndAnswer \/ AnalyserSkipped

SearchSpec == SearchInit /\ [][SearchNext]_searchVars

-----------------------------------------------------------------------------
(* A user who answers the question of the last answer with one of its      *)
(* options, in a request for tickets or to an agent, has Freshdesk and the *)
(* stores searched for this value of the field and no other, whatever the  *)
(* model extracts this time and whichever handler asked                    *)
(* (_apply_clarification_choice, record_analyzer_result).  Excepted is a   *)
(* question the session lost before: a request failed after the ticket     *)
(* handler or the pipeline had it forgotten (handle_legacy_chat), or after *)
(* the pipeline's analysis took its place.  The tenant's handler ignores   *)
(* the option, and what the pipeline searches for is not known here.       *)
ChosenOptionIsUsed ==
  request.stage \in {"lookup", "search", "record"} /\ request.path \in {"ticket", "agent"}
    /\ request.option # NoOption /\ ~dropped
  => {f \in request.filters : f[1] = question} = {<<question, request.option>>}

=============================================================================
