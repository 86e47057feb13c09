------------------------------ MODULE MentorChat ------------------------------
(***************************************************************************)
(* The answer streams of the onboarding application: the mentor and the    *)
(* product streams of app/api/routes/onboarding.py and the learning and    *)
(* module chat streams of app/api/routes/curriculum.py.                    *)
(*                                                                         *)
(* A conversation is a Python list in the memory of the process.  A stream *)
(* keeps a reference to the list it found, appends its turn to that very   *)
(* object and puts a copy of the end of it into the cache: two streams may *)
(* share a list, or each hold a list of its own.  Streams give way to each *)
(* other where they yield or await.                                        *)
(***************************************************************************)
EXTENDS Naturals, SequencesExt

CONSTANTS
  Streams,     \* requests for a stream
  HistoryMax,  \* turns a conversation keeps: 10 in the code
  Recent       \* turns a prompt is given: 4 in the code

ASSUME MentorAssumption == HistoryMax \in Nat \ {0} /\ Recent \in Nat

VARIABLES
  lists,    \* the list objects, by their address
  cache,    \* _conversation_cache and _module_chat_cache: address, or NoList
  stream,   \* per stream: [kind, held, stage]
  prompt,   \* per stream: the turns its prompt carried
  seen,     \* history, per stream: the conversation when it was asked
  answered  \* history, per conversation: turns in the order they were completed

mentorVars == <<lists, cache, stream, prompt, seen, answered>>

\* mentor: chat_stream; module: stream_module_chat; plain: streams without a
\* conversation (feedback, follow-up, learning, section, category, product)
Conversations == {"mentor", "module"}
Kinds == Conversations \union {"plain"}
NoList == 0
Stages == {"new", "asked", "streaming", "saved", "result", "error", "cut"}

MentorTypeOK ==
  /\ lists \in Seq(Seq(Streams))
  /\ cache \in [Conversations -> 0..Len(lists)]
  /\ stream \in [Streams -> [kind : Kinds, held : 0..Len(lists), stage : Stages]]
  /\ prompt \in [Streams -> Seq(Streams)] /\ seen \in [Streams -> Seq(Streams)]
  /\ answered \in [Conversations -> Seq(Streams)]

MentorInit ==
  /\ lists = <<>>
  /\ cache = [c \in Conversations |-> NoList]
  /\ stream = [s \in Streams |-> [kind |-> "plain", held |-> NoList, stage |-> "new"]]
  /\ prompt = [s \in Streams |-> <<>>] /\ seen = [s \in Streams |-> <<>>]
  /\ answered = [c \in Conversations |-> <<>>]

Ending(turns, n) == SubSeq(turns, Len(turns) + 1 - (IF Len(turns) < n THEN Len(turns) ELSE n), Len(turns))
Conversation(c) == IF cache[c] = NoList THEN <<>> ELSE lists[cache[c]]
At(s, stage) == stream[s].stage = stage
Moves(s, stage) == stream' = [stream EXCEPT ![s].stage = stage]

Ask_OwnList(s, c) ==
  /\ At(s, "new")
  /\ seen' = [seen EXCEPT ![s] = Conversation(c)]
  /\ stream' = [stream EXCEPT ![s] = [kind |-> c, held |-> Len(lists) + 1, stage |-> "asked"]]
  /\ lists' = Append(lists, <<>>) /\ UNCHANGED cache
  /\ UNCHANGED <<prompt, answered>>

(* The handler looks the conversation up.  A mentor conversation that is   *)
(* not there is put into the cache, a module conversation is not.          *)
Ask(s, c) ==
  /\ At(s, "new")
  /\ seen' = [seen EXCEPT ![s] = Conversation(c)]
  /\ IF cache[c] # NoList
     THEN /\ stream' = [stream EXCEPT ![s] = [kind |-> c, held |-> cache[c], stage |-> "asked"]]
          /\ UNCHANGED <<lists, cache>>
     ELSE /\ lists' = Append(lists, <<>>)
          /\ stream' = [stream EXCEPT ![s] = [kind |-> c, held |-> Len(lists'), stage |-> "asked"]]
          /\ cache' = IF c = "mentor" THEN [cache EXCEPT ![c] = Len(lists')] ELSE cache
  /\ UNCHANGED <<prompt, answered>>

(* Feedback on a scenario, and a question about the feedback.              *)
AskScenario(s) ==
  /\ At(s, "new")
  /\ Moves(s, "asked")
  /\ UNCHANGED <<lists, cache, prompt, seen, answered>>

(* The contents of a module, or of one section of it: a module that is not *)
(* there answers 404.                                                      *)
AskLesson(s, found) ==
  /\ At(s, "new")
  /\ Moves(s, IF found THEN "asked" ELSE "error")
  /\ UNCHANGED <<lists, cache, prompt, seen, answered>>

(* The documents of a category, or those that match a question about a     *)
(* product: without a category or documents of it, or without the product, *)
(* 404, and 500 if they could not be read.                                 *)
AskDocuments(s, found) ==
  /\ At(s, "new")
  /\ Moves(s, IF found THEN "asked" ELSE "error")
  /\ UNCHANGED <<lists, cache, prompt, seen, answered>>

(* The turns of a module chat have the keys user and model; of the dicts   *)
(* it is given, _build_contents takes those with the keys role and text,   *)
(* and passes over all of them.                                            *)
Carried(s) == IF stream[s].kind = "mentor" THEN Ending(lists[stream[s].held], Recent) ELSE <<>>

(* The generator starts and builds its prompt.                             *)
Prompt(s) ==
  /\ At(s, "asked")
  /\ prompt' = [prompt EXCEPT ![s] = Carried(s)]
  /\ Moves(s, "streaming")
  /\ UNCHANGED <<lists, cache, seen, answered>>

Complete_Truncates(s) ==
  /\ At(s, "streaming") /\ stream[s].kind \in Conversations
  /\ LET c == stream[s].kind
         turns == Append(Ending(lists[stream[s].held], HistoryMax - 1), s)
     IN /\ lists' = [lists EXCEPT ![stream[s].held] = turns]
        /\ cache' = [cache EXCEPT ![c] = IF @ = NoList THEN stream[s].held ELSE @]
        /\ answered' = [answered EXCEPT ![c] = Append(@, s)]
  /\ Moves(s, "saved")
  /\ UNCHANGED <<prompt, seen>>

(* The answer is complete: the turn goes into the list that the stream     *)
(* holds, and a new list with the end of that one into the cache.          *)
Complete(s) ==
  /\ At(s, "streaming") /\ stream[s].kind \in Conversations
  /\ LET c == stream[s].kind
         turns == Append(lists[stream[s].held], s)
     IN /\ lists' = Append([lists EXCEPT ![stream[s].held] = turns], Ending(turns, HistoryMax))
        /\ cache' = [cache EXCEPT ![c] = Len(lists')]
        /\ answered' = [answered EXCEPT ![c] = Append(@, s)]
  /\ Moves(s, "saved")
  /\ UNCHANGED <<prompt, seen>>

Result(s) ==
  /\ At(s, "saved") \/ (At(s, "streaming") /\ stream[s].kind = "plain")
  /\ Moves(s, "result")
  /\ UNCHANGED <<lists, cache, prompt, seen, answered>>

(* The model fails, there is no store, or the answer has no text: an error *)
(* event, and no turn.                                                     *)
Fail(s) ==
  /\ At(s, "streaming")
  /\ Moves(s, "error")
  /\ UNCHANGED <<lists, cache, prompt, seen, answered>>

(* The client goes away at a yield: what follows it in the generator does  *)
(* not run, for its exception is no Exception.                             *)
Disconnect(s) ==
  /\ At(s, "streaming") \/ At(s, "saved")
  /\ Moves(s, "cut")
  /\ UNCHANGED <<lists, cache, prompt, seen, answered>>

(* The process is restarted.                                               *)
MentorRestart ==
  /\ lists' = <<>>
  /\ cache' = [c \in Conversations |-> NoList]
  /\ stream' = [s \in Streams |->
       [stream[s] EXCEPT !.held = NoList,
                         !.stage = IF @ \in {"asked", "streaming", "saved"} THEN "cut" ELSE @]]
  /\ answered' = [c \in Conversations |-> <<>>]
  /\ UNCHANGED <<prompt, seen>>

MentorNext ==
  \/ \E s \in Streams :
       \/ \E c \in Conversations : Ask(s, c)
       \/ AskScenario(s)
       \/ \E found \in BOOLEAN : AskLesson(s, found) \/ AskDocuments(s, found)
       \/ Prompt(s) \/ Complete(s) \/ Result(s) \/ Fail(s) \/ Disconnect(s)
  \/ MentorRestart

MentorSpec == MentorInit /\ [][MentorNext]_mentorVars

-----------------------------------------------------------------------------
(* However streams overlap, a conversation ends with the turn completed    *)
(* last, its turns are in the order they were completed, each once, and    *)
(* there are at most HistoryMax (session["conversationHistory"]).          *)
Position(c, s) == CHOOSE i \in 1..Len(answered[c]) : answered[c][i] = s
LatestTurnsInOrder ==
  \A c \in Conversations :
    LET turns == Conversation(c) IN
    /\ Len(turns) <= HistoryMax
    /\ \A i \in 1..Len(turns) : turns[i] \in ToSet(answered[c])
    /\ \A i, j \in 1..Len(turns) : i < j => Position(c, turns[i]) < Position(c, turns[j])
    /\ answered[c] # <<>> => turns # <<>> /\ Last(turns) = Last(answered[c])

(* A turn that was in the conversation when a question was asked is still  *)
(* in it when its answer has been added, unless the limit pushed it out:   *)
(* what a slow stream loses is only what it never saw.  And the prompt of  *)
(* the mentor, built when the generator starts, ends with a turn no older  *)
(* than the last one at the time of the question.                          *)
AnswersKeepContext ==
  [][\A s \in Streams :
       /\ At(s, "streaming") /\ stream'[s].stage = "saved" =>
            LET turns == Conversation(stream[s].kind)' IN
            ToSet(seen[s]) \subseteq ToSet(turns) \/ Len(turns) = HistoryMax
       /\ At(s, "asked") /\ stream'[s].stage = "streaming"
            /\ stream[s].kind = "mentor" /\ Recent > 0 /\ seen[s] # <<>> =>
            /\ prompt'[s] # <<>>
            /\ Position("mentor", Last(seen[s])) <= Position("mentor", Last(prompt'[s]))]_mentorVars

=============================================================================
