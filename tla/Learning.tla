------------------------------- MODULE Learning -------------------------------
(***************************************************************************)
(* The progress of new hires: sessions and scenarios                       *)
(* (app/services/onboarding_repository.py), curriculum modules and quizzes *)
(* (app/services/curriculum_repository.py), behind the routes of           *)
(* app/api/routes/onboarding.py and app/api/routes/curriculum.py.          *)
(*                                                                         *)
(* All of it is in Supabase, whose client blocks the event loop: a request *)
(* is alone in the process until it ends, but each of its calls may fail   *)
(* and the process may die between two of them.  Only the tidying of       *)
(* duplicate sessions writes more than two rows, so it is taken call by    *)
(* call; a quiz writes two and its action has the outcomes of each.        *)
(***************************************************************************)
EXTENDS Naturals, FiniteSetsExt

CONSTANTS
  Names,        \* names of new hires as they are typed, and stored
  Person,       \* of a name, the person it stands for once stripped and in lower case
  Ilike,        \* <<n, k>>: the name n, stripped and taken as the pattern of an ilike, matches k
  Unissued,     \* no name
  Scenarios,    \* onboarding scenarios
  Modules,      \* curriculum modules
  MaxSessions,  \* bound: sessions ever created
  MaxTries      \* bound: quiz attempts at a module

ASSUME LearningAssumption ==
  /\ MaxSessions \in Nat /\ MaxTries \in Nat
  /\ Unissued \notin Names /\ Ilike \subseteq Names \X Names

VARIABLES
  owner,     \* per session ever created: the name its row was given
  live,      \* sessions whose row exists
  scenario,  \* per session: the scenarios onboarding_progress has rows of
  progress,  \* per session and module: the row of module_progress
  attempts,  \* per session and module: the number of rows of quiz_attempts
  tidy       \* _consolidate_sessions under way

learningVars == <<owner, live, scenario, progress, attempts, tidy>>

SessionIds == 1..MaxSessions

Users == {Person[n] : n \in Names}

\* status_priority: not_started 0, learning 1, completed 2
Levels == 0..2
Completed == 2
NoRow == [level |-> 0, tries |-> 0, row |-> FALSE]
Rows == {NoRow} \union [level : Levels, tries : 0..MaxTries, row : {TRUE}]

Quiet == [stage |-> "quiet", keep |-> 0, dups |-> {}, groups |-> {}]

LearningTypeOK ==
  /\ owner \in [SessionIds -> Names \union {Unissued}]
  /\ live \subseteq SessionIds
  /\ scenario \in [SessionIds -> SUBSET Scenarios]
  /\ progress \in [SessionIds -> [Modules -> Rows]]
  /\ attempts \in [SessionIds -> [Modules -> 0..MaxTries]]
  /\ tidy \in [stage : {"quiet", "summary", "scenarios", "modules", "drop", "abandon"},
               keep : SessionIds \union {0}, dups : SUBSET SessionIds, groups : SUBSET Users]

LearningInit ==
  /\ owner = [s \in SessionIds |-> Unissued]
  /\ live = {}
  /\ scenario = [s \in SessionIds |-> {}]
  /\ progress = [s \in SessionIds |-> [m \in Modules |-> NoRow]]
  /\ attempts = [s \in SessionIds |-> [m \in Modules |-> 0]]
  /\ tidy = Quiet

\* Of some sessions: the sum of what is counted for a module.
CountOf(counts, m, S) == MapThenSumSet(LAMBDA s : counts[s][m], S)

\* Of a set of users: the sessions ever created under their names.
SessionsOf(G) == {s \in SessionIds : owner[s] # Unissued /\ Person[owner[s]] \in G}
Newest(S) == CHOOSE s \in S : \A t \in S : t <= s

\* The name of the request is a pattern (% and _ stand for any text and any
\* letter), and rows keep the padding that it is stripped of.
Matching(n) == {s \in live : <<n, owner[s]>> \in Ilike}

\* The newest row is kept, the others are merged into it one after another.
Consolidate(rows, groups) ==
  [stage |-> "scenarios", keep |-> Newest(rows), dups |-> rows \ {Newest(rows)}, groups |-> groups]

\* A summary goes on with the next user; a request for a session is over.
Over == IF tidy.groups = {} THEN Quiet ELSE [Quiet EXCEPT !.stage = "summary", !.groups = tidy.groups]
Alone == tidy.stage = "quiet"

-----------------------------------------------------------------------------
(* POST /onboarding/session finds rows for the name and keeps the newest.  *)
OpenSession(n) ==
  /\ Alone /\ Cardinality(Matching(n)) > 1
  /\ tidy' = Consolidate(Matching(n), {})
  /\ UNCHANGED <<owner, live, scenario, progress, attempts>>

(* It finds none, or could not look, and inserts a row.                    *)
CreateSession(n, readFails) ==
  /\ Alone /\ (readFails \/ Matching(n) = {})
  /\ \E s \in SessionIds :
       /\ \A t \in SessionIds : owner[t] = Unissued <=> t >= s
       /\ owner' = [owner EXCEPT ![s] = n]
       /\ live' = live \union {s}
  /\ UNCHANGED <<scenario, progress, attempts, tidy>>

(* GET /onboarding/progress groups all rows by normalised name, and tidies *)
(* the groups of more than one, one after another.                         *)
UserSessions(u) == live \cap SessionsOf({u})

SummariseAll ==
  LET duplicated == {u \in Users : Cardinality(UserSessions(u)) > 1} IN
  /\ Alone /\ duplicated # {}
  /\ tidy' = [Quiet EXCEPT !.stage = "summary", !.groups = duplicated]
  /\ UNCHANGED <<owner, live, scenario, progress, attempts>>

NextGroup(u) ==
  /\ tidy.stage = "summary" /\ u \in tidy.groups /\ Cardinality(UserSessions(u)) > 1
  /\ tidy' = Consolidate(UserSessions(u), tidy.groups \ {u})
  /\ UNCHANGED <<owner, live, scenario, progress, attempts>>

-----------------------------------------------------------------------------
Dup == Newest(tidy.dups)
AtStage(stage) == tidy.stage = stage /\ tidy.dups # {}

(* A scenario row of the duplicate moves, or goes if there is one already. *)
MergeScenario(c) ==
  /\ AtStage("scenarios") /\ c \in scenario[Dup]
  /\ scenario' = [scenario EXCEPT ![Dup] = @ \ {c}, ![tidy.keep] = @ \union {c}]
  /\ UNCHANGED <<owner, live, progress, attempts, tidy>>

ScenariosMerged ==
  /\ AtStage("scenarios") /\ scenario[Dup] = {}
  /\ tidy' = [tidy EXCEPT !.stage = "modules"]
  /\ UNCHANGED <<owner, live, scenario, progress, attempts>>

MoveModule(m) ==
  /\ AtStage("modules") /\ progress[Dup][m].row /\ ~progress[tidy.keep][m].row
  /\ progress' = [progress EXCEPT ![tidy.keep][m] = progress[Dup][m], ![Dup][m] = NoRow]
  /\ UNCHANGED <<owner, live, scenario, attempts, tidy>>

(* The kept row takes the status and the score of a duplicate further on.  *)
RaiseModule(m) ==
  /\ AtStage("modules") /\ progress[Dup][m].row /\ progress[tidy.keep][m].row
  /\ progress[Dup][m].level > progress[tidy.keep][m].level
  /\ progress' = [progress EXCEPT ![tidy.keep][m].level = progress[Dup][m].level]
  /\ UNCHANGED <<owner, live, scenario, attempts, tidy>>

DropModule_TooEarly(m) ==
  /\ AtStage("modules") /\ progress[Dup][m].row /\ progress[tidy.keep][m].row
  /\ progress' = [progress EXCEPT ![Dup][m] = NoRow]
  /\ UNCHANGED <<owner, live, scenario, attempts, tidy>>

(* Then, or if the kept row was as far, the duplicate row is deleted.      *)
DropModule(m) ==
  /\ AtStage("modules") /\ progress[Dup][m].row /\ progress[tidy.keep][m].row
  /\ progress[Dup][m].level <= progress[tidy.keep][m].level
  /\ progress' = [progress EXCEPT ![Dup][m] = NoRow]
  /\ UNCHANGED <<owner, live, scenario, attempts, tidy>>

ModulesMerged ==
  /\ AtStage("modules") /\ \A m \in Modules : ~progress[Dup][m].row
  /\ tidy' = [tidy EXCEPT !.stage = "drop"]
  /\ UNCHANGED <<owner, live, scenario, progress, attempts>>

(* An error among the modules is logged, and the duplicate is dropped all  *)
(* the same: what was not merged stays under the id that is given up.      *)
ModulesFail ==
  /\ AtStage("modules")
  /\ tidy' = [tidy EXCEPT !.stage = "abandon"]
  /\ UNCHANGED <<owner, live, scenario, progress, attempts>>

DropSession ==
  /\ AtStage("drop") \/ AtStage("abandon")
  /\ live' = live \ {Dup}
  /\ tidy' = IF tidy.dups = {Dup} THEN Over
             ELSE [tidy EXCEPT !.stage = "scenarios", !.dups = @ \ {Dup}]
  /\ UNCHANGED <<owner, scenario, progress, attempts>>

(* Any other error ends the consolidation, not the request.                *)
TidyFails ==
  /\ AtStage("scenarios") \/ AtStage("drop") \/ AtStage("abandon")
  /\ tidy' = Over
  /\ UNCHANGED <<owner, live, scenario, progress, attempts>>

(* The process dies: what it was doing is forgotten.                       *)
LearningCrash ==
  /\ ~Alone
  /\ tidy' = Quiet
  /\ UNCHANGED <<owner, live, scenario, progress, attempts>>

-----------------------------------------------------------------------------
(* Clients keep the id they were given, whether its row still exists.      *)
Issued(s) == Alone /\ owner[s] # Unissued

SaveProgress(s, c) ==
  /\ Issued(s)
  /\ scenario' = [scenario EXCEPT ![s] = @ \union {c}]
  /\ UNCHANGED <<owner, live, progress, attempts, tidy>>

(* PATCH progress, and the start of a learning stream with level 1: a      *)
(* completed module is left alone unless forced, and to force another is   *)
(* the same as not to.  If the row could not be read, the insert meets the *)
(* unique index and changes nothing.                                       *)
UpdateProgress(s, m, level, force) ==
  /\ Issued(s)
  /\ force <=> progress[s][m].level = Completed
  /\ progress' = [progress EXCEPT ![s][m] = [level |-> level, tries |-> @.tries, row |-> TRUE]]
  /\ UNCHANGED <<owner, live, scenario, attempts, tidy>>

\* _update_progress_after_quiz: the same whatever the score was.
AfterQuiz(s, m) == [progress EXCEPT ![s][m] = [level |-> Completed, tries |-> @.tries + 1, row |-> TRUE]]

MayTry(s, m) ==
  /\ Issued(s) /\ progress[s][m].tries < MaxTries
  /\ CountOf(attempts, m, SessionIds) < MaxTries

SubmitQuiz_AttemptLast(s, m, completes) ==
  /\ MayTry(s, m)
  /\ progress' = AfterQuiz(s, m)
  /\ attempts' = IF completes THEN [attempts EXCEPT ![s][m] = @ + 1] ELSE attempts
  /\ UNCHANGED <<owner, live, scenario, tidy>>

(* A quiz is graded, the attempt recorded, and then the module completed;  *)
(* an error in the second write, or a crash before it, is not reported.    *)
SubmitQuiz(s, m, completes) ==
  /\ MayTry(s, m)
  /\ attempts' = [attempts EXCEPT ![s][m] = @ + 1]
  /\ progress' = IF completes THEN AfterQuiz(s, m) ELSE progress
  /\ UNCHANGED <<owner, live, scenario, tidy>>

-----------------------------------------------------------------------------
Tidying ==
  \/ \E u \in Users : NextGroup(u)
  \/ \E c \in Scenarios : MergeScenario(c)
  \/ ScenariosMerged
  \/ \E m \in Modules : MoveModule(m) \/ RaiseModule(m) \/ DropModule(m)
  \/ ModulesMerged \/ ModulesFail \/ DropSession \/ TidyFails

LearningNext ==
  \/ \E n \in Names : OpenSession(n)
  \/ \E n \in Names, readFails \in BOOLEAN : CreateSession(n, readFails)
  \/ SummariseAll
  \/ Tidying
  \/ LearningCrash
  \/ \E s \in SessionIds, c \in Scenarios : SaveProgress(s, c)
  \/ \E s \in SessionIds, m \in Modules :
       \/ \E level \in Levels, force \in BOOLEAN : UpdateProgress(s, m, level, force)
       \/ \E completes \in BOOLEAN : SubmitQuiz(s, m, completes)

LearningSpec == LearningInit /\ [][LearningNext]_learningVars

-----------------------------------------------------------------------------
\* The people whose rows a request for a name may merge.
Merged(n) == {Person[k] : k \in {k \in Names : <<n, k>> \in Ilike}}

Apart(H) == \A n \in Names : Merged(n) \subseteq H \/ Merged(n) \cap H = {}

\* Who is left when others are apart: a person alone, as long as no name is a
\* pattern of another's.
Groups == {Users \ others : others \in {H \in SUBSET Users : H # Users /\ Apart(H)}}

\* What a group is shown: the rows of its sessions that exist.
OpenSessions(G) == {s \in live : Person[owner[s]] \in G}
Done(G, c) == \E s \in OpenSessions(G) : c \in scenario[s]
HasLevel(s, m, level) == progress[s][m].row /\ progress[s][m].level >= level
Reached(G, m, level) == \E s \in OpenSessions(G) : HasLevel(s, m, level)

Keeps(G) ==
  \A s \in OpenSessions(G) :
    /\ \A c \in scenario[s] : Done(G, c)'
    /\ \A m \in Modules, level \in Levels :
         (~Alone \/ level = Completed) /\ HasLevel(s, m, level) =>
           \/ Reached(G, m, level)'
           \/ \E to \in Levels : UpdateProgress(s, m, to, TRUE)
           \/ tidy.stage = "abandon" /\ s \notin live' /\ HasLevel(s, m, level)'

(* What a new hire has done can still be read, wherever tidying is cut     *)
(* short: a finished scenario stays in a session that exists, tidying      *)
(* lowers no module (a duplicate row goes only when the kept row is as     *)
(* far), and only a forced update takes a completed module back.  The one  *)
(* way to lose sight of a module is an error while the modules of a        *)
(* duplicate are merged (_consolidate_sessions logs it and deletes the     *)
(* session): its row is then still stored, under an id nobody is given.    *)
(* Names that match each other as patterns are tidied together.            *)
ProgressSurvives == [][\A G \in Groups : Keeps(G)]_learningVars

\* The column quiz_attempts of module_progress, also of sessions that were deleted.
TriesCounted == [s \in SessionIds |-> [m \in Modules |-> progress[s][m].tries]]

(* The tries that the rows of a user count are backed by as many recorded  *)
(* attempts, through errors between the two writes of a quiz and however   *)
(* the rows of duplicate sessions are merged (_update_progress_after_quiz, *)
(* _consolidate_sessions).                                                 *)
TriesBacked ==
  \A G \in Groups, m \in Modules :
    CountOf(TriesCounted, m, SessionsOf(G)) <= CountOf(attempts, m, SessionsOf(G))

=============================================================================
