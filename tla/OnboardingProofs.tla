---------------------------- MODULE OnboardingProofs ----------------------------
(***************************************************************************)
(* Proofs about the onboarding: the progress of new hires while duplicate  *)
(* sessions are tidied, the grading of a quiz, the library of articles,    *)
(* and the conversations of answer streams - for any numbers of sessions,  *)
(* modules, learners, editors and streams.                                 *)
(***************************************************************************)
EXTENDS Learning, QuizQuestions, Knowledge, MentorChat, Sums

-----------------------------------------------------------------------------
\* A set of session ids that is not empty has a newest one.
LEMMA NewestExists ==
  ASSUME NEW S \in SUBSET SessionIds, S # {}
  PROVE  Newest(S) \in S
<1> DEFINE T == {MaxSessions - s : s \in S}
<1>0. MaxSessions \in Nat /\ \A s \in S : s \in Nat /\ s <= MaxSessions
  BY LearningAssumption DEF SessionIds
<1>1. T \subseteq Nat /\ T # {}
  BY <1>0
<1>2. \A x, y \in Nat : <<y, x>> \in OpToRel(<, Nat) <=> y < x
  BY DEF OpToRel
<1>3. PICK x \in T : \A y \in T : ~(<<y, x>> \in OpToRel(<, Nat))
  BY <1>1, NatLessThanWellFounded, WFMin
<1>4. PICK s \in S : x = MaxSessions - s
  BY <1>3
<1>5. \A t \in S : t <= s
  <2> SUFFICES ASSUME NEW t \in S PROVE t <= s
    OBVIOUS
  <2>1. MaxSessions - t \in T /\ MaxSessions - t \in Nat /\ x \in Nat
    BY <1>1
  <2>2. ~(MaxSessions - t < x)
    BY <1>2, <1>3, <2>1
  <2> QED BY <1>0, <1>4, <2>2
<1> QED BY <1>5 DEF Newest

\* Only a request's own matches are merged, and a group has all of them or none.
LEMMA GroupsClosed ==
  ASSUME NEW G \in Groups
  PROVE  G \subseteq Users /\ \A n \in Names : Merged(n) \subseteq G \/ Merged(n) \cap G = {}
<1>1. PICK others \in SUBSET Users : G = Users \ others /\ Apart(others)
  BY DEF Groups
<1>2. \A n \in Names : Merged(n) \subseteq Users
  BY DEF Merged, Users
<1> QED BY <1>1, <1>2 DEF Apart

Merging == {"scenarios", "modules", "drop", "abandon"}
OneGroup(S) == \A G \in Groups : S \subseteq SessionsOf(G) \/ S \cap SessionsOf(G) = {}

(* What is being tidied: the kept session and its duplicates exist and are *)
(* of one group, there is a duplicate left, its scenarios are moved before *)
(* its modules, and its modules, unless that failed, before it is deleted. *)
TidyIsSound ==
  tidy.stage \in Merging =>
    /\ tidy.dups # {} /\ tidy.keep \notin tidy.dups
    /\ tidy.dups \union {tidy.keep} \subseteq live
    /\ OneGroup(tidy.dups \union {tidy.keep})
    /\ tidy.stage # "scenarios" => scenario[Dup] = {}
    /\ tidy.stage = "drop" => \A m \in Modules : ~progress[Dup][m].row

\* An id that was not given out has no session and counts no tries.
UnissuedIsEmpty ==
  \A s \in SessionIds : owner[s] = Unissued => s \notin live /\ \A m \in Modules : progress[s][m].tries = 0

LearningInv == LearningTypeOK /\ UnissuedIsEmpty /\ TidyIsSound

KeepsAll == \A G \in Groups : Keeps(G)

TidyType == [stage : {"quiet", "summary", "scenarios", "modules", "drop", "abandon"},
             keep : SessionIds \union {0}, dups : SUBSET SessionIds, groups : SUBSET Users]
Board == [SessionIds -> [Modules -> Rows]]
Counts == [SessionIds -> [Modules -> 0..MaxTries]]

LEMMA LearningParts ==
  ASSUME LearningInv
  PROVE  /\ progress \in Board /\ scenario \in [SessionIds -> SUBSET Scenarios]
         /\ attempts \in Counts /\ tidy \in TidyType
         /\ owner \in [SessionIds -> Names \union {Unissued}] /\ live \subseteq SessionIds
         /\ \A G \in Groups : SessionsOf(G) \subseteq SessionIds /\ OpenSessions(G) \subseteq SessionIds
BY DEF LearningInv, LearningTypeOK, TidyType, SessionsOf, OpenSessions, Board, Counts

\* Rows of module_progress, with their fields.
LEMMA NoRowIsRow == NoRow \in Rows /\ NoRow.level = 0 /\ NoRow.tries = 0 /\ ~NoRow.row
BY DEF Rows, NoRow

LEMMA RowAt ==
  ASSUME NEW r \in Rows
  PROVE  r.level \in Levels /\ r.level \in Nat /\ r.tries \in 0..MaxTries
<1>1. CASE r = NoRow
  BY <1>1, LearningAssumption DEF NoRow, Levels
<1>2. CASE r \in [level : Levels, tries : 0..MaxTries, row : {TRUE}]
  BY <1>2 DEF Levels
<1> QED BY <1>1, <1>2 DEF Rows

LEMMA RowRaised ==
  ASSUME NEW r \in Rows, r.row, NEW level \in Levels
  PROVE  /\ [r EXCEPT !.level = level] \in Rows /\ [r EXCEPT !.level = level].level = level
         /\ [r EXCEPT !.level = level].tries = r.tries /\ [r EXCEPT !.level = level].row
<1>0. r # NoRow
  BY NoRowIsRow
<1>1. r \in [level : Levels, tries : 0..MaxTries, row : {TRUE}]
  BY <1>0 DEF Rows
<1> QED BY <1>1 DEF Rows

LEMMA QuietType == Quiet \in TidyType /\ Quiet.stage = "quiet"
BY DEF Quiet, TidyType

LEMMA OverType ==
  ASSUME LearningInv
  PROVE  Over \in TidyType /\ Over.stage \in {"quiet", "summary"}
BY LearningParts DEF Over, Quiet, TidyType

LEMMA LearningInitInv == LearningInit => LearningInv
<1> SUFFICES ASSUME LearningInit PROVE LearningInv
  OBVIOUS
<1>1. LearningTypeOK
  BY QuietType, NoRowIsRow, LearningAssumption DEF LearningInit, LearningTypeOK, TidyType
<1>2. UnissuedIsEmpty
  BY NoRowIsRow DEF LearningInit, UnissuedIsEmpty
<1>3. TidyIsSound
  BY QuietType DEF LearningInit, TidyIsSound, Merging
<1> QED BY <1>1, <1>2, <1>3 DEF LearningInv

-----------------------------------------------------------------------------
\* A step that only turns to other duplicates: who they are is seen to be right.
LEMMA TidyMoves ==
  ASSUME LearningInv, UNCHANGED <<owner, live, scenario, progress, attempts>>, tidy' \in TidyType, TidyIsSound'
  PROVE  LearningInv' /\ KeepsAll
<1>1. \A G \in Groups : SessionsOf(G)' = SessionsOf(G) /\ OpenSessions(G)' = OpenSessions(G)
  BY DEF SessionsOf, OpenSessions
<1>2. LearningTypeOK' /\ UnissuedIsEmpty'
  BY DEF LearningInv, LearningTypeOK, UnissuedIsEmpty, TidyType
<1>3. \A G \in Groups : Keeps(G)
  BY <1>1 DEF Keeps, Done, Reached, HasLevel
<1> QED BY <1>2, <1>3 DEF LearningInv, KeepsAll

\* Of more than one row the newest is kept, and the others are its duplicates.
LEMMA ConsolidateInv ==
  ASSUME LearningInv, UNCHANGED <<owner, live, scenario, progress, attempts>>,
         NEW rows \in SUBSET live, Cardinality(rows) > 1, OneGroup(rows),
         NEW groups \in SUBSET Users, tidy' = Consolidate(rows, groups)
  PROVE  LearningInv' /\ KeepsAll
<1>0. rows # {}
  BY FS_EmptySet
<1>1. rows \in SUBSET SessionIds
  BY LearningParts
<1>2. Newest(rows) \in rows
  BY <1>0, <1>1, NewestExists
<1>3. rows # {Newest(rows)}
  <2>1. ASSUME NEW x PROVE Cardinality({x}) = 1
    BY FS_Singleton
  <2>2. ~(1 > 1)
    OBVIOUS
  <2> QED BY <2>1, <2>2, Zenon
<1>4. /\ tidy' \in TidyType /\ tidy'.stage = "scenarios" /\ tidy'.dups # {} /\ tidy'.keep \notin tidy'.dups
      /\ tidy'.dups \union {tidy'.keep} = rows
  BY <1>1, <1>2, <1>3 DEF Consolidate, TidyType
<1>5. OneGroup(rows)'
  BY DEF OneGroup, SessionsOf
<1>6. TidyIsSound'
  BY <1>4, <1>5 DEF TidyIsSound
<1> QED BY <1>4, <1>6, TidyMoves

LEMMA OpenSessionInv ==
  ASSUME LearningInv, NEW n \in Names, OpenSession(n)
  PROVE  LearningInv' /\ KeepsAll
<1>1. ASSUME NEW s \in Matching(n) PROVE owner[s] \in Names /\ owner[s] # Unissued /\ Person[owner[s]] \in Merged(n)
  BY <1>1, LearningAssumption DEF Matching, Merged
<1>2. Matching(n) \subseteq SessionIds
  BY LearningParts DEF Matching
<1>3. OneGroup(Matching(n))
  <2> SUFFICES ASSUME NEW G \in Groups
               PROVE  Matching(n) \subseteq SessionsOf(G) \/ Matching(n) \cap SessionsOf(G) = {}
    BY DEF OneGroup
  <2>1. CASE Merged(n) \subseteq G
    BY <1>1, <1>2, <2>1 DEF SessionsOf
  <2>2. CASE Merged(n) \cap G = {}
    BY <1>1, <2>2 DEF SessionsOf
  <2> QED BY <2>1, <2>2, GroupsClosed
<1>4. Matching(n) \in SUBSET live
  BY DEF Matching
<1> QED BY <1>3, <1>4, ConsolidateInv DEF OpenSession

LEMMA NextGroupInv ==
  ASSUME LearningInv, NEW u \in Users, NextGroup(u)
  PROVE  LearningInv' /\ KeepsAll
<1>1. /\ UserSessions(u) \in SUBSET live /\ Cardinality(UserSessions(u)) > 1
      /\ tidy' = Consolidate(UserSessions(u), tidy.groups \ {u})
      /\ UNCHANGED <<owner, live, scenario, progress, attempts>>
  BY DEF NextGroup, UserSessions
<1>2. tidy.groups \ {u} \in SUBSET Users
  BY LearningParts DEF TidyType
<1>3. OneGroup(UserSessions(u))
  BY DEF OneGroup, SessionsOf, UserSessions
<1> QED BY <1>1, <1>2, <1>3, ConsolidateInv

\* A new id has no tries yet; nobody else's row is changed.
LEMMA CreateSessionInv ==
  ASSUME LearningInv, NEW n \in Names, NEW readFails \in BOOLEAN, CreateSession(n, readFails)
  PROVE  LearningInv' /\ KeepsAll
<1>1. PICK s \in SessionIds : /\ \A t \in SessionIds : owner[t] = Unissued <=> t >= s
                              /\ owner' = [owner EXCEPT ![s] = n] /\ live' = live \union {s}
  BY DEF CreateSession
<1>2. owner[s] = Unissued /\ Alone /\ UNCHANGED <<scenario, progress, attempts, tidy>>
  BY <1>1 DEF CreateSession, SessionIds
<1>3. /\ owner' \in [SessionIds -> Names \union {Unissued}] /\ owner'[s] = n /\ n # Unissued
      /\ \A t \in SessionIds \ {s} : owner'[t] = owner[t]
  BY <1>1, LearningParts, LearningAssumption
<1>4. LearningTypeOK'
  BY <1>1, <1>2, <1>3 DEF LearningInv, LearningTypeOK
<1>5. UnissuedIsEmpty'
  BY <1>1, <1>2, <1>3 DEF LearningInv, UnissuedIsEmpty
<1>6. TidyIsSound'
  BY <1>2 DEF Alone, TidyIsSound, Merging
<1>7. \A G \in Groups : OpenSessions(G) \subseteq OpenSessions(G)'
  <2>1. s \notin live /\ live \subseteq SessionIds
    BY <1>2, LearningParts DEF LearningInv, UnissuedIsEmpty
  <2> QED BY <1>1, <1>3, <2>1 DEF OpenSessions
<1>8. \A G \in Groups : Keeps(G)
  BY <1>2, <1>7 DEF Keeps, Done, Reached, HasLevel
<1> QED BY <1>4, <1>5, <1>6, <1>8 DEF LearningInv, KeepsAll

\* The steps of tidying that change no row.
LEMMA TidyStepsInv ==
  ASSUME LearningInv,
         SummariseAll \/ ScenariosMerged \/ ModulesMerged \/ ModulesFail \/ TidyFails \/ LearningCrash
  PROVE  LearningInv' /\ KeepsAll
<1>1. UNCHANGED <<owner, live, scenario, progress, attempts>>
  BY DEF SummariseAll, ScenariosMerged, ModulesMerged, ModulesFail, TidyFails, LearningCrash
<1>2. CASE SummariseAll \/ TidyFails \/ LearningCrash
  <2>1. tidy' \in TidyType /\ tidy'.stage \in {"quiet", "summary"}
    BY <1>2, QuietType, OverType DEF SummariseAll, TidyFails, LearningCrash, TidyType
  <2>2. TidyIsSound'
    BY <2>1 DEF TidyIsSound, Merging
  <2> QED BY <1>1, <2>1, <2>2, TidyMoves
<1>3. CASE ScenariosMerged \/ ModulesMerged \/ ModulesFail
  <2>1. PICK stage \in {"modules", "drop", "abandon"} :
          /\ tidy' = [tidy EXCEPT !.stage = stage]
          /\ scenario[Dup] = {} \/ tidy.stage # "scenarios"
          /\ stage = "drop" => \A m \in Modules : ~progress[Dup][m].row
    BY <1>3 DEF ScenariosMerged, ModulesMerged, ModulesFail, AtStage
  <2>2. tidy' \in TidyType /\ tidy'.dups = tidy.dups /\ tidy'.keep = tidy.keep /\ tidy'.stage = stage
    BY <2>1, LearningParts DEF TidyType
  <2>3. tidy.stage \in Merging
    BY <1>3 DEF ScenariosMerged, ModulesMerged, ModulesFail, AtStage, Merging
  <2>4. Dup' = Dup
    BY <2>2 DEF Dup
  <2>5. OneGroup(tidy.dups \union {tidy.keep})'
    BY <1>1, <2>2, <2>3 DEF LearningInv, TidyIsSound, OneGroup, SessionsOf
  <2>6. TidyIsSound'
    BY <1>1, <2>1, <2>2, <2>3, <2>4, <2>5 DEF LearningInv, TidyIsSound
  <2> QED BY <1>1, <2>2, <2>6, TidyMoves
<1> QED BY <1>2, <1>3

-----------------------------------------------------------------------------
\* The duplicate that is merged is another session that exists, of the same group.
LEMMA DupIsAnother ==
  ASSUME LearningInv, tidy.stage \in Merging
  PROVE  /\ Dup \in tidy.dups /\ Dup \in SessionIds /\ tidy.keep \in SessionIds /\ Dup # tidy.keep
         /\ Dup \in live /\ tidy.keep \in live
         /\ \A G \in Groups : /\ Dup \in SessionsOf(G) <=> tidy.keep \in SessionsOf(G)
                              /\ Dup \in OpenSessions(G) <=> tidy.keep \in OpenSessions(G)
<1>1. /\ tidy.dups # {} /\ tidy.keep \notin tidy.dups /\ tidy.dups \union {tidy.keep} \subseteq live
      /\ OneGroup(tidy.dups \union {tidy.keep})
  BY DEF LearningInv, TidyIsSound
<1>2. live \subseteq SessionIds /\ tidy.dups \subseteq SessionIds
  BY <1>1, LearningParts
<1>3. Dup \in tidy.dups
  BY <1>1, <1>2, NewestExists DEF Dup
<1>4. \A G \in Groups, s \in live : s \in OpenSessions(G) <=> s \in SessionsOf(G)
  BY <1>2 DEF LearningInv, UnissuedIsEmpty, OpenSessions, SessionsOf
<1> QED BY <1>1, <1>2, <1>3, <1>4 DEF OneGroup

(* A step that changes scenarios alone is right if each is found in an     *)
(* open session of the same group after the step.                          *)
LEMMA ScenariosMove ==
  ASSUME LearningInv, UNCHANGED <<owner, live, progress, attempts, tidy>>, tidy.stage \in {"quiet", "scenarios"},
         scenario' \in [SessionIds -> SUBSET Scenarios],
         \A G \in Groups : \A s \in OpenSessions(G) : \A c \in scenario[s] : \E t \in OpenSessions(G) : c \in scenario'[t]
  PROVE  LearningInv' /\ KeepsAll
<1>1. \A G \in Groups : SessionsOf(G)' = SessionsOf(G) /\ OpenSessions(G)' = OpenSessions(G)
  BY DEF SessionsOf, OpenSessions
<1>2. LearningTypeOK' /\ UnissuedIsEmpty'
  BY DEF LearningInv, LearningTypeOK, UnissuedIsEmpty
<1>3. TidyIsSound'
  BY <1>1 DEF LearningInv, TidyIsSound, OneGroup, Merging, Dup
<1>4. \A G \in Groups : Keeps(G)
  BY <1>1 DEF Keeps, Done, Reached, HasLevel
<1> QED BY <1>2, <1>3, <1>4 DEF LearningInv, KeepsAll

LEMMA MergeScenarioInv ==
  ASSUME LearningInv, NEW c \in Scenarios, MergeScenario(c)
  PROVE  LearningInv' /\ KeepsAll
<1>1. UNCHANGED <<owner, live, progress, attempts, tidy>>
  BY DEF MergeScenario
<1>2. tidy.stage = "scenarios" /\ tidy.stage \in Merging
  BY DEF MergeScenario, AtStage, Merging
<1> DEFINE moved == [scenario EXCEPT ![Dup] = @ \ {c}]
<1>3. scenario' = [moved EXCEPT ![tidy.keep] = @ \union {c}]
  BY DEF MergeScenario
<1>4. moved \in [SessionIds -> SUBSET Scenarios] /\ moved[Dup] = scenario[Dup] \ {c}
      /\ \A s \in SessionIds \ {Dup} : moved[s] = scenario[s]
  BY <1>2, DupIsAnother, LearningParts
<1> HIDE DEF moved
<1>5. scenario' \in [SessionIds -> SUBSET Scenarios] /\ scenario'[tidy.keep] = moved[tidy.keep] \union {c}
      /\ \A s \in SessionIds \ {tidy.keep} : scenario'[s] = moved[s]
  BY <1>2, <1>3, <1>4, DupIsAnother
<1>6. ASSUME NEW G \in Groups, NEW s \in OpenSessions(G), NEW d \in scenario[s]
      PROVE  \E t \in OpenSessions(G) : d \in scenario'[t]
  <2>1. s \in SessionIds
    BY LearningParts
  <2>2. CASE s = Dup /\ d = c
    BY <1>2, <1>5, <2>2, DupIsAnother
  <2>3. CASE ~(s = Dup /\ d = c)
    <3>1. d \in moved[s]
      BY <1>4, <2>1, <2>3
    <3>2. d \in scenario'[s]
      BY <1>5, <2>1, <3>1
    <3> QED BY <3>2
  <2> QED BY <2>2, <2>3
<1> QED BY <1>1, <1>2, <1>5, <1>6, ScenariosMove

LEMMA SaveProgressInv ==
  ASSUME LearningInv, NEW s \in SessionIds, NEW c \in Scenarios, SaveProgress(s, c)
  PROVE  LearningInv' /\ KeepsAll
<1>1. UNCHANGED <<owner, live, progress, attempts, tidy>> /\ tidy.stage = "quiet"
  BY DEF SaveProgress, Issued, Alone
<1>2. scenario' = [scenario EXCEPT ![s] = @ \union {c}]
  BY DEF SaveProgress
<1>3. scenario' \in [SessionIds -> SUBSET Scenarios] /\ \A t \in SessionIds : scenario[t] \subseteq scenario'[t]
  BY <1>2, LearningParts
<1>4. \A G \in Groups : \A t \in OpenSessions(G) : scenario[t] \subseteq scenario'[t]
  BY <1>3, LearningParts
<1> QED BY <1>1, <1>3, <1>4, ScenariosMove

LEMMA DropSessionInv ==
  ASSUME LearningInv, DropSession
  PROVE  LearningInv' /\ KeepsAll
<1>1. /\ UNCHANGED <<owner, scenario, progress, attempts>> /\ live' = live \ {Dup}
      /\ tidy.stage \in {"drop", "abandon"} /\ tidy.stage \in Merging
  BY DEF DropSession, AtStage, Merging
<1>2. /\ tidy.keep \notin tidy.dups /\ tidy.dups \union {tidy.keep} \subseteq live
      /\ OneGroup(tidy.dups \union {tidy.keep}) /\ scenario[Dup] = {}
      /\ tidy.stage = "drop" => \A m \in Modules : ~progress[Dup][m].row
  BY <1>1 DEF LearningInv, TidyIsSound
<1>3. tidy' \in TidyType /\ TidyIsSound'
  <2>1. CASE tidy.dups = {Dup}
    <3>1. tidy' \in TidyType /\ tidy'.stage \in {"quiet", "summary"}
      BY <2>1, OverType DEF DropSession
    <3> QED BY <3>1 DEF TidyIsSound, Merging
  <2>2. CASE tidy.dups # {Dup}
    <3>1. tidy' = [tidy EXCEPT !.stage = "scenarios", !.dups = @ \ {Dup}]
      BY <2>2 DEF DropSession
    <3>2. /\ tidy' \in TidyType /\ tidy'.dups = tidy.dups \ {Dup} /\ tidy'.keep = tidy.keep
          /\ tidy'.stage = "scenarios"
      BY <3>1, LearningParts DEF TidyType
    <3>3. Dup \in tidy.dups /\ Dup # tidy.keep
      BY <1>1, DupIsAnother
    <3>4. OneGroup(tidy.dups \union {tidy.keep})'
      BY <1>1, <1>2, <3>2 DEF OneGroup, SessionsOf
    <3>5. tidy'.dups # {} /\ tidy'.keep \notin tidy'.dups /\ tidy'.dups \union {tidy'.keep} \subseteq live'
      BY <1>1, <1>2, <2>2, <3>2, <3>3
    <3> QED BY <3>2, <3>4, <3>5 DEF TidyIsSound
  <2> QED BY <2>1, <2>2
<1>4. LearningTypeOK' /\ UnissuedIsEmpty'
  BY <1>1, <1>3 DEF LearningInv, LearningTypeOK, UnissuedIsEmpty, TidyType
<1>5. \A G \in Groups : \A s \in OpenSessions(G) : s # Dup => s \in OpenSessions(G)'
  BY <1>1 DEF OpenSessions, SessionsOf
<1>6. ASSUME NEW G \in Groups PROVE Keeps(G)
  <2> SUFFICES ASSUME NEW s \in OpenSessions(G)
               PROVE  /\ \A c \in scenario[s] : Done(G, c)'
                      /\ \A m \in Modules, level \in Levels :
                           (~Alone \/ level = Completed) /\ HasLevel(s, m, level) =>
                             \/ Reached(G, m, level)'
                             \/ tidy.stage = "abandon" /\ s \notin live' /\ HasLevel(s, m, level)'
    BY DEF Keeps
  <2>1. CASE s = Dup
    BY <1>1, <1>2, <2>1 DEF HasLevel
  <2>2. CASE s # Dup
    BY <1>1, <1>5, <2>2 DEF Done, Reached, HasLevel
  <2> QED BY <2>1, <2>2
<1> QED BY <1>3, <1>4, <1>6 DEF LearningInv, KeepsAll

-----------------------------------------------------------------------------
\* One row is written, the others stay.
LEMMA SetRow ==
  ASSUME NEW board \in Board, NEW s \in SessionIds, NEW m \in Modules, NEW r \in Rows
  PROVE  /\ [board EXCEPT ![s][m] = r] \in Board
         /\ [board EXCEPT ![s][m] = r][s][m] = r
         /\ \A t \in SessionIds, n \in Modules :
              ~(t = s /\ n = m) => [board EXCEPT ![s][m] = r][t][n] = board[t][n]
BY DEF Board

(* A step that changes module rows alone is right if ids not given out     *)
(* stay empty and each level that is protected is found in an open session *)
(* of the same group after the step, or was taken back by force.           *)
LEMMA ProgressMoves ==
  ASSUME LearningInv, UNCHANGED <<owner, live, scenario, tidy>>, tidy.stage \in {"quiet", "modules"},
         progress' \in Board, attempts' \in Counts,
         \A s \in SessionIds, m \in Modules : owner[s] = Unissued => progress'[s][m].tries = 0,
         \A G \in Groups : \A s \in OpenSessions(G) : \A m \in Modules, level \in Levels :
           progress[s][m].row /\ progress[s][m].level >= level /\ (~Alone \/ level = Completed) =>
             \/ \E t \in OpenSessions(G) : progress'[t][m].row /\ progress'[t][m].level >= level
             \/ \E to \in Levels : UpdateProgress(s, m, to, TRUE)
  PROVE  LearningInv' /\ KeepsAll
<1>1. \A G \in Groups : SessionsOf(G)' = SessionsOf(G) /\ OpenSessions(G)' = OpenSessions(G)
  BY DEF SessionsOf, OpenSessions
<1>2. LearningTypeOK'
  BY DEF LearningInv, LearningTypeOK, Board, Counts
<1>3. UnissuedIsEmpty'
  BY DEF LearningInv, UnissuedIsEmpty
<1>4. TidyIsSound'
  BY <1>1 DEF LearningInv, TidyIsSound, OneGroup, Dup
<1>5. ASSUME NEW G \in Groups PROVE Keeps(G)
  <2> SUFFICES ASSUME NEW s \in OpenSessions(G)
               PROVE  /\ \A c \in scenario[s] : Done(G, c)'
                      /\ \A m \in Modules, level \in Levels :
                           (~Alone \/ level = Completed) /\ HasLevel(s, m, level) =>
                             \/ Reached(G, m, level)'
                             \/ \E to \in Levels : UpdateProgress(s, m, to, TRUE)
    BY DEF Keeps
  <2>1. \A c \in scenario[s] : Done(G, c)'
    BY <1>1 DEF Done
  <2>2. ASSUME NEW m \in Modules, NEW level \in Levels, ~Alone \/ level = Completed, HasLevel(s, m, level)
        PROVE  \/ Reached(G, m, level)'
               \/ \E to \in Levels : UpdateProgress(s, m, to, TRUE)
    <3>1. progress[s][m].row /\ progress[s][m].level >= level
      BY <2>2 DEF HasLevel
    <3>2. CASE \E t \in OpenSessions(G) : progress'[t][m].row /\ progress'[t][m].level >= level
      BY <1>1, <3>2 DEF Reached, HasLevel
    <3> QED BY <2>2, <3>1, <3>2
  <2> QED BY <2>1, <2>2
<1> QED BY <1>2, <1>3, <1>4, <1>5 DEF LearningInv, KeepsAll

\* What every merging of modules starts from.
LEMMA MergingModules ==
  ASSUME LearningInv, AtStage("modules"), NEW m \in Modules
  PROVE  /\ tidy.stage = "modules" /\ tidy.stage \in Merging /\ progress \in Board /\ attempts \in Counts
         /\ Dup \in SessionIds /\ tidy.keep \in SessionIds /\ Dup # tidy.keep
         /\ \A G \in Groups : Dup \in OpenSessions(G) <=> tidy.keep \in OpenSessions(G)
         /\ progress[Dup][m] \in Rows /\ progress[tidy.keep][m] \in Rows
         /\ owner[Dup] # Unissued /\ owner[tidy.keep] # Unissued
<1>1. tidy.stage = "modules" /\ tidy.stage \in Merging
  BY DEF AtStage, Merging
<1>2. /\ Dup \in SessionIds /\ tidy.keep \in SessionIds /\ Dup # tidy.keep /\ Dup \in live /\ tidy.keep \in live
      /\ \A G \in Groups : Dup \in OpenSessions(G) <=> tidy.keep \in OpenSessions(G)
  BY <1>1, DupIsAnother
<1> QED BY <1>1, <1>2, LearningParts DEF Board, LearningInv, UnissuedIsEmpty

LEMMA MoveModuleInv ==
  ASSUME LearningInv, NEW m \in Modules, MoveModule(m)
  PROVE  LearningInv' /\ KeepsAll
<1> DEFINE keep == tidy.keep
           moved == [progress EXCEPT ![keep][m] = progress[Dup][m]]
<1>1. /\ UNCHANGED <<owner, live, scenario, attempts, tidy>> /\ AtStage("modules") /\ ~progress[keep][m].row
      /\ progress' = [moved EXCEPT ![Dup][m] = NoRow]
  BY DEF MoveModule
<1>2. /\ Dup \in SessionIds /\ keep \in SessionIds /\ Dup # keep /\ progress \in Board /\ progress[Dup][m] \in Rows
      /\ owner[Dup] # Unissued /\ owner[keep] # Unissued /\ tidy.stage = "modules" /\ attempts \in Counts
      /\ \A G \in Groups : Dup \in OpenSessions(G) <=> keep \in OpenSessions(G)
  BY <1>1, MergingModules
<1> HIDE DEF keep
<1>3. /\ moved \in Board /\ moved[keep][m] = progress[Dup][m]
      /\ \A t \in SessionIds, n \in Modules : ~(t = keep /\ n = m) => moved[t][n] = progress[t][n]
  BY <1>2, SetRow
<1> HIDE DEF moved
<1>4. /\ progress' \in Board /\ progress'[Dup][m] = NoRow
      /\ \A t \in SessionIds, n \in Modules : ~(t = Dup /\ n = m) => progress'[t][n] = moved[t][n]
  <2>1. /\ [moved EXCEPT ![Dup][m] = NoRow] \in Board /\ [moved EXCEPT ![Dup][m] = NoRow][Dup][m] = NoRow
        /\ \A t \in SessionIds, n \in Modules :
             ~(t = Dup /\ n = m) => [moved EXCEPT ![Dup][m] = NoRow][t][n] = moved[t][n]
    BY <1>2, <1>3, NoRowIsRow, SetRow
  <2> QED BY <1>1, <2>1
<1>5. /\ progress'[keep][m] = progress[Dup][m]
      /\ \A t \in SessionIds, n \in Modules : ~(n = m /\ t \in {keep, Dup}) => progress'[t][n] = progress[t][n]
  BY <1>2, <1>3, <1>4
<1>6. ASSUME NEW s \in SessionIds, NEW n \in Modules, owner[s] = Unissued PROVE progress'[s][n].tries = 0
  BY <1>2, <1>5, <1>6 DEF LearningInv, UnissuedIsEmpty
<1>7. ASSUME NEW G \in Groups, NEW s \in OpenSessions(G), NEW n \in Modules, NEW level \in Levels,
             progress[s][n].row /\ progress[s][n].level >= level
      PROVE  \E t \in OpenSessions(G) : progress'[t][n].row /\ progress'[t][n].level >= level
  <2>1. s \in SessionIds
    BY LearningParts
  <2>2. CASE s = Dup /\ n = m
    BY <1>2, <1>5, <1>7, <2>2
  <2>3. CASE ~(s = Dup /\ n = m)
    BY <1>1, <1>5, <1>7, <2>1, <2>3
  <2> QED BY <2>2, <2>3
<1> QED BY <1>1, <1>2, <1>4, <1>6, <1>7, ProgressMoves

LEMMA RaiseModuleInv ==
  ASSUME LearningInv, NEW m \in Modules, RaiseModule(m)
  PROVE  LearningInv' /\ KeepsAll
<1> DEFINE keep == tidy.keep
           raised == [progress[keep][m] EXCEPT !.level = progress[Dup][m].level]
<1>1. /\ UNCHANGED <<owner, live, scenario, attempts, tidy>> /\ AtStage("modules")
      /\ progress[keep][m].row /\ progress[Dup][m].level > progress[keep][m].level
      /\ progress' = [progress EXCEPT ![keep][m].level = progress[Dup][m].level]
  BY DEF RaiseModule
<1>2. /\ keep \in SessionIds /\ progress \in Board /\ progress[Dup][m] \in Rows /\ progress[keep][m] \in Rows
      /\ tidy.stage = "modules" /\ attempts \in Counts
  BY <1>1, MergingModules
<1>3. raised \in Rows /\ raised.level = progress[Dup][m].level /\ raised.tries = progress[keep][m].tries /\ raised.row
  <2>1. progress[Dup][m].level \in Levels
    BY <1>2, RowAt
  <2> QED BY <1>1, <1>2, <2>1, RowRaised
<1>4. progress' = [progress EXCEPT ![keep][m] = raised]
  BY <1>1, <1>2 DEF Board
<1> HIDE DEF raised, keep
<1>5. /\ progress' \in Board /\ progress'[keep][m] = raised
      /\ \A t \in SessionIds, n \in Modules : ~(t = keep /\ n = m) => progress'[t][n] = progress[t][n]
  <2>1. /\ [progress EXCEPT ![keep][m] = raised] \in Board /\ [progress EXCEPT ![keep][m] = raised][keep][m] = raised
        /\ \A t \in SessionIds, n \in Modules :
             ~(t = keep /\ n = m) => [progress EXCEPT ![keep][m] = raised][t][n] = progress[t][n]
    BY <1>2, <1>3, SetRow
  <2> QED BY <1>4, <2>1
<1>6. ASSUME NEW s \in SessionIds, NEW n \in Modules, owner[s] = Unissued PROVE progress'[s][n].tries = 0
  BY <1>3, <1>5, <1>6 DEF LearningInv, UnissuedIsEmpty
<1>7. ASSUME NEW G \in Groups, NEW s \in OpenSessions(G), NEW n \in Modules, NEW level \in Levels,
             progress[s][n].row /\ progress[s][n].level >= level
      PROVE  \E t \in OpenSessions(G) : progress'[t][n].row /\ progress'[t][n].level >= level
  <2>1. s \in SessionIds
    BY LearningParts
  <2>2. CASE s = keep /\ n = m
    <3>1. raised.level > progress[keep][m].level /\ progress[keep][m].level >= level
      BY <1>1, <1>3, <1>7, <2>2 DEF keep
    <3>2. raised.level \in Nat /\ progress[keep][m].level \in Nat /\ level \in Nat
      BY <1>2, <1>3, RowAt DEF Levels
    <3> QED BY <1>3, <1>5, <2>2, <3>1, <3>2
  <2>3. CASE ~(s = keep /\ n = m)
    BY <1>5, <1>7, <2>1, <2>3
  <2> QED BY <2>2, <2>3
<1> QED BY <1>1, <1>2, <1>5, <1>6, <1>7, ProgressMoves

LEMMA DropModuleInv ==
  ASSUME LearningInv, NEW m \in Modules, DropModule(m)
  PROVE  LearningInv' /\ KeepsAll
<1> DEFINE keep == tidy.keep
<1>1. /\ UNCHANGED <<owner, live, scenario, attempts, tidy>> /\ AtStage("modules")
      /\ progress[keep][m].row /\ progress[Dup][m].level <= progress[keep][m].level
      /\ progress' = [progress EXCEPT ![Dup][m] = NoRow]
  BY DEF DropModule
<1>2. /\ Dup \in SessionIds /\ keep \in SessionIds /\ Dup # keep /\ progress \in Board
      /\ progress[Dup][m] \in Rows /\ progress[keep][m] \in Rows
      /\ tidy.stage = "modules" /\ attempts \in Counts
      /\ \A G \in Groups : Dup \in OpenSessions(G) <=> keep \in OpenSessions(G)
  BY <1>1, MergingModules
<1> HIDE DEF keep
<1>3. /\ progress' \in Board /\ progress'[Dup][m] = NoRow
      /\ \A t \in SessionIds, n \in Modules : ~(t = Dup /\ n = m) => progress'[t][n] = progress[t][n]
  <2>1. /\ [progress EXCEPT ![Dup][m] = NoRow] \in Board /\ [progress EXCEPT ![Dup][m] = NoRow][Dup][m] = NoRow
        /\ \A t \in SessionIds, n \in Modules :
             ~(t = Dup /\ n = m) => [progress EXCEPT ![Dup][m] = NoRow][t][n] = progress[t][n]
    BY <1>2, NoRowIsRow, SetRow
  <2> QED BY <1>1, <2>1
<1>4. ASSUME NEW s \in SessionIds, NEW n \in Modules, owner[s] = Unissued PROVE progress'[s][n].tries = 0
  BY <1>3, <1>4, NoRowIsRow DEF LearningInv, UnissuedIsEmpty
<1>5. ASSUME NEW G \in Groups, NEW s \in OpenSessions(G), NEW n \in Modules, NEW level \in Levels,
             progress[s][n].row /\ progress[s][n].level >= level
      PROVE  \E t \in OpenSessions(G) : progress'[t][n].row /\ progress'[t][n].level >= level
  <2>1. s \in SessionIds
    BY LearningParts
  <2>2. CASE s = Dup /\ n = m
    <3>1. progress[keep][m].level \in Nat /\ progress[Dup][m].level \in Nat /\ level \in Nat
      BY <1>2, RowAt DEF Levels
    <3>2. progress[keep][m].level >= level
      BY <1>1, <1>5, <2>2, <3>1
    <3>3. progress'[keep][m] = progress[keep][m] /\ keep \in OpenSessions(G)
      BY <1>2, <1>3, <2>2
    <3> QED BY <1>1, <2>2, <3>2, <3>3
  <2>3. CASE ~(s = Dup /\ n = m)
    BY <1>3, <1>5, <2>1, <2>3
  <2> QED BY <2>2, <2>3
<1> QED BY <1>1, <1>2, <1>3, <1>4, <1>5, ProgressMoves

LEMMA UpdateProgressInv ==
  ASSUME LearningInv, NEW s \in SessionIds, NEW m \in Modules, NEW level \in Levels, NEW force \in BOOLEAN,
         UpdateProgress(s, m, level, force)
  PROVE  LearningInv' /\ KeepsAll
<1> DEFINE row == [level |-> level, tries |-> progress[s][m].tries, row |-> TRUE]
<1>1. /\ UNCHANGED <<owner, live, scenario, attempts, tidy>> /\ Alone /\ tidy.stage = "quiet" /\ owner[s] # Unissued
      /\ force <=> progress[s][m].level = Completed
  BY DEF UpdateProgress, Issued, Alone
<1>2. progress \in Board /\ progress[s][m] \in Rows /\ attempts \in Counts
  BY LearningParts DEF Board
<1>3. row \in Rows /\ row.tries = progress[s][m].tries
  BY <1>2, RowAt DEF Rows
<1>4. progress' = [progress EXCEPT ![s][m] = row]
  BY <1>2 DEF UpdateProgress, Board
<1> HIDE DEF row
<1>5. /\ progress' \in Board /\ progress'[s][m] = row
      /\ \A t \in SessionIds, n \in Modules : ~(t = s /\ n = m) => progress'[t][n] = progress[t][n]
  <2>1. /\ [progress EXCEPT ![s][m] = row] \in Board /\ [progress EXCEPT ![s][m] = row][s][m] = row
        /\ \A t \in SessionIds, n \in Modules :
             ~(t = s /\ n = m) => [progress EXCEPT ![s][m] = row][t][n] = progress[t][n]
    BY <1>2, <1>3, SetRow
  <2> QED BY <1>4, <2>1
<1>6. ASSUME NEW t \in SessionIds, NEW n \in Modules, owner[t] = Unissued PROVE progress'[t][n].tries = 0
  BY <1>1, <1>5, <1>6 DEF LearningInv, UnissuedIsEmpty
\* A completed row is only written over by force.
<1>7. ASSUME NEW G \in Groups, NEW t \in OpenSessions(G), NEW n \in Modules, NEW l \in Levels,
             progress[t][n].row /\ progress[t][n].level >= l, ~Alone \/ l = Completed
      PROVE  \/ \E x \in OpenSessions(G) : progress'[x][n].row /\ progress'[x][n].level >= l
             \/ \E to \in Levels : UpdateProgress(t, n, to, TRUE)
  <2>1. t \in SessionIds /\ l = 2
    BY <1>1, <1>7, LearningParts DEF Completed
  <2>2. CASE t = s /\ n = m
    <3>1. progress[s][m].level \in 0..2
      BY <1>2, RowAt DEF Levels
    <3>2. force = TRUE
      BY <1>1, <1>7, <2>1, <2>2, <3>1 DEF Completed
    <3>3. UpdateProgress(s, m, level, TRUE)
      BY <3>2
    <3> QED BY <2>2, <3>3
  <2>3. CASE ~(t = s /\ n = m)
    BY <1>5, <1>7, <2>1, <2>3
  <2> QED BY <2>2, <2>3
<1> QED BY <1>1, <1>2, <1>5, <1>6, <1>7, ProgressMoves

-----------------------------------------------------------------------------
LEMMA CountBounded ==
  ASSUME NEW counts \in Counts, NEW m \in Modules, NEW S \in SUBSET SessionIds
  PROVE  /\ IsFiniteSet(S) /\ MaxTries \in Nat
         /\ \A s \in S : [x \in SessionIds |-> counts[x][m]][s] = counts[s][m] /\ counts[s][m] \in 0..MaxTries
<1>1. IsFiniteSet(S)
  <2>1. 1 \in Int /\ MaxSessions \in Int
    BY LearningAssumption
  <2>2. IsFiniteSet(SessionIds)
    BY <2>1, FS_Interval DEF SessionIds
  <2> QED BY <2>2, FS_Subset
<1> QED BY <1>1, LearningAssumption DEF Counts

CountPerSession(counts, m) == [s \in SessionIds |-> counts[s][m]]

\* What some sessions count, as a total of numbers.
LEMMA CountInTotal ==
  ASSUME NEW counts \in Counts, NEW m \in Modules, NEW S \in SUBSET SessionIds
  PROVE  CountOf(counts, m, S) = Total(CountPerSession(counts, m), S)
<1> DEFINE f == CountPerSession(counts, m)
<1>1. \A s \in S : f[s] = counts[s][m]
  BY CountBounded DEF CountPerSession
<1>2. ASSUME NEW h
      PROVE  [s \in SUBSET S |-> IF s = {} THEN 0 ELSE counts[Unit(s)][m] + h[s \ {Unit(s)}]]
               = [s \in SUBSET S |-> IF s = {} THEN 0 ELSE f[Unit(s)] + h[s \ {Unit(s)}]]
  <2>1. \A s \in SUBSET S : s # {} => Unit(s) \in S
    BY DEF Unit
  <2> HIDE DEF f
  <2> QED BY <1>1, <2>1
<1> DEFINE P(h) == h = [s \in SUBSET S |-> IF s = {} THEN 0 ELSE counts[Unit(s)][m] + h[s \ {Unit(s)}]]
<1>3. \A h : P(h) <=> AddsUp(h, f, S)
  BY <1>2 DEF AddsUp
<1>4. CountOf(counts, m, S) = (CHOOSE h : P(h))[S]
  BY DEF CountOf, MapThenSumSet, MapThenFoldSet, Unit
<1>5. (CHOOSE h : P(h)) = (CHOOSE h : AddsUp(h, f, S))
  <2> HIDE DEF P
  <2> QED BY <1>3, Zenon
<1>6. Total(f, S) = (CHOOSE h : AddsUp(h, f, S))[S]
  BY DEF Total, MapThenSumSet, MapThenFoldSet, AddsUp, Unit
<1> QED BY <1>4, <1>5, <1>6

LEMMA CountInNat ==
  ASSUME NEW counts \in Counts, NEW m \in Modules, NEW S \in SUBSET SessionIds
  PROVE  CountOf(counts, m, S) \in Nat
<1>1. \A s \in S : CountPerSession(counts, m)[s] \in 0..MaxTries
  BY CountBounded DEF CountPerSession
<1> QED BY <1>1, CountBounded, CountInTotal, SumCounts

\* No session counts more than before, and none has left.
LEMMA CountGrows ==
  ASSUME NEW counts \in Counts, NEW next \in Counts, NEW m \in Modules,
         NEW T \in SUBSET SessionIds, NEW S \in SUBSET T,
         \A s \in S : counts[s][m] <= next[s][m]
  PROVE  CountOf(counts, m, S) <= CountOf(next, m, T)
<1> DEFINE f == CountPerSession(counts, m)
           g == CountPerSession(next, m)
<1>1. S \in SUBSET SessionIds /\ IsFiniteSet(T) /\ MaxTries \in Nat
  BY CountBounded
<1>2. /\ \A s \in S : f[s] \in 0..MaxTries /\ f[s] <= g[s]
      /\ \A s \in T : g[s] \in 0..MaxTries
  BY <1>1, CountBounded DEF CountPerSession
<1> HIDE DEF f, g
<1>3. Total(f, S) <= Total(g, T)
  BY <1>1, <1>2, TotalMonotone
<1> QED BY <1>1, <1>3, CountInTotal DEF f, g

\* One session counts what it counts, the others the rest.
LEMMA CountSplit ==
  ASSUME NEW counts \in Counts, NEW m \in Modules, NEW S \in SUBSET SessionIds, NEW s \in S
  PROVE  /\ CountOf(counts, m, S) = counts[s][m] + CountOf(counts, m, S \ {s})
         /\ counts[s][m] \in Nat /\ CountOf(counts, m, S \ {s}) \in Nat
<1> DEFINE f == CountPerSession(counts, m)
<1>1. S \ {s} \in SUBSET SessionIds
  OBVIOUS
<1>2. f[s] = counts[s][m] /\ \A t \in S : f[t] \in 0..MaxTries
  BY CountBounded DEF CountPerSession
<1> HIDE DEF f
<1>3. Total(f, S) = f[s] + Total(f, S \ {s}) /\ f[s] \in Nat /\ Total(f, S \ {s}) \in Nat
  BY <1>2, CountBounded, TotalSplit
<1> QED BY <1>1, <1>2, <1>3, CountInTotal DEF f

\* What one session hands to another that had none stays in the sum.
LEMMA CountHandedOver ==
  ASSUME NEW counts \in Counts, NEW next \in Counts, NEW m \in Modules, NEW S \in SUBSET SessionIds,
         NEW from \in S, NEW to \in S, from # to, next[to][m] = counts[from][m], next[from][m] = 0,
         \A s \in S \ {from, to} : next[s][m] = counts[s][m]
  PROVE  CountOf(next, m, S) <= CountOf(counts, m, S)
<1> DEFINE T == S \ {from}
           U == T \ {to}
<1>1. T \in SUBSET SessionIds /\ U \in SUBSET SessionIds /\ to \in T /\ U \in SUBSET U
  OBVIOUS
<1>2. \A s \in U : next[s][m] <= counts[s][m]
  <2> SUFFICES ASSUME NEW s \in U PROVE next[s][m] <= counts[s][m]
    OBVIOUS
  <2>1. counts[s][m] \in 0..MaxTries /\ next[s][m] = counts[s][m]
    BY DEF Counts
  <2> QED BY <2>1, LearningAssumption
<1> HIDE DEF U
<1>3. CountOf(next, m, U) <= CountOf(counts, m, U)
  BY <1>1, <1>2, CountGrows
<1>4. PICK a, b, d, e, t \in Nat :
        /\ a = CountOf(next, m, U) /\ b = CountOf(counts, m, U)
        /\ d = counts[from][m] /\ e = counts[to][m] /\ t = CountOf(counts, m, T)
  <2>1. CountOf(next, m, U) \in Nat /\ CountOf(counts, m, U) \in Nat /\ CountOf(counts, m, T) \in Nat
    BY <1>1, CountInNat
  <2>2. counts[from][m] \in Nat /\ counts[to][m] \in Nat
    BY CountSplit
  <2> QED BY <2>1, <2>2
<1>5. CountOf(next, m, S) = 0 + CountOf(next, m, T)
  BY CountSplit
<1>6. CountOf(next, m, T) = d + a
  <2> HIDE DEF T
  <2>1. CountOf(next, m, T) = next[to][m] + CountOf(next, m, U)
    BY <1>1, CountSplit DEF U
  <2> QED BY <1>4, <2>1
<1>7. CountOf(counts, m, S) = d + t
  BY <1>4, CountSplit
<1>8. t = e + b
  <2> HIDE DEF T
  <2>1. CountOf(counts, m, T) = counts[to][m] + CountOf(counts, m, U)
    BY <1>1, CountSplit DEF U
  <2> QED BY <1>4, <2>1
<1>9. 0 + (d + a) <= d + t
  BY <1>3, <1>4, <1>8
<1> QED BY <1>5, <1>6, <1>7, <1>9

-----------------------------------------------------------------------------
\* The attempt is recorded before the row counts it.
LEMMA SubmitQuizInv ==
  ASSUME LearningInv, NEW s \in SessionIds, NEW m \in Modules, NEW completes \in BOOLEAN,
         SubmitQuiz(s, m, completes)
  PROVE  LearningInv' /\ KeepsAll
<1> DEFINE row == [level |-> Completed, tries |-> progress[s][m].tries + 1, row |-> TRUE]
<1>1. /\ UNCHANGED <<owner, live, scenario, tidy>> /\ tidy.stage = "quiet" /\ owner[s] # Unissued
      /\ progress[s][m].tries < MaxTries /\ CountOf(attempts, m, SessionIds) < MaxTries
      /\ attempts' = [attempts EXCEPT ![s][m] = @ + 1]
      /\ progress' = IF completes THEN [progress EXCEPT ![s][m] = [level |-> Completed, tries |-> @.tries + 1, row |-> TRUE]]
                     ELSE progress
  BY DEF SubmitQuiz, MayTry, Issued, Alone, AfterQuiz
<1>2. progress \in Board /\ progress[s][m] \in Rows /\ attempts \in Counts
  BY LearningParts DEF Board
<1>3. attempts' \in Counts
  <2>1. /\ CountOf(attempts, m, SessionIds) = attempts[s][m] + CountOf(attempts, m, SessionIds \ {s})
        /\ attempts[s][m] \in Nat /\ CountOf(attempts, m, SessionIds \ {s}) \in Nat
    BY <1>2, CountSplit
  <2>2. attempts[s][m] + 1 \in 0..MaxTries
    BY <1>1, <2>1, LearningAssumption
  <2> QED BY <1>1, <1>2, <2>2 DEF Counts
<1>4. row \in Rows /\ row.level = Completed /\ row.row
  <2>1. progress[s][m].tries \in 0..MaxTries
    BY <1>2, RowAt
  <2>2. progress[s][m].tries + 1 \in 0..MaxTries
    BY <1>1, <2>1, LearningAssumption
  <2>3. Completed \in Levels
    BY DEF Completed, Levels
  <2> QED BY <2>2, <2>3 DEF Rows
<1>5. CASE completes = FALSE
  <2>1. progress' = progress
    BY <1>1, <1>5
  <2> QED BY <1>1, <1>2, <1>3, <2>1, ProgressMoves DEF LearningInv, UnissuedIsEmpty
<1>6. CASE completes = TRUE
  <2>1. progress' = [progress EXCEPT ![s][m] = row]
    BY <1>1, <1>2, <1>6 DEF Board
  <2> HIDE DEF row
  <2>2. /\ progress' \in Board /\ progress'[s][m] = row
        /\ \A t \in SessionIds, n \in Modules : ~(t = s /\ n = m) => progress'[t][n] = progress[t][n]
    <3>1. /\ [progress EXCEPT ![s][m] = row] \in Board /\ [progress EXCEPT ![s][m] = row][s][m] = row
          /\ \A t \in SessionIds, n \in Modules :
               ~(t = s /\ n = m) => [progress EXCEPT ![s][m] = row][t][n] = progress[t][n]
      BY <1>2, <1>4, SetRow
    <3> QED BY <2>1, <3>1
  <2>3. ASSUME NEW t \in SessionIds, NEW n \in Modules, owner[t] = Unissued PROVE progress'[t][n].tries = 0
    BY <1>1, <2>2, <2>3 DEF LearningInv, UnissuedIsEmpty
  <2>4. ASSUME NEW G \in Groups, NEW t \in OpenSessions(G), NEW n \in Modules, NEW l \in Levels,
               progress[t][n].row /\ progress[t][n].level >= l
        PROVE  \E x \in OpenSessions(G) : progress'[x][n].row /\ progress'[x][n].level >= l
    <3>1. t \in SessionIds
      BY LearningParts
    <3>2. CASE t = s /\ n = m
      BY <1>4, <2>2, <3>2 DEF Levels, Completed
    <3>3. CASE ~(t = s /\ n = m)
      BY <2>2, <2>4, <3>1, <3>3
    <3> QED BY <3>2, <3>3
  <2> QED BY <1>1, <1>3, <2>2, <2>3, <2>4, ProgressMoves
<1> QED BY <1>5, <1>6

LEMMA LearningStep ==
  ASSUME LearningInv, [LearningNext]_learningVars
  PROVE  LearningInv' /\ [KeepsAll]_learningVars
<1>1. CASE UNCHANGED learningVars
  <2>1. UNCHANGED <<owner, live, scenario, progress, attempts, tidy>>
    BY <1>1 DEF learningVars
  <2>2. LearningTypeOK' /\ UnissuedIsEmpty'
    BY <2>1 DEF LearningInv, LearningTypeOK, UnissuedIsEmpty
  <2>3. TidyIsSound'
    BY <2>1 DEF LearningInv, TidyIsSound, OneGroup, SessionsOf, Dup
  <2> QED BY <1>1, <2>2, <2>3 DEF LearningInv
<1>2. CASE \E n \in Names : OpenSession(n)
  BY <1>2, OpenSessionInv
<1>3. CASE \E n \in Names, readFails \in BOOLEAN : CreateSession(n, readFails)
  BY <1>3, CreateSessionInv
<1>4. CASE SummariseAll \/ LearningCrash
  BY <1>4, TidyStepsInv
<1>5. CASE Tidying
  BY <1>5, NextGroupInv, MergeScenarioInv, MoveModuleInv, RaiseModuleInv, DropModuleInv, DropSessionInv,
     TidyStepsInv DEF Tidying
<1>6. CASE \E s \in SessionIds, c \in Scenarios : SaveProgress(s, c)
  BY <1>6, SaveProgressInv
<1>7. CASE \E s \in SessionIds, m \in Modules :
             \/ \E level \in Levels, force \in BOOLEAN : UpdateProgress(s, m, level, force)
             \/ \E completes \in BOOLEAN : SubmitQuiz(s, m, completes)
  BY <1>7, UpdateProgressInv, SubmitQuizInv
<1> QED BY <1>1, <1>2, <1>3, <1>4, <1>5, <1>6, <1>7 DEF LearningNext

(* What the tidying remembers and what the tables hold keeps its type.     *)
THEOREM LearningTypeCorrect == LearningSpec => []LearningTypeOK
<1>1. LearningInit => LearningInv
  BY LearningInitInv
<1>2. LearningInv /\ [LearningNext]_learningVars => LearningInv'
  BY LearningStep
<1>3. LearningInv => LearningTypeOK
  BY DEF LearningInv
<1> QED BY <1>1, <1>2, <1>3, PTL DEF LearningSpec

(* What a new hire has done can still be read in a session that exists,    *)
(* whatever errors, crashes and tidying there were (_consolidate_sessions, *)
(* update_progress, submit_quiz), but for modules whose merging failed:    *)
(* those rows are still stored.  For any names, matching each other in any *)
(* way, any scenarios and modules and any number of sessions.              *)
THEOREM LearningProgressSurvives == LearningSpec => ProgressSurvives
<1>1. LearningInit => LearningInv
  BY LearningInitInv
<1>2. LearningInv /\ [LearningNext]_learningVars => LearningInv'
  BY LearningStep
<1>3. LearningInv /\ [LearningNext]_learningVars => [\A G \in Groups : Keeps(G)]_learningVars
  BY LearningStep DEF KeepsAll
<1> QED BY <1>1, <1>2, <1>3, PTL DEF LearningSpec, ProgressSurvives

-----------------------------------------------------------------------------
\* What the sums range over, before and after a step.
LEMMA TriesRange ==
  ASSUME LearningInv, LearningInv'
  PROVE  /\ TriesCounted \in Counts /\ TriesCounted' \in Counts /\ attempts \in Counts /\ attempts' \in Counts
         /\ \A s \in SessionIds, m \in Modules :
              TriesCounted[s][m] = progress[s][m].tries /\ TriesCounted'[s][m] = progress'[s][m].tries
         /\ \A G \in Groups : SessionsOf(G) \in SUBSET SessionIds /\ SessionsOf(G)' \in SUBSET SessionIds
<1>1. progress \in Board /\ progress' \in Board /\ attempts \in Counts /\ attempts' \in Counts
  BY DEF LearningInv, LearningTypeOK, Board, Counts
<1>2. ASSUME NEW board \in Board
      PROVE  [s \in SessionIds |-> [m \in Modules |-> board[s][m].tries]] \in Counts
  <2>1. \A s \in SessionIds, m \in Modules : board[s][m].tries \in 0..MaxTries
    BY RowAt DEF Board
  <2> QED BY <2>1 DEF Counts
<1>3. TriesCounted \in Counts /\ TriesCounted' \in Counts
  BY <1>1, <1>2 DEF TriesCounted
<1> QED BY <1>1, <1>3 DEF SessionsOf, TriesCounted

\* A step is right that adds no sessions and lets no sum grow.
LEMMA TriesStay ==
  ASSUME LearningInv, LearningInv', TriesBacked, UNCHANGED <<owner, attempts>>,
         \A G \in Groups, m \in Modules :
           CountOf(TriesCounted', m, SessionsOf(G)) <= CountOf(TriesCounted, m, SessionsOf(G))
  PROVE  TriesBacked'
<1>1. \A G \in Groups : SessionsOf(G)' = SessionsOf(G)
  BY DEF SessionsOf
<1>2. ASSUME NEW G \in Groups, NEW m \in Modules
      PROVE  CountOf(TriesCounted', m, SessionsOf(G)) <= CountOf(attempts, m, SessionsOf(G))
  <2>1. PICK a, b, n \in Nat : /\ a = CountOf(TriesCounted', m, SessionsOf(G)) /\ b = CountOf(TriesCounted, m, SessionsOf(G))
                               /\ n = CountOf(attempts, m, SessionsOf(G))
    BY TriesRange, CountInNat
  <2>2. a <= b /\ b <= n
    BY <2>1 DEF TriesBacked
  <2> QED BY <2>1, <2>2
<1> QED BY <1>1, <1>2 DEF TriesBacked

\* A row that moves takes its tries to a session of the same group.
LEMMA MoveModuleBacked ==
  ASSUME LearningInv, LearningInv', TriesBacked, NEW m \in Modules, MoveModule(m)
  PROVE  TriesBacked'
<1>1. /\ UNCHANGED <<owner, attempts>> /\ AtStage("modules")
      /\ progress' = [progress EXCEPT ![tidy.keep][m] = progress[Dup][m], ![Dup][m] = NoRow]
  BY DEF MoveModule
<1>2. /\ tidy.stage \in Merging /\ Dup \in SessionIds /\ tidy.keep \in SessionIds /\ Dup # tidy.keep
      /\ progress \in Board
  BY <1>1, MergingModules
<1>3. /\ progress'[tidy.keep][m] = progress[Dup][m] /\ progress'[Dup][m] = NoRow
      /\ \A s \in SessionIds, n \in Modules :
           ~(n = m /\ s \in {Dup, tidy.keep}) => progress'[s][n] = progress[s][n]
  BY <1>1, <1>2 DEF Board
<1>4. /\ TriesCounted'[tidy.keep][m] = TriesCounted[Dup][m] /\ TriesCounted'[Dup][m] = 0
      /\ \A s \in SessionIds, n \in Modules : ~(n = m /\ s \in {Dup, tidy.keep}) => TriesCounted'[s][n] = TriesCounted[s][n]
  BY <1>2, <1>3, TriesRange, NoRowIsRow
<1>5. ASSUME NEW G \in Groups, NEW n \in Modules
      PROVE  CountOf(TriesCounted', n, SessionsOf(G)) <= CountOf(TriesCounted, n, SessionsOf(G))
  <2>1. TriesCounted \in Counts /\ TriesCounted' \in Counts /\ SessionsOf(G) \in SUBSET SessionIds
    BY TriesRange
  <2>2. Dup \in SessionsOf(G) <=> tidy.keep \in SessionsOf(G)
    BY <1>2, DupIsAnother
  <2>3. CASE n = m /\ Dup \in SessionsOf(G)
    <3>1. \A s \in SessionsOf(G) \ {Dup, tidy.keep} : TriesCounted'[s][m] = TriesCounted[s][m]
      BY <1>4, <2>1
    <3> QED BY <1>2, <1>4, <2>1, <2>2, <2>3, <3>1, CountHandedOver
  <2>4. CASE ~(n = m /\ Dup \in SessionsOf(G))
    <3>1. ASSUME NEW s \in SessionsOf(G) PROVE TriesCounted'[s][n] <= TriesCounted[s][n]
      <4>1. TriesCounted'[s][n] = TriesCounted[s][n] /\ TriesCounted[s][n] \in 0..MaxTries
        BY <1>4, <2>1, <2>2, <2>4 DEF Counts
      <4> QED BY <4>1, LearningAssumption
    <3> QED BY <2>1, <3>1, CountGrows
  <2> QED BY <2>3, <2>4
<1> QED BY <1>1, <1>5, TriesStay

\* Steps after which no row counts more than it did.
LEMMA NoRowCountsMore ==
  ASSUME LearningInv, LearningInv', TriesBacked, UNCHANGED <<owner, attempts>>,
         \A s \in SessionIds, m \in Modules :
           progress'[s][m].tries = progress[s][m].tries \/ progress'[s][m].tries = 0
  PROVE  TriesBacked'
<1>1. ASSUME NEW G \in Groups, NEW m \in Modules
      PROVE  CountOf(TriesCounted', m, SessionsOf(G)) <= CountOf(TriesCounted, m, SessionsOf(G))
  <2>1. TriesCounted \in Counts /\ TriesCounted' \in Counts /\ SessionsOf(G) \in SUBSET SessionIds
    BY TriesRange
  <2>2. ASSUME NEW s \in SessionsOf(G) PROVE TriesCounted'[s][m] <= TriesCounted[s][m]
    <3>1. TriesCounted[s][m] \in 0..MaxTries /\ s \in SessionIds
      BY <2>1 DEF Counts
    <3>2. TriesCounted'[s][m] = TriesCounted[s][m] \/ TriesCounted'[s][m] = 0
      BY <3>1, TriesRange
    <3> QED BY <3>1, <3>2, LearningAssumption
  <2> QED BY <2>1, <2>2, CountGrows
<1> QED BY <1>1, TriesStay

LEMMA OtherModuleStepsBacked ==
  ASSUME LearningInv, LearningInv', TriesBacked, NEW m \in Modules,
         \/ RaiseModule(m) \/ DropModule(m)
         \/ \E s \in SessionIds, level \in Levels, force \in BOOLEAN : UpdateProgress(s, m, level, force)
  PROVE  TriesBacked'
<1>0. progress \in [SessionIds -> [Modules -> Rows]] /\ NoRow.tries = 0
  BY LearningParts, NoRowIsRow DEF Board
<1>1. CASE RaiseModule(m)
  <2>1. UNCHANGED <<owner, attempts>> /\ AtStage("modules")
        /\ progress' = [progress EXCEPT ![tidy.keep][m].level = progress[Dup][m].level]
        /\ progress[tidy.keep][m].row
    BY <1>1 DEF RaiseModule
  <2>2. tidy.keep \in SessionIds /\ progress[tidy.keep][m] \in Rows /\ progress[Dup][m] \in Rows
    BY <2>1, MergingModules
  <2>3. progress[Dup][m].level \in Levels
    BY <2>2, RowAt
  <2> DEFINE raised == [progress[tidy.keep][m] EXCEPT !.level = progress[Dup][m].level]
  <2>4. raised.tries = progress[tidy.keep][m].tries
    BY <2>1, <2>2, <2>3, RowRaised
  <2>5. progress' = [progress EXCEPT ![tidy.keep][m] = raised]
    BY <1>0, <2>1, <2>2
  <2> HIDE DEF raised
  <2>6. \A s \in SessionIds, n \in Modules : progress'[s][n].tries = progress[s][n].tries
    BY <1>0, <2>2, <2>4, <2>5
  <2> QED BY <2>1, <2>6, NoRowCountsMore
<1>2. CASE DropModule(m)
  <2>1. UNCHANGED <<owner, attempts>> /\ AtStage("modules") /\ progress' = [progress EXCEPT ![Dup][m] = NoRow]
    BY <1>2 DEF DropModule
  <2>2. Dup \in SessionIds
    BY <2>1, MergingModules
  <2>3. \A s \in SessionIds, n \in Modules :
          progress'[s][n].tries = progress[s][n].tries \/ progress'[s][n].tries = 0
    BY <1>0, <2>1, <2>2
  <2> QED BY <2>1, <2>3, NoRowCountsMore
<1>3. ASSUME NEW s \in SessionIds, NEW level \in Levels, NEW force \in BOOLEAN, UpdateProgress(s, m, level, force)
      PROVE  TriesBacked'
  <2> DEFINE row == [level |-> level, tries |-> progress[s][m].tries, row |-> TRUE]
  <2>1. UNCHANGED <<owner, attempts>> /\ progress' = [progress EXCEPT ![s][m] = row]
    BY <1>0, <1>3 DEF UpdateProgress
  <2>2. row.tries = progress[s][m].tries
    OBVIOUS
  <2> HIDE DEF row
  <2>3. \A t \in SessionIds, n \in Modules : progress'[t][n].tries = progress[t][n].tries
    BY <1>0, <2>1, <2>2
  <2> QED BY <2>1, <2>3, NoRowCountsMore
<1> QED BY <1>1, <1>2, <1>3

\* A session that is new counts no tries yet.
LEMMA CreateSessionBacked ==
  ASSUME LearningInv, LearningInv', TriesBacked,
         NEW name \in Names, NEW readFails \in BOOLEAN, CreateSession(name, readFails)
  PROVE  TriesBacked'
<1>1. PICK s \in SessionIds : /\ \A t \in SessionIds : owner[t] = Unissued <=> t >= s
                              /\ owner' = [owner EXCEPT ![s] = name]
  BY DEF CreateSession
<1>2. /\ owner[s] = Unissued /\ UNCHANGED <<progress, attempts>> /\ owner'[s] = name
      /\ \A t \in SessionIds \ {s} : owner'[t] = owner[t]
  BY <1>1, LearningParts DEF CreateSession, SessionIds
<1>3. \A m \in Modules : progress[s][m].tries = 0
  BY <1>2 DEF LearningInv, UnissuedIsEmpty
<1>4. ASSUME NEW G \in Groups, NEW m \in Modules
      PROVE  CountOf(TriesCounted', m, SessionsOf(G)') <= CountOf(attempts', m, SessionsOf(G)')
  <2> DEFINE S == SessionsOf(G)
             T == SessionsOf(G)'
  <2>1. s \notin S /\ T \ {s} = S /\ S \subseteq T
    BY <1>2 DEF SessionsOf
  <2>2. /\ TriesCounted \in Counts /\ TriesCounted' = TriesCounted /\ TriesCounted[s][m] = 0 /\ attempts \in Counts /\ attempts' = attempts
        /\ S \in SUBSET SessionIds /\ T \in SUBSET SessionIds
    BY <1>2, <1>3, TriesRange DEF TriesCounted
  <2>3. CountOf(TriesCounted, m, S) <= CountOf(attempts, m, S)
    BY DEF TriesBacked
  <2> HIDE DEF S, T
  <2>4. CountOf(TriesCounted, m, T) = CountOf(TriesCounted, m, S)
    <3>1. CASE s \in T
      <4>1. CountOf(TriesCounted, m, T) = TriesCounted[s][m] + CountOf(TriesCounted, m, T \ {s})
        BY <2>2, <3>1, CountSplit
      <4>2. PICK n \in Nat : n = CountOf(TriesCounted, m, S)
        BY <2>2, CountInNat
      <4>3. CountOf(TriesCounted, m, T \ {s}) = n
        BY <2>1, <4>2
      <4>4. CountOf(TriesCounted, m, T) = 0 + n
        BY <2>2, <4>1, <4>3
      <4>5. 0 + n = n
        OBVIOUS
      <4> QED BY <4>2, <4>4, <4>5
    <3>2. CASE s \notin T
      BY <2>1, <3>2
    <3> QED BY <3>1, <3>2
  <2>5. CountOf(attempts, m, S) <= CountOf(attempts, m, T)
    <3>1. ASSUME NEW x \in S PROVE attempts[x][m] <= attempts[x][m]
      <4>1. attempts[x][m] \in 0..MaxTries
        BY <2>2 DEF Counts
      <4> QED BY <4>1, LearningAssumption
    <3> QED BY <2>1, <2>2, <3>1, CountGrows
  <2>6. PICK a, b, c \in Nat : /\ a = CountOf(TriesCounted, m, S) /\ b = CountOf(attempts, m, S)
                               /\ c = CountOf(attempts, m, T)
    BY <2>2, CountInNat
  <2>7. CountOf(TriesCounted, m, T) <= CountOf(attempts, m, T)
    BY <2>3, <2>4, <2>5, <2>6
  <2> QED BY <2>2, <2>7 DEF T
<1> QED BY <1>4 DEF TriesBacked

\* A quiz counts one try at most, and only after it was recorded.
LEMMA SubmitQuizBacked ==
  ASSUME LearningInv, LearningInv', TriesBacked,
         NEW s \in SessionIds, NEW m \in Modules, NEW completes \in BOOLEAN, SubmitQuiz(s, m, completes)
  PROVE  TriesBacked'
<1>1. /\ UNCHANGED owner /\ attempts' = [attempts EXCEPT ![s][m] = @ + 1]
      /\ progress' = IF completes THEN [progress EXCEPT ![s][m] = [level |-> Completed, tries |-> @.tries + 1, row |-> TRUE]]
                     ELSE progress
  BY DEF SubmitQuiz, AfterQuiz
<1>2. /\ progress \in Board /\ TriesCounted \in Counts /\ TriesCounted' \in Counts /\ attempts \in Counts /\ attempts' \in Counts
  BY LearningParts, TriesRange
<1>3. /\ \A t \in SessionIds, n \in Modules : ~(t = s /\ n = m) => progress'[t][n] = progress[t][n]
      /\ progress'[s][m].tries = progress[s][m].tries \/ progress'[s][m].tries = progress[s][m].tries + 1
  BY <1>1, <1>2 DEF Board
<1>4. /\ \A t \in SessionIds, n \in Modules :
           ~(t = s /\ n = m) => TriesCounted'[t][n] = TriesCounted[t][n] /\ attempts'[t][n] = attempts[t][n]
      /\ TriesCounted'[s][m] = TriesCounted[s][m] \/ TriesCounted'[s][m] = TriesCounted[s][m] + 1
      /\ attempts'[s][m] = attempts[s][m] + 1
  <2>1. \A t \in SessionIds, n \in Modules :
          TriesCounted[t][n] = progress[t][n].tries /\ TriesCounted'[t][n] = progress'[t][n].tries
    BY DEF TriesCounted
  <2>2. /\ attempts'[s][m] = attempts[s][m] + 1
        /\ \A t \in SessionIds, n \in Modules : ~(t = s /\ n = m) => attempts'[t][n] = attempts[t][n]
    BY <1>1, <1>2 DEF Counts
  <2> QED BY <1>3, <2>1, <2>2
<1>5. ASSUME NEW counts \in Counts, NEW next \in Counts, NEW R \in SUBSET SessionIds, NEW n \in Modules,
             \A t \in R : next[t][n] = counts[t][n]
      PROVE  CountOf(next, n, R) = CountOf(counts, n, R)
  <2>1. ASSUME NEW t \in R PROVE counts[t][n] <= next[t][n] /\ next[t][n] <= counts[t][n]
    <3>1. counts[t][n] \in 0..MaxTries /\ next[t][n] = counts[t][n]
      BY <1>5 DEF Counts
    <3> QED BY <3>1, LearningAssumption
  <2>2. CountOf(next, n, R) <= CountOf(counts, n, R) /\ CountOf(counts, n, R) <= CountOf(next, n, R)
    BY <2>1, CountGrows
  <2>3. CountOf(next, n, R) \in Nat /\ CountOf(counts, n, R) \in Nat
    BY CountInNat
  <2> QED BY <2>2, <2>3
<1>6. ASSUME NEW G \in Groups, NEW n \in Modules
      PROVE  CountOf(TriesCounted', n, SessionsOf(G)) <= CountOf(attempts', n, SessionsOf(G))
  <2> DEFINE S == SessionsOf(G)
  <2>1. S \in SUBSET SessionIds /\ S \ {s} \in SUBSET SessionIds
    BY TriesRange
  <2>2. CountOf(TriesCounted, n, S) <= CountOf(attempts, n, S)
    BY DEF TriesBacked
  <2> HIDE DEF S
  <2>3. CASE s \in S /\ n = m
    <3>1. PICK x, y, c, a, k, l, d \in Nat :
            /\ x = TriesCounted'[s][m] /\ y = TriesCounted[s][m] /\ c = CountOf(TriesCounted, m, S \ {s})
            /\ k = attempts'[s][m] /\ l = attempts[s][m] /\ d = CountOf(attempts, m, S \ {s}) /\ a = 0
      BY <1>2, <2>1, <2>3, CountSplit
    <3>2. CountOf(TriesCounted', m, S \ {s}) = c /\ CountOf(attempts', m, S \ {s}) = d
      BY <1>2, <1>4, <1>5, <2>1, <3>1
    <3>3. CountOf(TriesCounted', m, S) = x + c /\ CountOf(TriesCounted, m, S) = y + c
      BY <1>2, <2>1, <2>3, <3>1, <3>2, CountSplit
    <3>4. CountOf(attempts', m, S) = k + d /\ CountOf(attempts, m, S) = l + d
      BY <1>2, <2>1, <2>3, <3>1, <3>2, CountSplit
    <3>5. (x = y \/ x = y + 1) /\ k = l + 1 /\ y + c <= l + d
      BY <1>4, <2>2, <2>3, <3>1, <3>3, <3>4
    <3>6. x + c <= k + d
      BY <3>5
    <3> QED BY <2>3, <3>3, <3>4, <3>6 DEF S
  <2>4. CASE ~(s \in S /\ n = m)
    <3>1. \A t \in S : TriesCounted'[t][n] = TriesCounted[t][n] /\ attempts'[t][n] = attempts[t][n]
      BY <1>4, <2>1, <2>4
    <3>2. CountOf(TriesCounted', n, S) = CountOf(TriesCounted, n, S) /\ CountOf(attempts', n, S) = CountOf(attempts, n, S)
      BY <1>2, <1>5, <2>1, <3>1
    <3> QED BY <2>2, <3>2 DEF S
  <2> QED BY <2>3, <2>4
<1>7. \A G \in Groups : SessionsOf(G)' = SessionsOf(G)
  BY <1>1 DEF SessionsOf
<1> QED BY <1>6, <1>7 DEF TriesBacked

LEMMA TriesBackedStep ==
  ASSUME LearningInv, TriesBacked, [LearningNext]_learningVars
  PROVE  TriesBacked'
<1>0. LearningInv'
  BY LearningStep
<1>1. ASSUME UNCHANGED <<owner, progress, attempts>> PROVE TriesBacked'
  BY <1>0, <1>1, NoRowCountsMore
<1>2. CASE \/ UNCHANGED learningVars \/ SummariseAll \/ LearningCrash
           \/ \E n \in Names : OpenSession(n)
           \/ \E s \in SessionIds, c \in Scenarios : SaveProgress(s, c)
  BY <1>1, <1>2 DEF learningVars, SummariseAll, LearningCrash, OpenSession, SaveProgress
<1>3. CASE \E n \in Names, readFails \in BOOLEAN : CreateSession(n, readFails)
  BY <1>0, <1>3, CreateSessionBacked
<1>4. CASE Tidying
  <2>1. CASE \E m \in Modules : MoveModule(m) \/ RaiseModule(m) \/ DropModule(m)
    BY <1>0, <2>1, MoveModuleBacked, OtherModuleStepsBacked
  <2>2. CASE ~\E m \in Modules : MoveModule(m) \/ RaiseModule(m) \/ DropModule(m)
    BY <1>1, <1>4, <2>2 DEF Tidying, NextGroup, MergeScenario, ScenariosMerged, ModulesMerged, ModulesFail,
                            DropSession, TidyFails
  <2> QED BY <2>1, <2>2
<1>5. CASE \E s \in SessionIds, m \in Modules :
             \/ \E level \in Levels, force \in BOOLEAN : UpdateProgress(s, m, level, force)
             \/ \E completes \in BOOLEAN : SubmitQuiz(s, m, completes)
  BY <1>0, <1>5, OtherModuleStepsBacked, SubmitQuizBacked
<1> QED BY <1>2, <1>3, <1>4, <1>5 DEF LearningNext

LEMMA TriesBackedInit == LearningInit => TriesBacked
<1> SUFFICES ASSUME LearningInit PROVE TriesBacked
  OBVIOUS
<1>1. ASSUME NEW G \in Groups, NEW m \in Modules
      PROVE  CountOf(TriesCounted, m, SessionsOf(G)) <= CountOf(attempts, m, SessionsOf(G))
  <2>1. SessionsOf(G) = {} /\ {} \in SUBSET SessionIds
    BY DEF LearningInit, SessionsOf
  <2>2. attempts \in Counts
    BY LearningAssumption DEF LearningInit, Counts
  <2>3. TriesCounted \in Counts
    BY NoRowIsRow, LearningAssumption DEF LearningInit, TriesCounted, Counts
  <2>4. CountOf(TriesCounted, m, {}) = 0 /\ CountOf(attempts, m, {}) = 0
    BY <2>1, <2>2, <2>3, CountInTotal, TotalOfNone
  <2> QED BY <2>1, <2>4
<1> QED BY <1>1 DEF TriesBacked

(* However quizzes fail between their two writes and duplicate sessions    *)
(* are merged (submit_quiz, _consolidate_sessions), the rows of a user     *)
(* count no more tries than were recorded: for any names, modules and      *)
(* numbers of sessions and tries.                                          *)
THEOREM LearningTriesBacked == LearningSpec => []TriesBacked
<1>1. LearningInit => LearningInv /\ TriesBacked
  BY LearningInitInv, TriesBackedInit
<1>2. LearningInv /\ TriesBacked /\ [LearningNext]_learningVars => LearningInv' /\ TriesBacked'
  BY LearningStep, TriesBackedStep
<1> QED BY <1>1, <1>2, PTL DEF LearningSpec

-----------------------------------------------------------------------------
EditType == [op : {"none", "create", "update", "delete"}, id : SUBSET Articles, sends : SUBSET Columns,
             stage : {"new", "sent", "ended"}, answer : HttpAnswers]
Cells == {NoArticle, Deleted} \union [Columns -> Editors]

(* An article that somebody was shown, or edits, was there once: its id    *)
(* cannot be taken by a creation, and what is gone stays gone.             *)
OnceThere ==
  /\ edit \in [Editors -> EditType] /\ article \in [Articles -> Cells] /\ shown \subseteq Articles
  /\ \A i \in shown : article[i] # NoArticle
  /\ \A e \in Editors : \A i, j \in edit[e].id : i = j
  /\ \A e \in Editors : \A i \in edit[e].id : article[i] # NoArticle

KnowledgeInv == OnceThere /\ NotFoundIsGone

\* A row, no row yet and a deleted row are told apart by their fields.
LEMMA CellsDiffer ==
  /\ NoArticle # Deleted
  /\ \A r \in Cells : (DOMAIN r # Columns /\ r # NoArticle) => r = Deleted
  /\ \A r \in [Columns -> Editors] : r # NoArticle /\ r # Deleted /\ DOMAIN r = Columns
  /\ DOMAIN NoArticle # Columns /\ DOMAIN Deleted # Columns
<1>1. DOMAIN NoArticle = {} /\ DOMAIN Deleted = {"deleted"}
  BY DEF NoArticle, Deleted
<1>2. "title" \in Columns /\ "title" # "deleted"
  BY DEF Columns
<1>3. NoArticle # Deleted /\ DOMAIN NoArticle # Columns /\ DOMAIN Deleted # Columns
  BY <1>1, <1>2
<1>4. \A r \in [Columns -> Editors] : DOMAIN r = Columns
  OBVIOUS
<1> QED BY <1>3, <1>4 DEF Cells

LEMMA KnowledgeTyped ==
  ASSUME OnceThere
  PROVE  KnowledgeTypeOK
<1>1. \A i \in Articles : Exists(i) => article[i] \in [Columns -> Editors]
  BY CellsDiffer DEF OnceThere, Exists, Cells
<1>2. \A i \in Articles : ~Exists(i) => article[i] \in {NoArticle, Deleted}
  BY CellsDiffer DEF OnceThere, Exists, Cells
<1>3. \A e \in Editors :
       /\ edit[e].op \in {"none", "create", "update", "delete"}
       /\ edit[e].id \subseteq Articles /\ edit[e].sends \subseteq Columns
       /\ edit[e].stage \in {"new", "sent", "ended"} /\ edit[e].answer \in HttpAnswers
  BY DEF OnceThere, EditType
<1> QED BY <1>1, <1>2, <1>3 DEF KnowledgeTypeOK, OnceThere

LEMMA AnswerArrives ==
  ASSUME OnceThere, NEW e \in Editors, NEW answer \in HttpAnswers, Answered(e, answer)
  PROVE  /\ edit' \in [Editors -> EditType] /\ \A f \in Editors \ {e} : edit'[f] = edit[f]
         /\ edit'[e].op = edit[e].op /\ edit'[e].id = edit[e].id /\ edit'[e].sends = edit[e].sends
         /\ edit'[e].answer = answer
<1> DEFINE r == [edit[e] EXCEPT !.stage = "ended", !.answer = answer]
<1>1. edit[e] \in EditType /\ edit \in [Editors -> EditType]
  BY DEF OnceThere
<1>2. r \in EditType /\ r.op = edit[e].op /\ r.id = edit[e].id /\ r.sends = edit[e].sends /\ r.answer = answer
  BY <1>1 DEF EditType
<1>3. edit' = [edit EXCEPT ![e] = r]
  BY DEF Answered
<1> HIDE DEF r
<1> QED BY <1>1, <1>2, <1>3

(* The answer of a call that changed at most one article, and only to one  *)
(* that was there, is right if a 404 says that its article is gone.        *)
LEMMA AnswerIsRight ==
  ASSUME KnowledgeInv, NEW e \in Editors, NEW answer \in HttpAnswers, Answered(e, answer),
         article' \in [Articles -> Cells], shown' \subseteq Articles,
         \A i \in Articles : article[i] # NoArticle => article'[i] # NoArticle,
         \A i \in Articles : article[i] = Deleted => article'[i] = Deleted,
         \A i \in shown' : article'[i] # NoArticle,
         answer = "404" /\ (edit[e].op = "delete" \/ edit[e].sends # {}) =>
           \A i \in edit[e].id : article'[i] = Deleted
  PROVE  KnowledgeInv'
<1>1. OnceThere /\ NotFoundIsGone
  BY DEF KnowledgeInv
<1>2. /\ edit' \in [Editors -> EditType] /\ \A f \in Editors \ {e} : edit'[f] = edit[f]
      /\ edit'[e].op = edit[e].op /\ edit'[e].id = edit[e].id /\ edit'[e].sends = edit[e].sends
      /\ edit'[e].answer = answer
  BY <1>1, AnswerArrives
<1>3. \A f \in Editors : edit[f].id \subseteq Articles /\ edit'[f].id = edit[f].id
  BY <1>1, <1>2 DEF OnceThere, EditType
<1>4. OnceThere'
  BY <1>1, <1>2, <1>3 DEF OnceThere
<1>5. NotFoundIsGone'
  <2> SUFFICES ASSUME NEW f \in Editors, edit'[f].answer = "404",
                      edit'[f].op = "delete" \/ edit'[f].sends # {}, NEW i \in edit'[f].id
               PROVE  article'[i] = Deleted
    BY DEF NotFoundIsGone
  <2>1. CASE f = e
    BY <1>2, <2>1
  <2>2. CASE f # e
    <3>1. i \in Articles /\ edit'[f] = edit[f]
      BY <1>2, <1>3, <2>2
    <3> QED BY <1>1, <3>1 DEF NotFoundIsGone
  <2> QED BY <2>1, <2>2
<1> QED BY <1>4, <1>5 DEF KnowledgeInv

LEMMA SendInv ==
  ASSUME KnowledgeInv, NEW e \in Editors, NEW op \in {"create", "update", "delete"}, NEW id \in SUBSET shown,
         \A i, j \in id : i = j, NEW sends \in SUBSET Columns, Send(e, op, id, sends)
  PROVE  KnowledgeInv'
<1> DEFINE r == [op |-> op, id |-> id, sends |-> sends, stage |-> "sent", answer |-> "none"]
<1>1. OnceThere /\ NotFoundIsGone /\ UNCHANGED <<article, shown>>
  BY DEF KnowledgeInv, Send
<1>2. edit' = [edit EXCEPT ![e] = r]
  BY DEF Send
<1>3. r \in EditType /\ r.id = id /\ r.answer = "none"
  <2>1. "none" \in HttpAnswers /\ id \in SUBSET Articles
    BY <1>1 DEF OnceThere, HttpAnswers
  <2> QED BY <2>1 DEF EditType
<1> HIDE DEF r
<1>4. /\ edit' \in [Editors -> EditType] /\ edit'[e] = r /\ \A f \in Editors \ {e} : edit'[f] = edit[f]
  BY <1>1, <1>2, <1>3 DEF OnceThere
<1>5. OnceThere'
  BY <1>1, <1>3, <1>4 DEF OnceThere
<1>6. NotFoundIsGone'
  BY <1>1, <1>3, <1>4 DEF NotFoundIsGone
<1> QED BY <1>5, <1>6 DEF KnowledgeInv

LEMMA CreateInv ==
  ASSUME KnowledgeInv, NEW e \in Editors, NEW i \in Articles, NEW answer \in HttpAnswers, Create(e, i, answer)
  PROVE  KnowledgeInv'
<1> DEFINE row == [c \in Columns |-> e]
<1>1. OnceThere /\ article[i] = NoArticle /\ Answered(e, answer) /\ answer # "404"
      /\ article' = [article EXCEPT ![i] = row] /\ shown' \subseteq shown \union {i}
  BY DEF KnowledgeInv, Create
<1>2. row \in Cells /\ row # NoArticle
  BY CellsDiffer DEF Cells
<1> HIDE DEF row
<1>3. article' \in [Articles -> Cells] /\ article'[i] # NoArticle
      /\ \A j \in Articles \ {i} : article'[j] = article[j]
  BY <1>1, <1>2 DEF OnceThere
<1>4. shown' \subseteq Articles /\ \A j \in shown' : article'[j] # NoArticle
  BY <1>1, <1>3 DEF OnceThere
<1>5. NoArticle # Deleted
  BY CellsDiffer
<1> QED BY <1>1, <1>3, <1>4, <1>5, AnswerIsRight

LEMMA UpdateInv ==
  ASSUME KnowledgeInv, NEW e \in Editors, NEW i \in Articles, NEW answer \in HttpAnswers, Update(e, i, answer)
  PROVE  KnowledgeInv'
<1>1. /\ OnceThere /\ i \in edit[e].id /\ Answered(e, answer) /\ UNCHANGED shown
      /\ article' = [article EXCEPT ![i] = RowAfter(i, e)] /\ (answer = "404" => ~Exists(i))
  BY DEF KnowledgeInv, Update
<1>2. article[i] \in Cells /\ article[i] # NoArticle
  BY <1>1 DEF OnceThere
<1>3. CASE Exists(i)
  <2>1. RowAfter(i, e) \in [Columns -> Editors]
    <3>1. article[i] \in [Columns -> Editors]
      BY <1>2, <1>3, CellsDiffer DEF Exists, Cells
    <3> QED BY <1>3, <3>1 DEF RowAfter
  <2>2. RowAfter(i, e) # NoArticle /\ RowAfter(i, e) \in Cells /\ article[i] # Deleted
    BY <1>3, <2>1, CellsDiffer DEF Cells, Exists
  <2>3. article' \in [Articles -> Cells] /\ article'[i] # NoArticle
        /\ \A j \in Articles \ {i} : article'[j] = article[j]
    BY <1>1, <2>2 DEF OnceThere
  <2>4. shown' \subseteq Articles /\ \A j \in shown' : article'[j] # NoArticle
    BY <1>1, <2>3 DEF OnceThere
  <2>5. \A j \in Articles : article[j] = Deleted => article'[j] = Deleted
    BY <2>2, <2>3
  <2> QED BY <1>1, <1>3, <2>3, <2>4, <2>5, AnswerIsRight
<1>4. CASE ~Exists(i)
  <2>1. article' = article /\ article[i] = Deleted
    BY <1>1, <1>2, <1>4, CellsDiffer DEF RowAfter, Exists, OnceThere
  <2>2. \A j \in edit[e].id : j = i
    BY <1>1 DEF OnceThere
  <2>3. article' \in [Articles -> Cells] /\ shown' \subseteq Articles /\ \A j \in shown' : article'[j] # NoArticle
    BY <1>1, <2>1 DEF OnceThere
  <2> QED BY <1>1, <2>1, <2>2, <2>3, AnswerIsRight
<1> QED BY <1>3, <1>4

LEMMA DeleteInv ==
  ASSUME KnowledgeInv, NEW e \in Editors, NEW i \in Articles, NEW answer \in HttpAnswers, Delete(e, i, answer)
  PROVE  KnowledgeInv'
<1>1. /\ OnceThere /\ i \in edit[e].id /\ Answered(e, answer) /\ UNCHANGED shown
      /\ article' = [article EXCEPT ![i] = Deleted]
  BY DEF KnowledgeInv, Delete
<1>2. Deleted \in Cells /\ Deleted # NoArticle
  BY CellsDiffer DEF Cells
<1>3. /\ article' \in [Articles -> Cells] /\ article'[i] = Deleted
      /\ \A j \in Articles \ {i} : article'[j] = article[j]
  BY <1>1, <1>2 DEF OnceThere
<1>4. shown' \subseteq Articles /\ \A j \in shown' : article'[j] # NoArticle
  BY <1>1, <1>2, <1>3 DEF OnceThere
<1>5. \A j \in edit[e].id : article'[j] = Deleted
  BY <1>1, <1>3 DEF OnceThere
<1> QED BY <1>1, <1>2, <1>3, <1>4, <1>5, AnswerIsRight

\* An answer without any change to the articles.
LEMMA OnlyAnswerInv ==
  ASSUME KnowledgeInv, NEW e \in Editors, NEW answer \in HttpAnswers, UNCHANGED <<article, shown>>,
         Answered(e, answer), answer = "404" => edit[e].op = "update" /\ edit[e].sends = {}
  PROVE  KnowledgeInv'
<1>1. article' \in [Articles -> Cells] /\ shown' \subseteq Articles /\ \A j \in shown' : article'[j] # NoArticle
  BY DEF KnowledgeInv, OnceThere
<1> QED BY <1>1, AnswerIsRight

LEMMA KnowledgeStep ==
  ASSUME KnowledgeInv, [KnowledgeNext]_knowledgeVars
  PROVE  KnowledgeInv'
<1>1. CASE UNCHANGED knowledgeVars
  BY <1>1 DEF knowledgeVars, KnowledgeInv, OnceThere, NotFoundIsGone
<1>2. ASSUME NEW e \in Editors, SendCreate(e) PROVE KnowledgeInv'
  BY <1>2, SendInv DEF SendCreate
<1>3. ASSUME NEW e \in Editors, NEW i \in Articles, NEW sends \in SUBSET Columns, SendUpdate(e, i, sends)
      PROVE  KnowledgeInv'
  <2>1. Send(e, "update", {i}, sends) /\ {i} \in SUBSET shown
    BY <1>3 DEF SendUpdate
  <2> QED BY <2>1, SendInv
<1>4. ASSUME NEW e \in Editors, NEW i \in Articles, SendDelete(e, i) PROVE KnowledgeInv'
  <2>1. Send(e, "delete", {i}, {}) /\ {i} \in SUBSET shown
    BY <1>4 DEF SendDelete
  <2> QED BY <2>1, SendInv
<1>5. ASSUME NEW e \in Editors, NEW i \in Articles, NEW answer \in HttpAnswers,
             Create(e, i, answer) \/ Update(e, i, answer) \/ UpdateNothing(e, i, answer) \/ Delete(e, i, answer)
      PROVE  KnowledgeInv'
  <2>1. CASE UpdateNothing(e, i, answer)
    BY <2>1, OnlyAnswerInv DEF UpdateNothing, Sent
  <2> QED BY <1>5, <2>1, CreateInv, UpdateInv, DeleteInv
<1>6. ASSUME NEW e \in Editors, NotExecuted(e) PROVE KnowledgeInv'
  BY <1>6, OnlyAnswerInv DEF NotExecuted, HttpAnswers
<1>7. ASSUME NEW failed \in BOOLEAN, ListArticles(failed) PROVE KnowledgeInv'
  <2>1. UNCHANGED <<article, edit>> /\ shown' \subseteq {i \in Articles : Exists(i)}
    BY <1>7 DEF ListArticles, Listed
  <2>2. \A i \in shown' : article[i] # NoArticle
    BY <2>1, CellsDiffer DEF Exists
  <2>3. OnceThere'
    BY <2>1, <2>2 DEF KnowledgeInv, OnceThere
  <2> QED BY <2>1, <2>3 DEF KnowledgeInv, NotFoundIsGone
<1> QED BY <1>1, <1>2, <1>3, <1>4, <1>5, <1>6, <1>7 DEF KnowledgeNext

LEMMA KnowledgeInitInv == KnowledgeInit => KnowledgeInv
<1> SUFFICES ASSUME KnowledgeInit PROVE KnowledgeInv
  OBVIOUS
<1>1. NoEdit \in EditType /\ NoEdit.id = {} /\ NoEdit.answer = "none"
  BY DEF NoEdit, EditType, HttpAnswers
<1>2. OnceThere
  BY <1>1 DEF KnowledgeInit, OnceThere, Cells
<1>3. NotFoundIsGone
  BY <1>1 DEF KnowledgeInit, NotFoundIsGone
<1> QED BY <1>2, <1>3 DEF KnowledgeInv

(* Articles and the requests about them keep their types.                  *)
THEOREM KnowledgeTypeCorrect == KnowledgeSpec => []KnowledgeTypeOK
<1>1. KnowledgeInit => KnowledgeInv
  BY KnowledgeInitInv
<1>2. KnowledgeInv /\ [KnowledgeNext]_knowledgeVars => KnowledgeInv'
  BY KnowledgeStep
<1>3. KnowledgeInv => KnowledgeTypeOK
  BY KnowledgeTyped DEF KnowledgeInv
<1> QED BY <1>1, <1>2, <1>3, PTL DEF KnowledgeSpec

(* Who sent a field or a deletion and was told 404 was told so of an       *)
(* article that is gone for good (update_knowledge_article,                *)
(* delete_knowledge_article), for any number of editors and articles.      *)
THEOREM KnowledgeNotFoundIsGone == KnowledgeSpec => []NotFoundIsGone
<1>1. KnowledgeInit => KnowledgeInv
  BY KnowledgeInitInv
<1>2. KnowledgeInv /\ [KnowledgeNext]_knowledgeVars => KnowledgeInv'
  BY KnowledgeStep
<1>3. KnowledgeInv => NotFoundIsGone
  BY DEF KnowledgeInv
<1> QED BY <1>1, <1>2, <1>3, PTL DEF KnowledgeSpec

-----------------------------------------------------------------------------
\* The percentage of a part of a finite set that is not empty.
LEMMA Percentage ==
  ASSUME NEW c \in Nat, NEW n \in Nat, n > 0, c <= n
  PROVE  (c * 100) \div n \in 0..100
<1> DEFINE q == (c * 100) \div n
<1>1. q \in Nat /\ n * q <= c * 100
  OBVIOUS
<1>2. q <= 100
  <2>1. SUFFICES ASSUME q >= 101 PROVE FALSE
    BY <1>1
  <2> HIDE DEF q
  <2>2. n * q >= n * 101
    BY <1>1, <2>1
  <2> QED BY <1>1, <2>2
<1> QED BY <1>1, <1>2

Sheets == [stage : QuizStages, sheet : SUBSET Learners, score : 0..100]

(* As long as no search overlapped with another request and all reads      *)
(* succeeded, one set is saved at most, and none while somebody searches;  *)
(* who answers has a sheet, and who is graded was graded against that set. *)
OneSet ==
  ~unread /\ ~overlap =>
    /\ \A a, b \in savedSets : a = b
    /\ \A p, r \in Searching : p = r
    /\ Searching # {} => savedSets = {}
    /\ \A p \in Learners : learner[p].stage = "answering" => learner[p].sheet # {}
    /\ \A p \in Learners : learner[p].stage = "graded" =>
         savedSets # {} /\ (learner[p].sheet \subseteq savedSets => learner[p].score = 100)

QuizInv == QuizTypeOK /\ IsFiniteSet(savedSets) /\ OneSet

LEMMA Turns ==
  ASSUME QuizTypeOK, NEW p \in Learners, NEW stage \in QuizStages, NEW sheet \in SUBSET Learners,
         learner' = Becomes(p, stage, sheet)
  PROVE  /\ learner' \in [Learners -> Sheets] /\ learner'[p].stage = stage /\ learner'[p].sheet = sheet
         /\ \A r \in Learners \ {p} : learner'[r] = learner[r]
         /\ stage # "searching" => Searching' = Searching \ {p}
         /\ stage = "searching" => Searching' = Searching \union {p}
<1> DEFINE x == [stage |-> stage, sheet |-> sheet, score |-> learner[p].score]
<1>1. learner \in [Learners -> Sheets]
  BY DEF QuizTypeOK, Sheets
<1>2. x \in Sheets /\ x.stage = stage /\ x.sheet = sheet
  BY <1>1 DEF Sheets
<1>3. learner' = [learner EXCEPT ![p] = x]
  BY DEF Becomes
<1> HIDE DEF x
<1>4. /\ learner' \in [Learners -> Sheets] /\ learner'[p].stage = stage /\ learner'[p].sheet = sheet
      /\ \A r \in Learners \ {p} : learner'[r] = learner[r]
  BY <1>1, <1>2, <1>3
<1> QED BY <1>4 DEF Searching

\* A set is written only while none is saved and nobody else searches.
LEMMA WrittenInv ==
  ASSUME QuizInv, NEW p \in Learners, NEW outcome \in Outcomes, Written(p, outcome),
         unread' \in BOOLEAN, overlap' \in BOOLEAN, unread => unread', overlap => overlap',
         ~unread' /\ ~overlap' => savedSets = {} /\ Searching \subseteq {p}
  PROVE  QuizInv'
<1>1. PICK stage \in {"answering", "none"}, sheet \in SUBSET Learners :
        /\ learner' = Becomes(p, stage, sheet) /\ (stage = "answering" => sheet # {})
        /\ savedSets' = savedSets \union {p} \/ savedSets' = savedSets
  BY DEF Written, Outcomes
<1>2. stage \in QuizStages /\ stage # "searching" /\ stage # "graded" /\ QuizTypeOK
  BY <1>1 DEF QuizStages, QuizInv
<1>3. /\ learner' \in [Learners -> Sheets] /\ learner'[p].stage = stage /\ learner'[p].sheet = sheet
      /\ \A r \in Learners \ {p} : learner'[r] = learner[r]
      /\ Searching' = Searching \ {p}
  BY <1>1, <1>2, Turns
<1>4. QuizTypeOK'
  BY <1>1, <1>2, <1>3 DEF QuizTypeOK, Sheets
<1>5. IsFiniteSet(savedSets')
  BY <1>1, FS_AddElement DEF QuizInv
<1>6. OneSet'
  <2> SUFFICES ASSUME ~unread', ~overlap'
               PROVE  /\ \A a, b \in savedSets' : a = b
                      /\ \A r, s \in Searching' : r = s
                      /\ Searching' # {} => savedSets' = {}
                      /\ \A r \in Learners : learner'[r].stage = "answering" => learner'[r].sheet # {}
                      /\ \A r \in Learners : learner'[r].stage = "graded" =>
                           savedSets' # {} /\ (learner'[r].sheet \subseteq savedSets' => learner'[r].score = 100)
    BY DEF OneSet
  <2>1. savedSets = {} /\ Searching' = {} /\ ~unread /\ ~overlap
    BY <1>3
  <2>2. \A r \in Learners : /\ learner[r].stage # "graded"
                            /\ learner[r].stage = "answering" => learner[r].sheet # {}
    BY <2>1 DEF QuizInv, OneSet
  <2> QED BY <1>1, <1>2, <1>3, <2>1, <2>2
<1> QED BY <1>4, <1>5, <1>6 DEF QuizInv

\* A learner turns to another stage and nothing is saved.
LEMMA TurnInv ==
  ASSUME QuizInv, NEW p \in Learners, NEW stage \in QuizStages \ {"graded"}, NEW sheet \in SUBSET Learners,
         learner' = Becomes(p, stage, sheet), UNCHANGED savedSets,
         unread' \in BOOLEAN, overlap' \in BOOLEAN, unread => unread', overlap => overlap',
         stage = "answering" => sheet # {},
         stage = "searching" /\ ~unread' /\ ~overlap' => savedSets = {} /\ Searching = {}
  PROVE  QuizInv'
<1>1. /\ learner' \in [Learners -> Sheets] /\ learner'[p].stage = stage /\ learner'[p].sheet = sheet
      /\ \A r \in Learners \ {p} : learner'[r] = learner[r]
      /\ stage # "searching" => Searching' = Searching \ {p}
      /\ stage = "searching" => Searching' = Searching \union {p}
  BY Turns DEF QuizInv
<1>2. QuizTypeOK'
  BY <1>1 DEF QuizInv, QuizTypeOK, Sheets
<1>3. OneSet'
  <2> SUFFICES ASSUME ~unread', ~overlap'
               PROVE  /\ \A a, b \in savedSets : a = b
                      /\ \A r, s \in Searching' : r = s
                      /\ Searching' # {} => savedSets = {}
                      /\ \A r \in Learners : learner'[r].stage = "answering" => learner'[r].sheet # {}
                      /\ \A r \in Learners : learner'[r].stage = "graded" =>
                           savedSets # {} /\ (learner'[r].sheet \subseteq savedSets => learner'[r].score = 100)
    BY DEF OneSet
  <2>1. /\ \A a, b \in savedSets : a = b
        /\ \A r, s \in Searching : r = s
        /\ Searching # {} => savedSets = {}
        /\ \A r \in Learners : learner[r].stage = "answering" => learner[r].sheet # {}
        /\ \A r \in Learners : learner[r].stage = "graded" =>
             savedSets # {} /\ (learner[r].sheet \subseteq savedSets => learner[r].score = 100)
    BY DEF QuizInv, OneSet
  <2>2. (\A r, s \in Searching' : r = s) /\ (Searching' # {} => savedSets = {})
    BY <1>1, <2>1
  <2> QED BY <1>1, <2>1, <2>2
<1> QED BY <1>2, <1>3 DEF QuizInv

LEMMA GetQuestionsInv ==
  ASSUME QuizInv, NEW p \in Learners, NEW readFails \in BOOLEAN, NEW thin \in BOOLEAN, NEW outcome \in Outcomes,
         GetQuestions(p, readFails, thin, outcome)
  PROVE  QuizInv'
<1>1. /\ unread' = (unread \/ readFails) /\ overlap' = (overlap \/ Searching # {})
      /\ savedSets \subseteq Learners /\ unread \in BOOLEAN /\ overlap \in BOOLEAN
  BY DEF GetQuestions, QuizInv, QuizTypeOK
<1>2. unread' \in BOOLEAN /\ overlap' \in BOOLEAN /\ (unread => unread') /\ (overlap => overlap')
      /\ (~unread' => ~readFails) /\ (~overlap' => Searching = {})
  BY <1>1
<1>3. CASE savedSets # {} /\ ~readFails
  <2>1. learner' = Becomes(p, "answering", savedSets) /\ UNCHANGED savedSets
    BY <1>3 DEF GetQuestions
  <2>2. "answering" \in QuizStages \ {"graded"}
    BY DEF QuizStages
  <2> QED BY <1>1, <1>2, <1>3, <2>1, <2>2, TurnInv
<1>4. CASE ~(savedSets # {} /\ ~readFails) /\ thin
  <2>1. learner' = Becomes(p, "searching", {}) /\ UNCHANGED savedSets
    BY <1>4 DEF GetQuestions
  <2>2. "searching" \in QuizStages \ {"graded"}
    BY DEF QuizStages
  <2> QED BY <1>2, <1>4, <2>1, <2>2, TurnInv
<1>5. CASE ~(savedSets # {} /\ ~readFails) /\ ~thin
  <2>1. Written(p, outcome)
    BY <1>5 DEF GetQuestions
  <2> QED BY <1>2, <1>5, <2>1, WrittenInv
<1> QED BY <1>3, <1>4, <1>5

LEMMA SupplementedInv ==
  ASSUME QuizInv, NEW p \in Learners, NEW outcome \in Outcomes, Supplemented(p, outcome)
  PROVE  QuizInv'
<1>1. Written(p, outcome) /\ UNCHANGED <<unread, overlap>> /\ p \in Searching
  BY DEF Supplemented, Searching
<1>2. unread' \in BOOLEAN /\ overlap' \in BOOLEAN
  BY <1>1 DEF QuizInv, QuizTypeOK
<1>3. ~unread' /\ ~overlap' => savedSets = {} /\ Searching \subseteq {p}
  BY <1>1 DEF QuizInv, OneSet
<1> QED BY <1>1, <1>2, <1>3, WrittenInv

LEMMA GradeInv ==
  ASSUME QuizInv, NEW p \in Learners, Grade(p)
  PROVE  QuizInv'
<1>1. UNCHANGED <<savedSets, unread, overlap>> /\ learner[p].stage = "answering"
      /\ learner \in [Learners -> Sheets]
  BY DEF Grade, QuizInv, QuizTypeOK, Sheets
<1>2. CASE savedSets = {}
  <2>1. learner' = Becomes(p, "refused", learner[p].sheet)
    BY <1>2 DEF Grade
  <2>2. "refused" \in QuizStages \ {"graded"} /\ learner[p].sheet \in SUBSET Learners
    BY <1>1 DEF QuizStages, Sheets
  <2>3. unread' \in BOOLEAN /\ overlap' \in BOOLEAN
    BY <1>1 DEF QuizInv, QuizTypeOK
  <2> QED BY <1>1, <2>1, <2>2, <2>3, TurnInv
<1>3. CASE savedSets # {}
  <2> DEFINE sheet == learner[p].sheet
             c == Cardinality(sheet \cap savedSets)
             n == Cardinality(savedSets)
             x == [stage |-> "graded", sheet |-> sheet, score |-> (c * 100) \div n]
  <2>1. c \in Nat /\ n \in Nat /\ n > 0 /\ c <= n
    <3>1. IsFiniteSet(savedSets) /\ IsFiniteSet(sheet \cap savedSets) /\ c <= n
      BY FS_Subset DEF QuizInv
    <3>2. c \in Nat /\ n \in Nat
      BY <3>1, FS_CardinalityType
    <3>3. n # 0
      BY <1>3, <3>1, FS_EmptySet
    <3> HIDE DEF c, n
    <3> QED BY <3>1, <3>2, <3>3
  <2>2. (c * 100) \div n \in 0..100
    <3> HIDE DEF c, n
    <3> QED BY <2>1, Percentage
  <2>3. learner' = [learner EXCEPT ![p] = x]
    BY <1>3 DEF Grade
  <2>4. x \in Sheets /\ x.stage = "graded" /\ x.sheet = sheet /\ x.score = (c * 100) \div n
    <3>1. sheet \in SUBSET Learners
      BY <1>1 DEF Sheets
    <3> HIDE DEF c, n, sheet
    <3> QED BY <2>2, <3>1 DEF Sheets, QuizStages
  <2>5. ~unread /\ ~overlap /\ sheet \subseteq savedSets => x.score = 100
    <3> SUFFICES ASSUME ~unread, ~overlap, sheet \subseteq savedSets PROVE x.score = 100
      OBVIOUS
    <3>1. sheet # {} /\ \A a, b \in savedSets : a = b
      BY <1>1 DEF QuizInv, OneSet
    <3>2. PICK a \in sheet : savedSets = {a} /\ sheet \cap savedSets = {a}
      BY <3>1
    <3>3. c = 1 /\ n = 1
      BY <3>2, FS_Singleton
    <3> HIDE DEF c, n
    <3>4. (c * 100) \div n = 100
      BY <3>3
    <3> QED BY <2>4, <3>4
  <2> HIDE DEF x
  <2>6. learner' \in [Learners -> Sheets] /\ learner'[p] = x /\ \A r \in Learners \ {p} : learner'[r] = learner[r]
    BY <1>1, <2>3, <2>4
  <2>7. Searching' = Searching
    BY <1>1, <2>4, <2>6 DEF Searching
  <2>8. QuizTypeOK'
    BY <1>1, <2>6 DEF QuizInv, QuizTypeOK, Sheets
  <2>9. OneSet'
    <3> HIDE DEF sheet
    <3> SUFFICES ASSUME ~unread, ~overlap
                 PROVE  /\ \A a, b \in savedSets : a = b
                        /\ \A r, s \in Searching : r = s
                        /\ Searching # {} => savedSets = {}
                        /\ \A r \in Learners : learner'[r].stage = "answering" => learner'[r].sheet # {}
                        /\ \A r \in Learners : learner'[r].stage = "graded" =>
                             savedSets # {} /\ (learner'[r].sheet \subseteq savedSets => learner'[r].score = 100)
      BY <1>1, <2>7 DEF OneSet
    <3> QED BY <1>3, <2>4, <2>5, <2>6 DEF QuizInv, OneSet
  <2> QED BY <1>1, <2>8, <2>9 DEF QuizInv
<1> QED BY <1>2, <1>3

LEMMA QuizStep ==
  ASSUME QuizInv, [QuizNext]_quizVars
  PROVE  QuizInv'
<1>1. CASE UNCHANGED quizVars
  BY <1>1 DEF quizVars, QuizInv, QuizTypeOK, OneSet, Searching
<1> QED BY <1>1, GetQuestionsInv, SupplementedInv, GradeInv DEF QuizNext

LEMMA QuizInitInv == QuizInit => QuizInv
<1> SUFFICES ASSUME QuizInit PROVE QuizInv
  OBVIOUS
<1>1. QuizTypeOK
  <2>1. [stage |-> "idle", sheet |-> {}, score |-> 0] \in Sheets
    BY DEF Sheets, QuizStages
  <2> QED BY <2>1 DEF QuizInit, QuizTypeOK, Sheets
<1>2. IsFiniteSet(savedSets)
  BY FS_EmptySet DEF QuizInit
<1>3. OneSet
  BY DEF QuizInit, OneSet, Searching
<1> QED BY <1>1, <1>2, <1>3 DEF QuizInv

(* Sheets keep their type, and a score is a percentage.                    *)
THEOREM QuizTypeCorrect == QuizSpec => []QuizTypeOK
<1>1. QuizInit => QuizInv
  BY QuizInitInv
<1>2. QuizInv /\ [QuizNext]_quizVars => QuizInv'
  BY QuizStep
<1>3. QuizInv => QuizTypeOK
  BY DEF QuizInv
<1> QED BY <1>1, <1>2, <1>3, PTL DEF QuizSpec

(* Full marks for a sheet that is all right, unless requests overlapped in *)
(* the search, a read failed or the sheet was never saved (get_questions,  *)
(* submit_quiz), for any number of learners.                               *)
THEOREM QuizFullMarks == QuizSpec => []FullMarks
<1>1. QuizInit => QuizInv
  BY QuizInitInv
<1>2. QuizInv /\ [QuizNext]_quizVars => QuizInv'
  BY QuizStep
<1>3. QuizInv => FullMarks
  BY DEF QuizInv, OneSet, FullMarks
<1> QED BY <1>1, <1>2, <1>3, PTL DEF QuizSpec

-----------------------------------------------------------------------------
StreamType == [kind : Kinds, held : 0..Len(lists), stage : Stages]

\* A stream that has a conversation holds a list of it while it is answered.
HoldsList ==
  \A s \in Streams :
    /\ stream[s].stage = "new" => stream[s].kind = "plain"
    /\ stream[s].stage \in {"asked", "streaming"} /\ stream[s].kind \in Conversations => stream[s].held # NoList

MentorInv == MentorTypeOK /\ HoldsList

LEMMA EndingType ==
  ASSUME NEW turns \in Seq(Streams), NEW n \in Nat
  PROVE  Ending(turns, n) \in Seq(Streams)
<1> DEFINE m == Len(turns) + 1 - (IF Len(turns) < n THEN Len(turns) ELSE n)
<1>1. m \in 1..(Len(turns) + 1) /\ Len(turns) \in Nat
  <2>1. Len(turns) \in Nat
    OBVIOUS
  <2>2. \A l \in Nat : l + 1 - (IF l < n THEN l ELSE n) \in 1..(l + 1)
    OBVIOUS
  <2> QED BY <2>1, <2>2
<1> HIDE DEF m
<1>2. SubSeq(turns, m, Len(turns)) \in Seq(Streams)
  BY <1>1
<1> QED BY <1>2 DEF Ending, m

\* The list of a conversation, and of a stream.
LEMMA ListsTyped ==
  ASSUME MentorInv
  PROVE  /\ \A c \in Conversations : Conversation(c) \in Seq(Streams)
         /\ \A s \in Streams : stream[s].held # NoList => lists[stream[s].held] \in Seq(Streams)
BY DEF MentorInv, MentorTypeOK, Conversation, NoList

\* A stream that goes on without touching a list.
LEMMA MovesInv ==
  ASSUME MentorInv, NEW s \in Streams, NEW stage \in Stages \ {"new"}, Moves(s, stage),
         UNCHANGED <<lists, cache, seen, answered>>, prompt' \in [Streams -> Seq(Streams)],
         stage \notin {"asked", "streaming"} \/ At(s, "asked") \/ At(s, "new")
  PROVE  MentorInv'
<1>1. /\ stream' = [stream EXCEPT ![s].stage = stage] /\ stream \in [Streams -> StreamType] /\ MentorTypeOK
      /\ lists' = lists
  BY DEF Moves, MentorInv, MentorTypeOK, StreamType
<1>2. /\ stream' \in [Streams -> StreamType] /\ stream'[s].stage = stage /\ stream'[s].kind = stream[s].kind
      /\ stream'[s].held = stream[s].held /\ \A r \in Streams \ {s} : stream'[r] = stream[r]
  BY <1>1 DEF StreamType
<1>3. MentorTypeOK'
  BY <1>1, <1>2 DEF MentorTypeOK, StreamType
<1>4. HoldsList'
  <2>1. "plain" \notin Conversations
    BY DEF Conversations
  <2> QED BY <1>2, <2>1 DEF MentorInv, HoldsList, At
<1> QED BY <1>3, <1>4 DEF MentorInv

LEMMA AskInv ==
  ASSUME MentorInv, NEW s \in Streams, NEW c \in Conversations, Ask(s, c)
  PROVE  MentorInv'
<1> DEFINE h == IF cache[c] # NoList THEN cache[c] ELSE Len(lists) + 1
           Held == [kind |-> c, held |-> h, stage |-> "asked"]
<1>1. /\ MentorTypeOK /\ HoldsList /\ stream \in [Streams -> StreamType] /\ lists \in Seq(Seq(Streams))
      /\ cache \in [Conversations -> 0..Len(lists)] /\ Len(lists) \in Nat
  BY DEF MentorInv, MentorTypeOK, StreamType
<1>2. /\ seen' \in [Streams -> Seq(Streams)] /\ UNCHANGED <<prompt, answered>>
  BY <1>1, ListsTyped DEF Ask, MentorTypeOK
<1>3.   /\ h \in Nat \ {NoList}
        /\ stream' = [stream EXCEPT ![s] = Held] /\ h <= Len(lists') /\ Len(lists') >= Len(lists)
        /\ lists' \in Seq(Seq(Streams)) /\ cache' \in [Conversations -> 0..Len(lists')] /\ Len(lists') \in Nat
  <2>1. CASE cache[c] # NoList
    <3>1. cache[c] \in Nat \ {NoList} /\ cache[c] <= Len(lists)
      BY <1>1, <2>1
    <3>2. h = cache[c] /\ stream' = [stream EXCEPT ![s] = Held] /\ UNCHANGED <<lists, cache>>
      BY <2>1 DEF Ask
    <3> HIDE DEF h, Held
    <3> QED BY <1>1, <3>1, <3>2
  <2>2. CASE cache[c] = NoList
    <3>1. /\ lists' = Append(lists, <<>>) /\ h = Len(lists) + 1 /\ stream' = [stream EXCEPT ![s] = [kind |-> c, held |-> Len(lists'), stage |-> "asked"]]
          /\ cache' = IF c = "mentor" THEN [cache EXCEPT ![c] = Len(lists')] ELSE cache
      BY <2>2 DEF Ask
    <3>2. lists' \in Seq(Seq(Streams)) /\ Len(lists') = Len(lists) + 1
      BY <1>1, <3>1
    <3>3. cache' \in [Conversations -> 0..Len(lists')]
      BY <1>1, <3>1, <3>2
    <3>4. stream' = [stream EXCEPT ![s] = Held]
      BY <3>1, <3>2
    <3>5. h = Len(lists) + 1
      BY <3>1
    <3> HIDE DEF h, Held
    <3>6. h \in Nat \ {NoList} /\ h <= Len(lists') /\ Len(lists') >= Len(lists) /\ Len(lists') \in Nat
      BY <1>1, <3>2, <3>5 DEF NoList
    <3> QED BY <3>2, <3>3, <3>4, <3>6
  <2> QED BY <2>1, <2>2
<1>4. Held \in StreamType' /\ Held.stage = "asked" /\ Held.held # NoList
  BY <1>3 DEF StreamType, Kinds, Stages
<1> HIDE DEF h, Held
<1>5. /\ stream' \in [Streams -> StreamType'] /\ stream'[s] = Held
      /\ \A r \in Streams \ {s} : stream'[r] = stream[r]
  <2>1. StreamType \subseteq StreamType'
    BY <1>1, <1>3 DEF StreamType
  <2> QED BY <1>1, <1>3, <1>4, <2>1
<1>6. MentorTypeOK'
  BY <1>1, <1>2, <1>3, <1>5 DEF MentorTypeOK, StreamType
<1>7. HoldsList'
  BY <1>1, <1>4, <1>5 DEF HoldsList
<1> QED BY <1>6, <1>7 DEF MentorInv

LEMMA CompleteInv ==
  ASSUME MentorInv, NEW s \in Streams, Complete(s)
  PROVE  MentorInv'
<1> DEFINE c == stream[s].kind
           h == stream[s].held
           turns == Append(lists[h], s)
           longer == [lists EXCEPT ![h] = turns]
           ending == Ending(turns, HistoryMax)
<1>1. /\ MentorTypeOK /\ HoldsList /\ stream \in [Streams -> StreamType] /\ lists \in Seq(Seq(Streams))
      /\ cache \in [Conversations -> 0..Len(lists)] /\ Len(lists) \in Nat
      /\ answered \in [Conversations -> Seq(Streams)]
  BY DEF MentorInv, MentorTypeOK, StreamType
<1>2. /\ c \in Conversations /\ stream[s].stage = "streaming" /\ lists' = Append(longer, ending)
      /\ cache' = [cache EXCEPT ![c] = Len(lists')] /\ answered' = [answered EXCEPT ![c] = Append(@, s)]
      /\ stream' = [stream EXCEPT ![s].stage = "saved"] /\ UNCHANGED <<prompt, seen>>
  BY DEF Complete, At, Moves
<1>3. h \in 1..Len(lists) /\ lists[h] \in Seq(Streams)
  <2>1. h # NoList
    BY <1>1, <1>2 DEF HoldsList
  <2>2. h \in 0..Len(lists)
    BY <1>1 DEF StreamType
  <2> QED BY <1>1, <2>1, <2>2, ListsTyped DEF NoList
<1>4. turns \in Seq(Streams) /\ ending \in Seq(Streams)
  <2>1. turns \in Seq(Streams)
    BY <1>3
  <2>2. HistoryMax \in Nat
    BY MentorAssumption
  <2> HIDE DEF turns
  <2> QED BY <2>1, <2>2, EndingType
<1> HIDE DEF turns, ending, h
<1>5. longer \in Seq(Seq(Streams)) /\ Len(longer) = Len(lists)
  BY <1>1, <1>3, <1>4
<1> HIDE DEF longer
<1>6. lists' \in Seq(Seq(Streams)) /\ Len(lists') = Len(lists) + 1
  BY <1>1, <1>2, <1>4, <1>5
<1> HIDE DEF c
<1>7. cache' \in [Conversations -> 0..Len(lists')] /\ answered' \in [Conversations -> Seq(Streams)]
  BY <1>1, <1>2, <1>6
<1>8. /\ stream' \in [Streams -> StreamType'] /\ stream'[s].stage = "saved"
      /\ \A r \in Streams \ {s} : stream'[r] = stream[r]
  <2>1. StreamType \subseteq StreamType'
    BY <1>1, <1>6 DEF StreamType
  <2>2. stream' \in [Streams -> StreamType]
    BY <1>1, <1>2 DEF StreamType, Stages
  <2> QED BY <1>1, <1>2, <2>1, <2>2
<1>9. MentorTypeOK'
  BY <1>1, <1>2, <1>6, <1>7, <1>8 DEF MentorTypeOK, StreamType
<1>10. HoldsList'
  BY <1>1, <1>8 DEF HoldsList
<1> QED BY <1>9, <1>10 DEF MentorInv

LEMMA MentorRestartInv ==
  ASSUME MentorInv, MentorRestart
  PROVE  MentorInv'
<1>1. lists' = <<>> /\ Len(lists') = 0 /\ lists' \in Seq(Seq(Streams))
  <2>1. lists' = <<>>
    BY DEF MentorRestart
  <2> QED BY <2>1
<1>2. MentorTypeOK /\ stream \in [Streams -> StreamType] /\ HoldsList
  BY DEF MentorInv, MentorTypeOK, StreamType
<1>3. ASSUME NEW s \in Streams
      PROVE  /\ stream'[s] \in StreamType' /\ stream'[s].kind = stream[s].kind
             /\ stream'[s].stage \notin {"asked", "streaming"}
             /\ stream'[s].stage = "new" => stream[s].stage = "new"
  <2>1. stream'[s] = [stream[s] EXCEPT !.held = NoList,
                       !.stage = IF @ \in {"asked", "streaming", "saved"} THEN "cut" ELSE @]
    BY DEF MentorRestart
  <2>2. stream[s] \in StreamType /\ "cut" \in Stages /\ NoList \in 0..Len(lists')
    BY <1>1, <1>2 DEF Stages, NoList
  <2> QED BY <2>1, <2>2 DEF StreamType
<1>4. stream' = [s \in Streams |-> stream'[s]]
  BY DEF MentorRestart
<1>5. MentorTypeOK'
  <2>1. stream' \in [Streams -> StreamType']
    BY <1>3, <1>4
  <2>2. /\ cache' \in [Conversations -> 0..Len(lists')] /\ answered' \in [Conversations -> Seq(Streams)]
        /\ prompt' \in [Streams -> Seq(Streams)] /\ seen' \in [Streams -> Seq(Streams)]
    <3>1. /\ cache' = [c \in Conversations |-> 0] /\ answered' = [c \in Conversations |-> <<>>]
          /\ UNCHANGED <<prompt, seen>>
      BY DEF MentorRestart, NoList
    <3>2. 0 \in 0..Len(lists') /\ <<>> \in Seq(Streams)
      BY <1>1
    <3> QED BY <1>2, <3>1, <3>2 DEF MentorTypeOK
  <2> QED BY <1>1, <2>1, <2>2 DEF MentorTypeOK, StreamType
<1>6. HoldsList'
  BY <1>2, <1>3 DEF HoldsList
<1> QED BY <1>5, <1>6 DEF MentorInv

LEMMA MentorStep ==
  ASSUME MentorInv, [MentorNext]_mentorVars
  PROVE  MentorInv'
<1>1. prompt \in [Streams -> Seq(Streams)]
  BY DEF MentorInv, MentorTypeOK
<1>2. ASSUME NEW s \in Streams, AskScenario(s) PROVE MentorInv'
  BY <1>1, <1>2, MovesInv DEF AskScenario, Stages
<1>3. ASSUME NEW s \in Streams, NEW found \in BOOLEAN, AskLesson(s, found) \/ AskDocuments(s, found)
      PROVE  MentorInv'
  <2>1. PICK stage \in {"asked", "error"} : Moves(s, stage)
    BY <1>3 DEF AskLesson, AskDocuments
  <2>2. UNCHANGED <<lists, cache, prompt, seen, answered>> /\ At(s, "new") /\ stage \in Stages \ {"new"}
    BY <1>3 DEF AskLesson, AskDocuments, Stages
  <2> QED BY <1>1, <2>1, <2>2, MovesInv
<1>4. ASSUME NEW s \in Streams, Prompt(s) PROVE MentorInv'
  <2>1. Carried(s) \in Seq(Streams)
    <3>1. CASE stream[s].kind = "mentor"
      <4>1. stream[s].held # NoList
        BY <1>4, <3>1 DEF MentorInv, HoldsList, Prompt, At, Conversations
      <4> QED BY <3>1, <4>1, ListsTyped, EndingType, MentorAssumption DEF Carried
    <3>2. CASE stream[s].kind # "mentor"
      BY <3>2 DEF Carried
    <3> QED BY <3>1, <3>2
  <2>2. prompt' \in [Streams -> Seq(Streams)]
    BY <1>1, <1>4, <2>1 DEF Prompt
  <2>3. "streaming" \in Stages \ {"new"}
    BY DEF Stages
  <2> QED BY <1>4, <2>2, <2>3, MovesInv DEF Prompt
<1>5. ASSUME NEW s \in Streams, Result(s) \/ Fail(s) \/ Disconnect(s) PROVE MentorInv'
  <2>1. PICK stage \in {"result", "error", "cut"} : Moves(s, stage)
    BY <1>5 DEF Result, Fail, Disconnect
  <2>2. UNCHANGED <<lists, cache, prompt, seen, answered>> /\ stage \in Stages \ {"new"}
    BY <1>5 DEF Result, Fail, Disconnect, Stages
  <2> QED BY <1>1, <2>1, <2>2, MovesInv
<1>6. CASE UNCHANGED mentorVars
  BY <1>6 DEF mentorVars, MentorInv, MentorTypeOK, HoldsList
<1> QED BY <1>2, <1>3, <1>4, <1>5, <1>6, AskInv, CompleteInv, MentorRestartInv DEF MentorNext

LEMMA MentorInitInv == MentorInit => MentorInv
<1> SUFFICES ASSUME MentorInit PROVE MentorInv
  OBVIOUS
<1>1. lists \in Seq(Seq(Streams)) /\ Len(lists) = 0
  BY DEF MentorInit
<1>2. [kind |-> "plain", held |-> NoList, stage |-> "new"] \in StreamType
  BY <1>1 DEF StreamType, Kinds, Stages, NoList
<1>3. MentorTypeOK
  BY <1>1, <1>2 DEF MentorInit, MentorTypeOK, StreamType, NoList
<1>4. HoldsList
  BY DEF MentorInit, HoldsList
<1> QED BY <1>3, <1>4 DEF MentorInv

(* The lists of turns keep their type, and every stream and every cache    *)
(* entry names a list that exists, through restarts of the process, for    *)
(* any number of streams and turns.                                        *)
THEOREM MentorTypeCorrect == MentorSpec => []MentorTypeOK
<1>1. MentorInit => MentorInv
  BY MentorInitInv
<1>2. MentorInv /\ [MentorNext]_mentorVars => MentorInv'
  BY MentorStep
<1>3. MentorInv => MentorTypeOK
  BY DEF MentorInv
<1> QED BY <1>1, <1>2, <1>3, PTL DEF MentorSpec

-----------------------------------------------------------------------------
\* The turns are some of those in the order, and in that order.
InOrder(turns, order) ==
  /\ \A i \in 1..Len(turns) : \E p \in 1..Len(order) : order[p] = turns[i]
  /\ \A i, j \in 1..Len(turns) :
       i < j => \E p, q \in 1..Len(order) : p < q /\ order[p] = turns[i] /\ order[q] = turns[j]

LEMMA OrderGrows ==
  ASSUME NEW turns \in Seq(Streams), NEW order \in Seq(Streams), NEW s \in Streams, InOrder(turns, order)
  PROVE  /\ InOrder(turns, Append(order, s))
         /\ InOrder(Append(turns, s), Append(order, s))
<1> DEFINE longer == Append(order, s)
           added == Append(turns, s)
           n == Len(order)
           m == Len(turns)
<1>1. /\ n \in Nat /\ Len(longer) = n + 1 /\ longer[n + 1] = s
      /\ \A p \in 1..n : longer[p] = order[p]
  OBVIOUS
<1>2. /\ m \in Nat /\ Len(added) = m + 1 /\ added[m + 1] = s
      /\ \A p \in 1..m : added[p] = turns[p]
  OBVIOUS
<1>3. /\ \A i \in 1..m : \E p \in 1..n : order[p] = turns[i]
      /\ \A i, j \in 1..m : i < j => \E p, q \in 1..n : p < q /\ order[p] = turns[i] /\ order[q] = turns[j]
  BY DEF InOrder
<1> HIDE DEF longer, added, n, m
<1>4. /\ \A i \in 1..m : \E p \in 1..n : longer[p] = turns[i]
      /\ \A i, j \in 1..m : i < j => \E p, q \in 1..n : p < q /\ longer[p] = turns[i] /\ longer[q] = turns[j]
  <2>1. ASSUME NEW i \in 1..m PROVE \E p \in 1..n : longer[p] = turns[i]
    BY <1>1, <1>3
  <2>2. ASSUME NEW i \in 1..m, NEW j \in 1..m, i < j
        PROVE  \E p, q \in 1..n : p < q /\ longer[p] = turns[i] /\ longer[q] = turns[j]
    BY <1>1, <1>3, <2>2
  <2> QED BY <2>1, <2>2
<1>5. 1..n \subseteq 1..Len(longer) /\ n + 1 \in 1..Len(longer)
  BY <1>1
<1>6. InOrder(turns, longer)
  <2>1. ASSUME NEW i \in 1..m PROVE \E p \in 1..Len(longer) : longer[p] = turns[i]
    BY <1>4, <1>5
  <2>2. ASSUME NEW i \in 1..m, NEW j \in 1..m, i < j
        PROVE  \E p, q \in 1..Len(longer) : p < q /\ longer[p] = turns[i] /\ longer[q] = turns[j]
    <3>1. PICK p, q \in 1..n : p < q /\ longer[p] = turns[i] /\ longer[q] = turns[j]
      BY <1>4, <2>2
    <3> QED BY <1>5, <3>1
  <2> QED BY <2>1, <2>2 DEF InOrder, m
<1>7. InOrder(added, longer)
  <2>1. ASSUME NEW i \in 1..(m + 1) PROVE \E p \in 1..Len(longer) : longer[p] = added[i]
    <3>1. CASE i = m + 1
      BY <1>1, <1>2, <1>5, <3>1
    <3>2. CASE i # m + 1
      <4>1. i \in 1..m
        BY <1>2, <3>2
      <4>2. PICK p \in 1..n : longer[p] = turns[i]
        BY <1>4, <4>1
      <4> QED BY <1>2, <1>5, <4>1, <4>2
    <3> QED BY <3>1, <3>2
  <2>2. ASSUME NEW i \in 1..(m + 1), NEW j \in 1..(m + 1), i < j
        PROVE  \E p, q \in 1..Len(longer) : p < q /\ longer[p] = added[i] /\ longer[q] = added[j]
    <3>1. i \in 1..m
      BY <1>2, <2>2
    <3>2. CASE j = m + 1
      <4>1. PICK p \in 1..n : longer[p] = turns[i]
        BY <1>4, <3>1
      <4>2. p < n + 1 /\ longer[n + 1] = added[j] /\ longer[p] = added[i]
        BY <1>1, <1>2, <3>1, <3>2, <4>1
      <4> QED BY <1>5, <4>2
    <3>3. CASE j # m + 1
      <4>1. j \in 1..m
        BY <1>2, <3>3
      <4>2. PICK p, q \in 1..n : p < q /\ longer[p] = turns[i] /\ longer[q] = turns[j]
        BY <1>4, <2>2, <3>1, <4>1
      <4> QED BY <1>2, <1>5, <3>1, <4>1, <4>2
    <3> QED BY <3>2, <3>3
  <2> QED BY <1>2, <2>1, <2>2 DEF InOrder
<1> QED BY <1>6, <1>7 DEF longer, added

LEMMA EndAt ==
  ASSUME NEW S, NEW q \in Seq(S), NEW d \in Nat, d <= Len(q), NEW i \in 1..(Len(q) - d)
  PROVE  SubSeq(q, d + 1, Len(q))[i] = q[i + d]
OBVIOUS

\* The end of turns in order is in order, and ends like them.
LEMMA EndingInOrder ==
  ASSUME NEW turns \in Seq(Streams), NEW order \in Seq(Streams), NEW n \in Nat, InOrder(turns, order)
  PROVE  /\ InOrder(Ending(turns, n), order) /\ Len(Ending(turns, n)) <= n
         /\ turns # <<>> /\ n > 0 => Ending(turns, n) # <<>> /\ Last(Ending(turns, n)) = Last(turns)
         /\ Len(Ending(turns, n)) < n => Ending(turns, n) = turns
<1> DEFINE ending == Ending(turns, n)
           m == Len(turns)
<1>1. PICK k \in Nat, d \in Nat :
        /\ k <= n /\ k + d = m /\ (k < n => d = 0) /\ (m > 0 /\ n > 0 => k > 0)
        /\ m + 1 - (IF m < n THEN m ELSE n) = d + 1
  <2>1. m \in Nat
    OBVIOUS
  <2> HIDE DEF m
  <2>2. CASE m < n
    <3>1. m + 1 - m = 0 + 1 /\ m + 0 = m
      BY <2>1
    <3> QED BY <2>1, <2>2, <3>1
  <2>3. CASE ~(m < n)
    <3>1. m - n \in Nat /\ n + (m - n) = m /\ m + 1 - n = (m - n) + 1
      BY <2>1, <2>3
    <3> QED BY <2>1, <2>3, <3>1
  <2> QED BY <2>2, <2>3
<1>7. \A i \in 1..k : i + d \in 1..m /\ i + d \in Nat /\ \A j \in 1..k : i < j => i + d < j + d
  <2>1. k + d = m
    BY <1>1
  <2> QED BY <2>1
<1>2. ending = SubSeq(turns, d + 1, m)
  BY <1>1 DEF Ending
<1>0. m \in Nat /\ m = Len(turns)
  OBVIOUS
<1> HIDE DEF ending, m
<1>3. /\ Len(ending) = k /\ \A i \in 1..k : ending[i] = turns[i + d] /\ i + d \in 1..m
      /\ ending \in Seq(Streams)
  <2>1. 1 <= d + 1 /\ d + 1 <= m + 1 /\ d + 1 \in Nat
    BY <1>0, <1>1
  <2>2. ending \in Seq(Streams)
    BY <1>0, <1>1, <1>2, <2>1
  <2>3. Len(ending) = k
    BY <1>0, <1>1, <1>2, <2>1
  <2>4. ASSUME NEW i \in 1..k PROVE ending[i] = turns[i + d] /\ i + d \in 1..m
    <3>1. i + d \in 1..m /\ i \in Nat /\ i >= 1
      BY <1>7
    <3>2. d <= m /\ i \in 1..(m - d)
      BY <1>0, <1>1, <3>1
    <3>3. SubSeq(turns, d + 1, m)[i] = turns[i + d]
      BY <1>0, <3>2, EndAt
    <3> QED BY <1>2, <3>1, <3>3
  <2> QED BY <2>2, <2>3, <2>4
<1>4. InOrder(ending, order)
  <2>1. ASSUME NEW i \in 1..k PROVE \E p \in 1..Len(order) : order[p] = ending[i]
    <3>1. i + d \in 1..Len(turns) /\ ending[i] = turns[i + d]
      BY <1>0, <1>3
    <3>2. \E p \in 1..Len(order) : order[p] = turns[i + d]
      BY <3>1 DEF InOrder
    <3> QED BY <3>1, <3>2
  <2>2. ASSUME NEW i \in 1..k, NEW j \in 1..k, i < j
        PROVE  \E p, q \in 1..Len(order) : p < q /\ order[p] = ending[i] /\ order[q] = ending[j]
    <3>1. i + d \in 1..m /\ j + d \in 1..m /\ i + d < j + d
      BY <1>7, <2>2
    <3>2. /\ i + d \in 1..Len(turns) /\ j + d \in 1..Len(turns) /\ i + d < j + d
          /\ ending[i] = turns[i + d] /\ ending[j] = turns[j + d]
      BY <1>0, <1>3, <3>1
    <3>3. \E p, q \in 1..Len(order) : p < q /\ order[p] = turns[i + d] /\ order[q] = turns[j + d]
      BY <3>2 DEF InOrder
    <3> QED BY <3>2, <3>3
  <2> QED BY <1>3, <2>1, <2>2 DEF InOrder
<1>5. ASSUME turns # <<>>, n > 0 PROVE ending # <<>> /\ Last(ending) = Last(turns)
  <2>1. m > 0
    BY <1>0, <1>5
  <2>2. k > 0 /\ k \in 1..k
    BY <1>1, <1>5, <2>1
  <2>3. ending[k] = turns[m]
    <3>1. ending[k] = turns[k + d] /\ k + d = m
      BY <1>1, <1>3, <2>2
    <3> QED BY <3>1
  <2> QED BY <1>0, <1>3, <2>2, <2>3 DEF Last
<1>6. ASSUME k < n PROVE ending = turns
  <2>1. d = 0 /\ k = m
    BY <1>1, <1>6
  <2>2. \A i \in 1..k : ending[i] = turns[i]
    BY <1>3, <2>1
  <2> QED BY <1>0, <1>3, <2>1, <2>2
<1> QED BY <1>1, <1>3, <1>4, <1>5, <1>6 DEF ending

\* A sequence with one more at its end.
LEMMA Appended ==
  ASSUME NEW S, NEW q \in Seq(S), NEW e \in S
  PROVE  /\ Append(q, e) \in Seq(S) /\ Len(q) \in Nat /\ Len(Append(q, e)) = Len(q) + 1
         /\ Append(q, e)[Len(q) + 1] = e /\ \A i \in 1..Len(q) : Append(q, e)[i] = q[i]
OBVIOUS

\* What is in a sequence is in one that goes on from it.
LEMMA LongerHasMore ==
  ASSUME NEW S, NEW q \in Seq(S), NEW more \in Seq(S), Len(more) = Len(q) + 1, \A i \in 1..Len(q) : more[i] = q[i]
  PROVE  ToSet(q) \subseteq ToSet(more)
<1>1. DOMAIN q = 1..Len(q) /\ DOMAIN more = 1..(Len(q) + 1) /\ Len(q) \in Nat
  OBVIOUS
<1>2. \A i \in DOMAIN q : i \in DOMAIN more /\ more[i] = q[i]
  BY <1>1
<1> QED BY <1>2 DEF ToSet

\* A stream that will add its turn to the list it holds.
Answering(s, c) == stream[s].stage \in {"asked", "streaming"} /\ stream[s].kind = c

\* A list that a conversation is kept in, or that a turn will be added to.
InUse(a, c) == a # NoList /\ (cache[c] = a \/ \E s \in Streams : Answering(s, c) /\ stream[s].held = a)

TurnsAnsweredOnce ==
  \A c \in Conversations :
    /\ \A p \in 1..Len(answered[c]) : stream[answered[c][p]].stage \in {"saved", "result", "cut"}
    /\ \A p, q \in 1..Len(answered[c]) : answered[c][p] = answered[c][q] => p = q

\* The conversations share no list, and every list of one is in order.
ListsApart ==
  \A c, d \in Conversations : \A a \in 1..Len(lists) : InUse(a, c) /\ InUse(a, d) => c = d

ListsInOrder ==
  \A c \in Conversations : \A a \in 1..Len(lists) : InUse(a, c) => InOrder(lists[a], answered[c])

LatestKept ==
  \A c \in Conversations :
    /\ cache[c] # NoList => Len(lists[cache[c]]) <= HistoryMax
    /\ answered[c] # <<>> => /\ cache[c] # NoList /\ lists[cache[c]] # <<>>
                             /\ Last(lists[cache[c]]) = Last(answered[c])

SeenIsHeld ==
  \A s \in Streams : \A c \in Conversations : Answering(s, c) => ToSet(seen[s]) \subseteq ToSet(lists[stream[s].held])

TurnsInv == MentorInv /\ TurnsAnsweredOnce /\ ListsApart /\ ListsInOrder /\ LatestKept /\ SeenIsHeld

\* A list in use exists.
LEMMA InUseExists ==
  ASSUME MentorInv, NEW c \in Conversations
  PROVE  /\ cache[c] \in 0..Len(lists)
         /\ cache[c] # NoList => cache[c] \in 1..Len(lists) /\ InUse(cache[c], c)
         /\ \A s \in Streams : Answering(s, c) => stream[s].held \in 1..Len(lists) /\ InUse(stream[s].held, c)
<1>1. cache[c] \in 0..Len(lists)
  BY DEF MentorInv, MentorTypeOK
<1>2. ASSUME NEW s \in Streams, Answering(s, c) PROVE stream[s].held \in 1..Len(lists) /\ InUse(stream[s].held, c)
  <2>1. stream[s].held \in 0..Len(lists) /\ stream[s].held # NoList
    BY <1>2 DEF MentorInv, MentorTypeOK, HoldsList, Answering
  <2> QED BY <1>2, <2>1 DEF InUse, NoList
<1> QED BY <1>1, <1>2 DEF InUse, NoList

\* A stream that goes on without touching a list leaves every list in order.
LEMMA MovesTurns ==
  ASSUME TurnsInv, MentorInv', NEW s \in Streams, NEW stage \in Stages, Moves(s, stage),
         UNCHANGED <<lists, cache, seen, answered>>,
         At(s, "saved") => stage \in {"result", "cut"},
         ~At(s, "result") /\ ~At(s, "cut"),
         stage \in {"asked", "streaming"} => At(s, "new") \/ At(s, "asked")
  PROVE  TurnsInv'
<1>1. /\ stream \in [Streams -> StreamType] /\ stream' = [stream EXCEPT ![s].stage = stage]
      /\ At(s, "new") => stream[s].kind = "plain"
  BY DEF TurnsInv, MentorInv, MentorTypeOK, HoldsList, StreamType, Moves, At
<1>2. /\ stream'[s].stage = stage /\ stream'[s].kind = stream[s].kind /\ stream'[s].held = stream[s].held
      /\ \A r \in Streams \ {s} : stream'[r] = stream[r]
  BY <1>1 DEF StreamType
<1>3. ASSUME NEW r \in Streams, NEW c \in Conversations, Answering(r, c)'
      PROVE  Answering(r, c) /\ stream'[r].held = stream[r].held
  BY <1>1, <1>2, <1>3 DEF Answering, At, Conversations
<1>4. ASSUME NEW c \in Conversations, NEW a \in 1..Len(lists), InUse(a, c)' PROVE InUse(a, c)
  BY <1>3, <1>4 DEF InUse
<1>5. TurnsAnsweredOnce'
  <2> SUFFICES ASSUME NEW c \in Conversations, NEW p \in 1..Len(answered[c])
               PROVE  stream'[answered[c][p]].stage \in {"saved", "result", "cut"}
    BY DEF TurnsInv, TurnsAnsweredOnce
  <2>1. answered[c][p] \in Streams /\ stream[answered[c][p]].stage \in {"saved", "result", "cut"}
    BY DEF TurnsInv, MentorInv, MentorTypeOK, TurnsAnsweredOnce
  <2> QED BY <1>2, <2>1 DEF At
<1>6. ListsApart' /\ ListsInOrder'
  BY <1>4 DEF TurnsInv, ListsApart, ListsInOrder
<1>7. LatestKept'
  BY DEF TurnsInv, LatestKept
<1>8. SeenIsHeld'
  BY <1>3 DEF TurnsInv, SeenIsHeld
<1> QED BY <1>5, <1>6, <1>7, <1>8 DEF TurnsInv

LEMMA AskTurns ==
  ASSUME TurnsInv, MentorInv', NEW s \in Streams, NEW c \in Conversations, Ask(s, c)
  PROVE  TurnsInv'
<1> DEFINE n == Len(lists)
<1>1. /\ MentorTypeOK /\ stream \in [Streams -> StreamType] /\ lists \in Seq(Seq(Streams)) /\ n \in Nat
      /\ answered \in [Conversations -> Seq(Streams)] /\ UNCHANGED answered /\ At(s, "new")
      /\ seen \in [Streams -> Seq(Streams)] /\ seen' = [seen EXCEPT ![s] = Conversation(c)]
      /\ cache \in [Conversations -> 0..n]
  <2>1. UNCHANGED answered /\ At(s, "new") /\ seen' = [seen EXCEPT ![s] = Conversation(c)]
    BY DEF Ask
  <2>2. /\ MentorTypeOK /\ stream \in [Streams -> StreamType] /\ lists \in Seq(Seq(Streams))
        /\ answered \in [Conversations -> Seq(Streams)] /\ seen \in [Streams -> Seq(Streams)]
        /\ cache \in [Conversations -> 0..n]
    BY DEF TurnsInv, MentorInv, MentorTypeOK, StreamType
  <2> QED BY <2>1, <2>2
<1>2. PICK h \in Nat : stream' = [stream EXCEPT ![s] = [kind |-> c, held |-> h, stage |-> "asked"]]
                       /\ h = (IF cache[c] # NoList THEN cache[c] ELSE n + 1)
  <2>1. CASE cache[c] # NoList
    BY <1>1, <2>1 DEF Ask
  <2>2. CASE cache[c] = NoList
    <3>1. Len(Append(lists, <<>>)) = n + 1
      BY <1>1
    <3> QED BY <1>1, <2>2, <3>1 DEF Ask
  <2> QED BY <2>1, <2>2
<1>3. /\ stream'[s].stage = "asked" /\ stream'[s].kind = c /\ stream'[s].held = h
      /\ \A r \in Streams \ {s} : stream'[r] = stream[r]
  BY <1>1, <1>2
<1>4. ASSUME NEW r \in Streams \ {s}, NEW d \in Conversations, Answering(r, d)'
      PROVE  Answering(r, d) /\ stream'[r].held = stream[r].held
  BY <1>3, <1>4 DEF Answering
<1>5. \A d \in Conversations : Answering(s, d)' => d = c
  BY <1>3 DEF Answering
<1>6. TurnsAnsweredOnce'
  <2> SUFFICES ASSUME NEW d \in Conversations, NEW p \in 1..Len(answered[d])
               PROVE  stream'[answered[d][p]].stage \in {"saved", "result", "cut"}
    BY <1>1 DEF TurnsInv, TurnsAnsweredOnce
  <2>1. answered[d][p] \in Streams /\ stream[answered[d][p]].stage \in {"saved", "result", "cut"}
    BY <1>1 DEF TurnsInv, TurnsAnsweredOnce
  <2> QED BY <1>1, <1>3, <2>1 DEF At
<1>7. ASSUME cache[c] # NoList PROVE TurnsInv'
  <2>1. UNCHANGED <<lists, cache>> /\ h = cache[c]
    BY <1>2, <1>7 DEF Ask
  <2>2. ASSUME NEW d \in Conversations, NEW a \in 1..Len(lists), InUse(a, d)' PROVE InUse(a, d)
    <3>1. CASE cache'[d] = a
      BY <2>1, <2>2, <3>1 DEF InUse
    <3>2. CASE cache'[d] # a
      <4>1. PICK r \in Streams : Answering(r, d)' /\ stream'[r].held = a
        BY <2>2, <3>2 DEF InUse
      <4>2. CASE r = s
        BY <1>3, <1>5, <2>1, <2>2, <4>1, <4>2 DEF InUse
      <4>3. CASE r # s
        BY <1>4, <2>2, <4>1, <4>3 DEF InUse
      <4> QED BY <4>2, <4>3
    <3> QED BY <3>1, <3>2
  <2>3. ListsApart' /\ ListsInOrder'
    BY <1>1, <2>1, <2>2 DEF TurnsInv, ListsApart, ListsInOrder
  <2>4. LatestKept'
    BY <1>1, <2>1 DEF TurnsInv, LatestKept
  <2>5. SeenIsHeld'
    <3>1. seen'[s] = lists'[stream'[s].held] /\ \A r \in Streams \ {s} : seen'[r] = seen[r]
      BY <1>1, <1>3, <1>7, <2>1 DEF Conversation
    <3> QED BY <1>4, <2>1, <3>1 DEF TurnsInv, SeenIsHeld
  <2> QED BY <1>6, <2>3, <2>4, <2>5 DEF TurnsInv
<1>8. ASSUME cache[c] = NoList PROVE TurnsInv'
  <2>1. /\ lists' = Append(lists, <<>>) /\ h = n + 1
        /\ cache' \in {cache, [cache EXCEPT ![c] = Len(lists')]}
    BY <1>2, <1>8 DEF Ask
  <2>2. /\ Len(lists') = n + 1 /\ lists'[n + 1] = <<>> /\ \A a \in 1..n : lists'[a] = lists[a]
        /\ n + 1 \notin 1..n /\ n + 1 # NoList
    BY <1>1, <2>1 DEF NoList
  <2>3. \A d \in Conversations : cache'[d] = cache[d] \/ (d = c /\ cache'[d] = n + 1)
    BY <1>1, <2>1, <2>2
  <2>4. ASSUME NEW d \in Conversations, NEW a \in 1..Len(lists'), InUse(a, d)'
        PROVE  (a \in 1..n /\ InUse(a, d)) \/ (a = n + 1 /\ d = c)
    <3>1. a # NoList
      BY <2>4 DEF InUse
    <3>2. CASE cache'[d] = a
      BY <1>1, <2>3, <3>1, <3>2 DEF InUse, NoList
    <3>3. CASE cache'[d] # a
      <4>1. PICK r \in Streams : Answering(r, d)' /\ stream'[r].held = a
        BY <2>4, <3>3 DEF InUse
      <4>2. CASE r = s
        BY <1>3, <1>5, <2>1, <4>1, <4>2
      <4>3. CASE r # s
        <5>1. Answering(r, d) /\ stream[r].held = a
          BY <1>4, <4>1, <4>3
        <5> QED BY <5>1, InUseExists DEF TurnsInv
      <4> QED BY <4>2, <4>3
    <3> QED BY <3>2, <3>3
  <2>5. ListsApart'
    BY <2>2, <2>4 DEF TurnsInv, ListsApart
  <2>6. ListsInOrder'
    <3> SUFFICES ASSUME NEW d \in Conversations, NEW a \in 1..Len(lists'), InUse(a, d)'
                 PROVE  InOrder(lists'[a], answered'[d])
      BY DEF ListsInOrder
    <3>1. CASE a \in 1..n /\ InUse(a, d)
      BY <1>1, <2>2, <3>1 DEF TurnsInv, ListsInOrder
    <3>2. CASE a = n + 1
      BY <2>2, <3>2 DEF InOrder
    <3> QED BY <2>4, <3>1, <3>2
  <2>7. LatestKept'
    <3> SUFFICES ASSUME NEW d \in Conversations
                 PROVE  /\ cache'[d] # NoList => Len(lists'[cache'[d]]) <= HistoryMax
                        /\ answered[d] # <<>> => /\ cache'[d] # NoList /\ lists'[cache'[d]] # <<>>
                                                 /\ Last(lists'[cache'[d]]) = Last(answered[d])
      BY <1>1 DEF LatestKept
    <3>1. CASE cache'[d] = cache[d]
      <4>1. cache[d] # NoList => lists'[cache[d]] = lists[cache[d]]
        BY <1>1, <2>2 DEF NoList
      <4> QED BY <3>1, <4>1 DEF TurnsInv, LatestKept
    <3>2. CASE d = c /\ cache'[d] = n + 1
      <4>1. answered[d] = <<>>
        BY <1>8, <3>2 DEF TurnsInv, LatestKept
      <4> QED BY <2>2, <3>2, <4>1, MentorAssumption
    <3> QED BY <2>3, <3>1, <3>2
  <2>8. SeenIsHeld'
    <3>1. seen'[s] = <<>> /\ \A r \in Streams \ {s} : seen'[r] = seen[r]
      BY <1>1, <1>8 DEF Conversation
    <3>2. ASSUME NEW r \in Streams \ {s}, NEW d \in Conversations, Answering(r, d)'
          PROVE  ToSet(seen'[r]) \subseteq ToSet(lists'[stream'[r].held])
      <4>1. Answering(r, d) /\ stream'[r].held = stream[r].held /\ stream[r].held \in 1..n
        BY <1>4, <3>2, InUseExists DEF TurnsInv
      <4> QED BY <2>2, <3>1, <4>1 DEF TurnsInv, SeenIsHeld
    <3>3. ToSet(seen'[s]) = {}
      BY <3>1 DEF ToSet
    <3> QED BY <3>2, <3>3 DEF SeenIsHeld
  <2> QED BY <1>6, <2>5, <2>6, <2>7, <2>8 DEF TurnsInv
<1> QED BY <1>7, <1>8
LEMMA CompleteTurns ==
  ASSUME TurnsInv, MentorInv', NEW s \in Streams, Complete(s)
  PROVE  TurnsInv'
<1>0. PICK c \in Conversations, h \in Nat, n \in Nat : c = stream[s].kind /\ h = stream[s].held /\ n = Len(lists)
  <2>1. stream[s].kind \in Conversations /\ stream[s].held \in Nat /\ Len(lists) \in Nat
    BY DEF Complete, TurnsInv, MentorInv, MentorTypeOK
  <2> QED BY <2>1
<1> DEFINE turns == Append(lists[h], s)
           ending == Ending(turns, HistoryMax)
           longer == [lists EXCEPT ![h] = turns]
<1>1. /\ stream \in [Streams -> StreamType] /\ lists \in Seq(Seq(Streams)) /\ n \in Nat
      /\ answered \in [Conversations -> Seq(Streams)] /\ cache \in [Conversations -> 0..n]
      /\ HistoryMax \in Nat /\ HistoryMax > 0
  BY <1>0, MentorAssumption DEF TurnsInv, MentorInv, MentorTypeOK, StreamType
<1>2. /\ c \in Conversations /\ stream[s].stage = "streaming" /\ lists' = Append(longer, ending)
      /\ cache' = [cache EXCEPT ![c] = Len(lists')] /\ answered' = [answered EXCEPT ![c] = Append(answered[c], s)]
      /\ stream' = [stream EXCEPT ![s].stage = "saved"] /\ UNCHANGED <<prompt, seen>>
  BY <1>0 DEF Complete, At, Moves
<1>3. Answering(s, c) /\ h \in 1..n /\ InUse(h, c) /\ lists[h] \in Seq(Streams)
  BY <1>0, <1>1, <1>2, InUseExists DEF TurnsInv, Answering
<1>4. /\ turns \in Seq(Streams) /\ turns # <<>> /\ Last(turns) = s
      /\ Len(turns) = Len(lists[h]) + 1 /\ \A i \in 1..Len(lists[h]) : turns[i] = lists[h][i]
  <2>1. Len(lists[h]) \in Nat /\ turns[Len(lists[h]) + 1] = s /\ Len(turns) = Len(lists[h]) + 1
    BY <1>3
  <2> QED BY <1>3, <2>1 DEF Last
<1>5. InOrder(lists[h], answered[c]) /\ InOrder(turns, answered'[c]) /\ answered[c] \in Seq(Streams)
  <2>1. InOrder(lists[h], answered[c])
    BY <1>0, <1>3 DEF TurnsInv, ListsInOrder
  <2> QED BY <1>1, <1>2, <1>3, <2>1, OrderGrows
<1>6. /\ answered'[c] \in Seq(Streams) /\ Len(answered'[c]) = Len(answered[c]) + 1 /\ Last(answered'[c]) = s
      /\ \A p \in 1..Len(answered[c]) : answered'[c][p] = answered[c][p]
      /\ answered'[c][Len(answered[c]) + 1] = s /\ Len(answered[c]) \in Nat
      /\ \A d \in Conversations \ {c} : answered'[d] = answered[d]
  <2>1. answered'[c] = Append(answered[c], s) /\ \A d \in Conversations \ {c} : answered'[d] = answered[d]
    BY <1>1, <1>2
  <2> QED BY <1>5, <2>1 DEF Last
<1>7. /\ InOrder(ending, answered'[c]) /\ Len(ending) <= HistoryMax
      /\ ending # <<>> /\ Last(ending) = s
  BY <1>1, <1>4, <1>5, <1>6, EndingInOrder
<1> HIDE DEF turns, ending
<1>8. longer \in Seq(Seq(Streams)) /\ Len(longer) = n /\ longer[h] = turns
      /\ \A a \in 1..n : a # h => longer[a] = lists[a]
  BY <1>0, <1>1, <1>3, <1>4
<1> HIDE DEF longer
<1>9. /\ Len(lists') = n + 1 /\ lists'[n + 1] = ending /\ lists'[h] = turns
      /\ \A a \in 1..n : a # h => lists'[a] = lists[a]
      /\ n + 1 \notin 1..n /\ n + 1 # NoList /\ h # n + 1
  <2>1. lists' \in Seq(Seq(Streams)) /\ ending \in Seq(Streams)
    <3>1. lists' \in Seq(Seq(Streams))
      BY DEF MentorInv, MentorTypeOK
    <3> QED BY <1>1, <1>4, <3>1, EndingType DEF ending
  <2>2. /\ Len(Append(longer, ending)) = n + 1 /\ Append(longer, ending)[n + 1] = ending
        /\ \A a \in 1..n : Append(longer, ending)[a] = longer[a]
    BY <1>8, <2>1, Appended
  <2>3. n + 1 \notin 1..n /\ n + 1 # NoList /\ h # n + 1
    BY <1>1, <1>3 DEF NoList
  <2> QED BY <1>2, <1>3, <1>8, <2>2, <2>3
<1>10. /\ stream'[s].stage = "saved" /\ \A r \in Streams \ {s} : stream'[r] = stream[r]
       /\ cache'[c] = n + 1 /\ \A d \in Conversations \ {c} : cache'[d] = cache[d]
  BY <1>1, <1>2, <1>9 DEF StreamType
<1>11. ASSUME NEW r \in Streams, NEW d \in Conversations, Answering(r, d)'
       PROVE  Answering(r, d) /\ stream'[r].held = stream[r].held
  BY <1>10, <1>11 DEF Answering
<1>12. ASSUME NEW d \in Conversations, NEW a \in 1..Len(lists'), InUse(a, d)'
       PROVE  (a \in 1..n /\ InUse(a, d)) \/ (a = n + 1 /\ d = c)
  <2>1. a # NoList
    BY <1>12 DEF InUse
  <2>2. CASE cache'[d] = a
    <3>1. CASE d = c
      BY <1>10, <2>2, <3>1
    <3>2. CASE d # c
      <4>1. cache[d] = a
        BY <1>10, <2>2, <3>2
      <4> QED BY <1>0, <2>1, <4>1, InUseExists DEF TurnsInv
    <3> QED BY <3>1, <3>2
  <2>3. CASE cache'[d] # a
    <3>1. PICK r \in Streams : Answering(r, d)' /\ stream'[r].held = a
      BY <1>12, <2>3 DEF InUse
    <3>2. Answering(r, d) /\ stream[r].held = a
      BY <1>11, <3>1
    <3> QED BY <1>0, <3>2, InUseExists DEF TurnsInv
  <2> QED BY <2>2, <2>3
<1>13. TurnsAnsweredOnce'
  <2>1. ASSUME NEW d \in Conversations, NEW p \in 1..Len(answered[d])
        PROVE  /\ answered[d][p] \in Streams \ {s}
               /\ stream'[answered[d][p]].stage \in {"saved", "result", "cut"}
    <3>1. answered[d][p] \in Streams /\ stream[answered[d][p]].stage \in {"saved", "result", "cut"}
      BY <1>0, <1>1 DEF TurnsInv, TurnsAnsweredOnce
    <3> QED BY <1>2, <1>10, <3>1
  <2>2. ASSUME NEW d \in Conversations \ {c}, NEW p \in 1..Len(answered[d]), NEW q \in 1..Len(answered[d]),
               answered[d][p] = answered[d][q]
        PROVE  p = q
    BY <1>0, <2>2 DEF TurnsInv, TurnsAnsweredOnce
  <2>3. ASSUME NEW p \in 1..(Len(answered[c]) + 1) PROVE stream'[answered'[c][p]].stage \in {"saved", "result", "cut"}
    <3>1. CASE p = Len(answered[c]) + 1
      BY <1>6, <1>10, <3>1
    <3>2. CASE p # Len(answered[c]) + 1
      <4>1. p \in 1..Len(answered[c])
        BY <1>6, <3>2
      <4> QED BY <1>2, <1>6, <2>1, <4>1
    <3> QED BY <3>1, <3>2
  <2>4. ASSUME NEW p \in 1..(Len(answered[c]) + 1), NEW q \in 1..(Len(answered[c]) + 1),
               answered'[c][p] = answered'[c][q]
        PROVE  p = q
    <3>1. \A k \in 1..(Len(answered[c]) + 1) : k = Len(answered[c]) + 1 \/ k \in 1..Len(answered[c])
      BY <1>6
    <3>2. \A k \in 1..Len(answered[c]) : answered'[c][k] = answered[c][k] /\ answered[c][k] # s
      BY <1>2, <1>6, <2>1
    <3>3. CASE p \in 1..Len(answered[c]) /\ q \in 1..Len(answered[c])
      BY <1>0, <1>2, <2>4, <3>2, <3>3 DEF TurnsInv, TurnsAnsweredOnce
    <3> QED BY <1>6, <2>4, <3>1, <3>2, <3>3
  <2>5. \A d \in Conversations \ {c} : answered'[d] = answered[d]
    BY <1>6
  <2>6. ASSUME NEW d \in Conversations \ {c}
        PROVE  /\ \A p \in 1..Len(answered'[d]) : stream'[answered'[d][p]].stage \in {"saved", "result", "cut"}
               /\ \A p, q \in 1..Len(answered'[d]) : answered'[d][p] = answered'[d][q] => p = q
    <3>1. answered'[d] = answered[d]
      BY <2>5, <2>6
    <3> QED BY <2>1, <2>2, <3>1
  <2>7. /\ \A p \in 1..Len(answered'[c]) : stream'[answered'[c][p]].stage \in {"saved", "result", "cut"}
        /\ \A p, q \in 1..Len(answered'[c]) : answered'[c][p] = answered'[c][q] => p = q
    BY <1>6, <2>3, <2>4
  <2> QED BY <2>6, <2>7 DEF TurnsAnsweredOnce
<1>14. ListsApart'
  BY <1>0, <1>9, <1>12 DEF TurnsInv, ListsApart
<1>15. ListsInOrder'
  <2> SUFFICES ASSUME NEW d \in Conversations, NEW a \in 1..Len(lists'), InUse(a, d)'
               PROVE  InOrder(lists'[a], answered'[d])
    BY DEF ListsInOrder
  <2>1. CASE a = n + 1 /\ d = c
    BY <1>7, <1>9, <2>1
  <2>2. CASE a \in 1..n /\ InUse(a, d)
    <3>1. InOrder(lists[a], answered[d]) /\ lists[a] \in Seq(Streams)
      BY <1>0, <1>1, <2>2 DEF TurnsInv, ListsInOrder
    <3>2. CASE d # c
      <4>1. a # h
        BY <1>0, <1>2, <1>3, <2>2, <3>2 DEF TurnsInv, ListsApart
      <4> QED BY <1>6, <1>9, <2>2, <3>1, <3>2, <4>1
    <3>3. CASE d = c /\ a = h
      BY <1>5, <1>9, <3>3
    <3>4. CASE d = c /\ a # h
      <4>1. InOrder(lists[a], Append(answered[c], s))
        BY <1>5, <3>1, <3>4, OrderGrows
      <4>2. answered'[c] = Append(answered[c], s)
        BY <1>1, <1>2
      <4> QED BY <1>9, <2>2, <3>4, <4>1, <4>2
    <3> QED BY <3>2, <3>3, <3>4
  <2> QED BY <1>12, <2>1, <2>2
<1>16. LatestKept'
  <2> SUFFICES ASSUME NEW d \in Conversations
               PROVE  /\ cache'[d] # NoList => Len(lists'[cache'[d]]) <= HistoryMax
                      /\ answered'[d] # <<>> => /\ cache'[d] # NoList /\ lists'[cache'[d]] # <<>>
                                                /\ Last(lists'[cache'[d]]) = Last(answered'[d])
    BY DEF LatestKept
  <2>1. CASE d = c
    BY <1>6, <1>7, <1>9, <1>10, <2>1
  <2>2. CASE d # c
    <3>1. cache[d] # NoList => cache[d] \in 1..n /\ cache[d] # h
      BY <1>0, <1>2, <1>3, <2>2, InUseExists DEF TurnsInv, ListsApart
    <3>2. cache[d] # NoList => lists'[cache[d]] = lists[cache[d]]
      BY <1>9, <3>1
    <3> QED BY <1>0, <1>6, <1>10, <2>2, <3>2 DEF TurnsInv, LatestKept
  <2> QED BY <2>1, <2>2
<1>17. SeenIsHeld'
  <2> SUFFICES ASSUME NEW r \in Streams, NEW d \in Conversations, Answering(r, d)'
               PROVE  ToSet(seen'[r]) \subseteq ToSet(lists'[stream'[r].held])
    BY DEF SeenIsHeld
  <2>1. Answering(r, d) /\ stream'[r].held = stream[r].held /\ stream[r].held \in 1..n /\ seen'[r] = seen[r]
    BY <1>0, <1>2, <1>11, InUseExists DEF TurnsInv
  <2>2. ToSet(seen[r]) \subseteq ToSet(lists[stream[r].held])
    BY <1>0, <2>1 DEF TurnsInv, SeenIsHeld
  <2>3. ToSet(lists[h]) \subseteq ToSet(turns)
    BY <1>3, <1>4, LongerHasMore
  <2> QED BY <1>9, <2>1, <2>2, <2>3
<1> QED BY <1>13, <1>14, <1>15, <1>16, <1>17 DEF TurnsInv

LEMMA RestartTurns ==
  ASSUME TurnsInv, MentorInv', MentorRestart
  PROVE  TurnsInv'
<1>1. /\ lists' = <<>> /\ \A c \in Conversations : cache'[c] = NoList /\ answered'[c] = <<>>
  BY DEF MentorRestart
<1>2. \A s \in Streams : stream'[s].stage \notin {"asked", "streaming"}
  <2> SUFFICES ASSUME NEW s \in Streams PROVE stream'[s].stage \notin {"asked", "streaming"}
    OBVIOUS
  <2>1. stream'[s] = [stream[s] EXCEPT !.held = NoList,
                       !.stage = IF @ \in {"asked", "streaming", "saved"} THEN "cut" ELSE @]
    BY DEF MentorRestart
  <2>2. stream[s] \in StreamType
    BY DEF TurnsInv, MentorInv, MentorTypeOK, StreamType
  <2> QED BY <2>1, <2>2 DEF StreamType
<1>3. TurnsAnsweredOnce' /\ LatestKept'
  BY <1>1 DEF TurnsAnsweredOnce, LatestKept
<1>4. ListsApart' /\ ListsInOrder'
  BY <1>1 DEF ListsApart, ListsInOrder
<1>5. SeenIsHeld'
  BY <1>2 DEF SeenIsHeld, Answering
<1> QED BY <1>3, <1>4, <1>5 DEF TurnsInv
LEMMA TurnsStep == TurnsInv /\ [MentorNext]_mentorVars => TurnsInv'
<1> SUFFICES ASSUME TurnsInv, [MentorNext]_mentorVars PROVE TurnsInv'
  OBVIOUS
<1>0. MentorInv'
  BY MentorStep DEF TurnsInv
<1>1. ASSUME NEW s \in Streams, AskScenario(s) PROVE TurnsInv'
  BY <1>0, <1>1, MovesTurns DEF AskScenario, Stages, At
<1>2. ASSUME NEW s \in Streams, NEW found \in BOOLEAN, AskLesson(s, found) \/ AskDocuments(s, found)
      PROVE  TurnsInv'
  <2>1. PICK stage \in {"asked", "error"} : Moves(s, stage)
    BY <1>2 DEF AskLesson, AskDocuments
  <2>2. UNCHANGED <<lists, cache, prompt, seen, answered>> /\ At(s, "new") /\ stage \in Stages
    BY <1>2 DEF AskLesson, AskDocuments, Stages
  <2> QED BY <1>0, <2>1, <2>2, MovesTurns DEF At
<1>3. ASSUME NEW s \in Streams, Prompt(s) PROVE TurnsInv'
  BY <1>0, <1>3, MovesTurns DEF Prompt, Stages, At
<1>4. ASSUME NEW s \in Streams, Result(s) PROVE TurnsInv'
  BY <1>0, <1>4, MovesTurns DEF Result, Stages, At
<1>5. ASSUME NEW s \in Streams, Fail(s) PROVE TurnsInv'
  BY <1>0, <1>5, MovesTurns DEF Fail, Stages, At
<1>6. ASSUME NEW s \in Streams, Disconnect(s) PROVE TurnsInv'
  BY <1>0, <1>6, MovesTurns DEF Disconnect, Stages, At
<1>7. CASE UNCHANGED mentorVars
  BY <1>0, <1>7 DEF mentorVars, TurnsInv, TurnsAnsweredOnce, ListsApart, ListsInOrder, LatestKept, SeenIsHeld,
     InUse, Answering
<1> QED BY <1>0, <1>1, <1>2, <1>3, <1>4, <1>5, <1>6, <1>7, AskTurns, CompleteTurns, RestartTurns DEF MentorNext

LEMMA TurnsInit == MentorInit => TurnsInv
<1> SUFFICES ASSUME MentorInit PROVE TurnsInv
  OBVIOUS
<1>1. MentorInv /\ lists = <<>> /\ \A c \in Conversations : cache[c] = NoList /\ answered[c] = <<>>
  BY MentorInitInv DEF MentorInit
<1>2. \A s \in Streams : stream[s].stage = "new"
  BY DEF MentorInit
<1> QED BY <1>1, <1>2 DEF TurnsInv, TurnsAnsweredOnce, ListsApart, ListsInOrder, LatestKept, SeenIsHeld, Answering

\* The position of a turn is the one place it was answered at.
LEMMA TurnPosition ==
  ASSUME TurnsInv, NEW c \in Conversations, NEW p \in 1..Len(answered[c])
  PROVE  Position(c, answered[c][p]) = p
<1>1. \A q \in 1..Len(answered[c]) : answered[c][q] = answered[c][p] => q = p
  BY DEF TurnsInv, TurnsAnsweredOnce
<1> QED BY <1>1 DEF Position

\* Turns in order stand in the order of their positions.
LEMMA PositionsInOrder ==
  ASSUME TurnsInv, NEW c \in Conversations, NEW turns \in Seq(Streams), InOrder(turns, answered[c]),
         NEW i \in 1..Len(turns), NEW j \in 1..Len(turns), i < j
  PROVE  Position(c, turns[i]) < Position(c, turns[j])
<1>1. PICK p, q \in 1..Len(answered[c]) : p < q /\ answered[c][p] = turns[i] /\ answered[c][q] = turns[j]
  BY DEF InOrder
<1> QED BY <1>1, TurnPosition

LEMMA TurnsImply == TurnsInv => LatestTurnsInOrder
<1> SUFFICES ASSUME TurnsInv, NEW c \in Conversations
             PROVE  LET turns == Conversation(c) IN
                    /\ Len(turns) <= HistoryMax
                    /\ \A i \in 1..Len(turns) : turns[i] \in ToSet(answered[c])
                    /\ \A i, j \in 1..Len(turns) : i < j => Position(c, turns[i]) < Position(c, turns[j])
                    /\ answered[c] # <<>> => turns # <<>> /\ Last(turns) = Last(answered[c])
  BY DEF LatestTurnsInOrder
<1>1. CASE cache[c] = NoList
  BY <1>1, MentorAssumption DEF TurnsInv, LatestKept, Conversation
<1>2. CASE cache[c] # NoList
  <2>1. Conversation(c) = lists[cache[c]] /\ Conversation(c) \in Seq(Streams)
    BY <1>2, ListsTyped DEF TurnsInv, Conversation
  <2>2. InOrder(Conversation(c), answered[c])
    BY <1>2, <2>1, InUseExists DEF TurnsInv, ListsInOrder
  <2>3. \A i \in 1..Len(Conversation(c)) : Conversation(c)[i] \in ToSet(answered[c])
    BY <2>2 DEF InOrder, ToSet
  <2>4. /\ Len(Conversation(c)) <= HistoryMax
        /\ answered[c] # <<>> => Conversation(c) # <<>> /\ Last(Conversation(c)) = Last(answered[c])
    BY <1>2, <2>1 DEF TurnsInv, LatestKept
  <2> QED BY <2>1, <2>2, <2>3, <2>4, PositionsInOrder
<1> QED BY <1>1, <1>2

\* A stream whose turn is saved by a step has completed in it.
LEMMA OnlyCompleteSaves ==
  ASSUME MentorInv, [MentorNext]_mentorVars, NEW s \in Streams, At(s, "streaming"), stream'[s].stage = "saved"
  PROVE  Complete(s)
<1>1. \A r \in Streams : stream[r] \in StreamType
  BY DEF MentorInv, MentorTypeOK, StreamType
<1>2. ASSUME NEW r \in Streams, NEW stage \in Stages, Moves(r, stage), stage # "saved" PROVE FALSE
  BY <1>1, <1>2 DEF Moves, At, StreamType, MentorInv, MentorTypeOK
<1>3. ASSUME NEW r \in Streams, NEW c \in Conversations, Ask(r, c) PROVE FALSE
  <2>1. CASE cache[c] # NoList
    BY <1>3, <2>1 DEF Ask, At, MentorInv, MentorTypeOK
  <2>2. CASE cache[c] = NoList
    BY <1>3, <2>2 DEF Ask, At, MentorInv, MentorTypeOK
  <2> QED BY <2>1, <2>2
<1>4. ASSUME NEW r \in Streams, Complete(r) PROVE r = s
  BY <1>4 DEF Complete, Moves, At, MentorInv, MentorTypeOK
<1>5. ~MentorRestart
  <2> SUFFICES ASSUME MentorRestart PROVE FALSE
    OBVIOUS
  <2>1. stream'[s] = [stream[s] EXCEPT !.held = NoList,
                       !.stage = IF @ \in {"asked", "streaming", "saved"} THEN "cut" ELSE @]
    BY DEF MentorRestart
  <2> QED BY <1>1, <2>1 DEF At, StreamType
<1>6. ~UNCHANGED mentorVars
  BY DEF mentorVars, At
<1>7. ASSUME NEW r \in Streams, NEW found \in BOOLEAN,
             AskScenario(r) \/ AskLesson(r, found) \/ AskDocuments(r, found) \/ Prompt(r) \/ Result(r) \/ Fail(r)
             \/ Disconnect(r)
      PROVE  FALSE
  <2>1. PICK stage \in {"asked", "error", "streaming", "result", "cut"} : Moves(r, stage)
    BY <1>7 DEF AskScenario, AskLesson, AskDocuments, Prompt, Result, Fail, Disconnect
  <2> QED BY <1>2, <2>1 DEF Stages
<1> QED BY <1>3, <1>4, <1>5, <1>6, <1>7 DEF MentorNext

\* And one whose generator starts has built its prompt.
LEMMA OnlyPromptStarts ==
  ASSUME MentorInv, [MentorNext]_mentorVars, NEW s \in Streams, At(s, "asked"), stream'[s].stage = "streaming"
  PROVE  Prompt(s)
<1>1. \A r \in Streams : stream[r] \in StreamType
  BY DEF MentorInv, MentorTypeOK, StreamType
<1>2. ASSUME NEW r \in Streams, NEW stage \in Stages, Moves(r, stage), stage # "streaming" PROVE FALSE
  BY <1>1, <1>2 DEF Moves, At, StreamType, MentorInv, MentorTypeOK
<1>3. ASSUME NEW r \in Streams, NEW c \in Conversations, Ask(r, c) PROVE FALSE
  <2>1. CASE cache[c] # NoList
    BY <1>3, <2>1 DEF Ask, At, MentorInv, MentorTypeOK
  <2>2. CASE cache[c] = NoList
    BY <1>3, <2>2 DEF Ask, At, MentorInv, MentorTypeOK
  <2> QED BY <2>1, <2>2
<1>4. ASSUME NEW r \in Streams, Prompt(r) PROVE r = s
  BY <1>4 DEF Prompt, Moves, At, MentorInv, MentorTypeOK
<1>5. ~MentorRestart
  <2> SUFFICES ASSUME MentorRestart PROVE FALSE
    OBVIOUS
  <2>1. stream'[s] = [stream[s] EXCEPT !.held = NoList,
                       !.stage = IF @ \in {"asked", "streaming", "saved"} THEN "cut" ELSE @]
    BY DEF MentorRestart
  <2> QED BY <1>1, <2>1 DEF At, StreamType
<1>6. ~UNCHANGED mentorVars
  BY DEF mentorVars, At
<1>7. ASSUME NEW r \in Streams, NEW found \in BOOLEAN,
             AskScenario(r) \/ AskLesson(r, found) \/ AskDocuments(r, found) \/ Complete(r) \/ Result(r) \/ Fail(r)
             \/ Disconnect(r)
      PROVE  FALSE
  <2>1. PICK stage \in {"asked", "error", "saved", "result", "cut"} : Moves(r, stage)
    BY <1>7 DEF AskScenario, AskLesson, AskDocuments, Complete, Result, Fail, Disconnect
  <2> QED BY <1>2, <2>1 DEF Stages
<1> QED BY <1>3, <1>4, <1>5, <1>6, <1>7 DEF MentorNext

\* What was seen is still in the conversation once the turn is in it.
LEMMA SavedKeepsSeen ==
  ASSUME TurnsInv, MentorInv', NEW s \in Streams, Complete(s)
  PROVE  LET turns == Conversation(stream[s].kind)' IN
         ToSet(seen[s]) \subseteq ToSet(turns) \/ Len(turns) = HistoryMax
<1>1. PICK c \in Conversations, h \in Nat, n \in Nat : c = stream[s].kind /\ h = stream[s].held /\ n = Len(lists)
  <2>1. stream[s].kind \in Conversations /\ stream[s].held \in Nat /\ Len(lists) \in Nat
    BY DEF Complete, TurnsInv, MentorInv, MentorTypeOK
  <2> QED BY <2>1
<1> DEFINE turns == Append(lists[h], s)
           ending == Ending(turns, HistoryMax)
<1>2. /\ stream[s].stage = "streaming" /\ lists' = Append([lists EXCEPT ![h] = turns], ending)
      /\ cache' = [cache EXCEPT ![c] = Len(lists')] /\ stream' = [stream EXCEPT ![s].stage = "saved"]
      /\ answered' = [answered EXCEPT ![c] = Append(answered[c], s)]
  BY <1>1 DEF Complete, At, Moves
<1>3. /\ lists \in Seq(Seq(Streams)) /\ cache \in [Conversations -> 0..Len(lists)] /\ HistoryMax \in Nat
      /\ stream \in [Streams -> StreamType] /\ answered \in [Conversations -> Seq(Streams)]
  BY MentorAssumption DEF TurnsInv, MentorInv, MentorTypeOK, StreamType
<1>4. Answering(s, c) /\ h \in 1..n /\ lists[h] \in Seq(Streams) /\ InOrder(lists[h], answered[c])
  <2>1. Answering(s, c)
    BY <1>1, <1>2 DEF Answering
  <2> QED BY <1>1, <1>3, <2>1, InUseExists DEF TurnsInv, ListsInOrder
<1>5. turns \in Seq(Streams) /\ InOrder(turns, answered'[c]) /\ ToSet(lists[h]) \subseteq ToSet(turns)
      /\ answered'[c] \in Seq(Streams)
  <2>1. turns \in Seq(Streams) /\ Len(turns) = Len(lists[h]) + 1 /\ \A i \in 1..Len(lists[h]) : turns[i] = lists[h][i]
    BY <1>4
  <2>2. ToSet(lists[h]) \subseteq ToSet(turns)
    BY <1>4, <2>1, LongerHasMore
  <2>3. answered'[c] = Append(answered[c], s) /\ answered[c] \in Seq(Streams)
    BY <1>2, <1>3
  <2> QED BY <1>4, <2>1, <2>2, <2>3, OrderGrows
<1>6. ToSet(seen[s]) \subseteq ToSet(turns)
  BY <1>1, <1>4, <1>5 DEF TurnsInv, SeenIsHeld
<1>7. Len(ending) <= HistoryMax /\ (Len(ending) < HistoryMax => ending = turns) /\ ending \in Seq(Streams)
  BY <1>3, <1>5, EndingInOrder, EndingType
<1> HIDE DEF turns, ending
<1>8. Conversation(stream[s].kind)' = ending
  <2>1. [lists EXCEPT ![h] = turns] \in Seq(Seq(Streams)) /\ Len([lists EXCEPT ![h] = turns]) = n
    BY <1>1, <1>3, <1>4, <1>5
  <2>2. Len(lists') = n + 1 /\ lists'[n + 1] = ending
    BY <1>1, <1>2, <1>7, <2>1
  <2>3. cache'[c] = n + 1 /\ n + 1 # NoList /\ stream'[s].kind = c
    BY <1>1, <1>2, <1>3, <2>2 DEF NoList, StreamType
  <2> QED BY <2>2, <2>3 DEF Conversation
<1>9. Len(ending) \in Nat
  BY <1>7
<1> QED BY <1>3, <1>6, <1>7, <1>8, <1>9

\* The prompt of the mentor ends with a turn no older than what was seen.
LEMMA PromptIsRecent ==
  ASSUME TurnsInv, NEW s \in Streams, Prompt(s), stream[s].kind = "mentor", Recent > 0, seen[s] # <<>>
  PROVE  /\ prompt'[s] # <<>>
         /\ Position("mentor", Last(seen[s])) <= Position("mentor", Last(prompt'[s]))
<1> DEFINE held == lists[stream[s].held]
           order == answered["mentor"]
<1>1. /\ Answering(s, "mentor") /\ "mentor" \in Conversations
      /\ prompt \in [Streams -> Seq(Streams)] /\ Recent \in Nat /\ seen[s] \in Seq(Streams) /\ order \in Seq(Streams)
  BY MentorAssumption DEF Prompt, At, Answering, Conversations, TurnsInv, MentorInv, MentorTypeOK
<1>2. held \in Seq(Streams) /\ InOrder(held, order) /\ ToSet(seen[s]) \subseteq ToSet(held)
  <2>1. stream[s].held \in 1..Len(lists) /\ InUse(stream[s].held, "mentor")
    BY <1>1, InUseExists DEF TurnsInv
  <2>2. held \in Seq(Streams)
    BY <2>1 DEF TurnsInv, MentorInv, MentorTypeOK
  <2>3. InOrder(held, order)
    BY <1>1, <2>1 DEF TurnsInv, ListsInOrder
  <2>4. ToSet(seen[s]) \subseteq ToSet(held)
    BY <1>1 DEF TurnsInv, SeenIsHeld
  <2> QED BY <2>2, <2>3, <2>4
<1>3. prompt'[s] = Ending(held, Recent)
  BY <1>1 DEF Prompt, Carried
<1> HIDE DEF held
<1>4. Len(seen[s]) \in 1..Len(seen[s])
  BY <1>1
<1>5. PICK i \in 1..Len(held) : held[i] = Last(seen[s])
  <2>1. Last(seen[s]) \in ToSet(seen[s])
    BY <1>1, <1>4 DEF ToSet, Last
  <2>2. Last(seen[s]) \in ToSet(held)
    BY <1>2, <2>1
  <2> QED BY <1>2, <2>2 DEF ToSet
<1>6. held # <<>> /\ Len(held) \in 1..Len(held)
  BY <1>2, <1>5
<1>7. prompt'[s] # <<>> /\ Last(prompt'[s]) = held[Len(held)]
  BY <1>1, <1>2, <1>3, <1>6, EndingInOrder DEF Last
<1>8. Position("mentor", held[i]) <= Position("mentor", held[Len(held)])
  <2>1. PICK p \in 1..Len(order) : order[p] = held[Len(held)]
    BY <1>2, <1>6 DEF InOrder
  <2>2. Position("mentor", held[Len(held)]) = p /\ p <= p
    BY <1>1, <2>1, TurnPosition
  <2>3. CASE i = Len(held)
    BY <2>2, <2>3
  <2>4. CASE i # Len(held)
    <3>1. i < Len(held)
      BY <1>5, <2>4
    <3>2. PICK p1, q1 \in 1..Len(order) : p1 < q1 /\ order[p1] = held[i] /\ order[q1] = held[Len(held)]
      BY <1>2, <1>6, <3>1 DEF InOrder
    <3>3. Position("mentor", held[i]) = p1 /\ Position("mentor", held[Len(held)]) = q1
      BY <1>1, <3>2, TurnPosition
    <3> QED BY <3>2, <3>3
  <2> QED BY <2>3, <2>4
<1> QED BY <1>5, <1>7, <1>8

(* For any number of overlapping streams, whatever the length of a         *)
(* conversation: it ends with the turn completed last, in the order the    *)
(* turns were completed, each once, and no longer than its limit           *)
(* (chat_stream, stream_module_chat).                                      *)
THEOREM MentorLatestTurns == MentorSpec => []LatestTurnsInOrder
BY TurnsInit, TurnsStep, TurnsImply, PTL DEF MentorSpec

(* For any number of overlapping streams, what was in a conversation when  *)
(* a question was asked is still in it, or was pushed out by the limit,    *)
(* once the answer has been added, and the prompt of the mentor ends with  *)
(* a turn no older than the last one at the time of the question.          *)
THEOREM MentorKeepsContext == MentorSpec => AnswersKeepContext
<1> DEFINE Kept ==
  \A s \in Streams :
       /\ At(s, "streaming") /\ stream'[s].stage = "saved" =>
            LET turns == Conversation(stream[s].kind)' IN
            ToSet(seen[s]) \subseteq ToSet(turns) \/ Len(turns) = HistoryMax
       /\ At(s, "asked") /\ stream'[s].stage = "streaming"
            /\ stream[s].kind = "mentor" /\ Recent > 0 /\ seen[s] # <<>> =>
            /\ prompt'[s] # <<>>
            /\ Position("mentor", Last(seen[s])) <= Position("mentor", Last(prompt'[s]))
<1>1. TurnsInv /\ TurnsInv' /\ [MentorNext]_mentorVars => [Kept]_mentorVars
  <2> SUFFICES ASSUME TurnsInv, TurnsInv', [MentorNext]_mentorVars, NEW s \in Streams
               PROVE  /\ At(s, "streaming") /\ stream'[s].stage = "saved" =>
                          LET turns == Conversation(stream[s].kind)' IN
                          ToSet(seen[s]) \subseteq ToSet(turns) \/ Len(turns) = HistoryMax
                      /\ At(s, "asked") /\ stream'[s].stage = "streaming"
                          /\ stream[s].kind = "mentor" /\ Recent > 0 /\ seen[s] # <<>> =>
                          /\ prompt'[s] # <<>>
                          /\ Position("mentor", Last(seen[s])) <= Position("mentor", Last(prompt'[s]))
    BY DEF Kept
  <2>1. MentorInv /\ MentorInv'
    BY DEF TurnsInv
  <2>2. ASSUME At(s, "streaming"), stream'[s].stage = "saved"
        PROVE  LET turns == Conversation(stream[s].kind)' IN
               ToSet(seen[s]) \subseteq ToSet(turns) \/ Len(turns) = HistoryMax
    <3>1. Complete(s)
      BY <2>1, <2>2, OnlyCompleteSaves
    <3> QED BY <2>1, <3>1, SavedKeepsSeen
  <2>3. ASSUME At(s, "asked"), stream'[s].stage = "streaming", stream[s].kind = "mentor", Recent > 0, seen[s] # <<>>
        PROVE  /\ prompt'[s] # <<>>
               /\ Position("mentor", Last(seen[s])) <= Position("mentor", Last(prompt'[s]))
    <3>1. Prompt(s)
      BY <2>1, <2>3, OnlyPromptStarts
    <3> QED BY <2>3, <3>1, PromptIsRecent
  <2> QED BY <2>2, <2>3
<1>2. MentorSpec => []TurnsInv
  BY TurnsInit, TurnsStep, PTL DEF MentorSpec
<1> QED BY <1>1, <1>2, PTL DEF MentorSpec, AnswersKeepContext, Kept

=============================================================================
