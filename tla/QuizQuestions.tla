---------------------------- MODULE QuizQuestions ----------------------------
(***************************************************************************)
(* The quiz of a module that has no questions yet: get_questions of        *)
(* app/api/routes/curriculum.py has them written by a language model, and  *)
(* submit_quiz of app/services/curriculum_repository.py grades against     *)
(* all that were saved.  The model writes while the event loop is blocked; *)
(* only the search that supplements thin contents is awaited.              *)
(***************************************************************************)
EXTENDS Naturals, FiniteSets

CONSTANT Learners

VARIABLES
  savedSets,  \* the sets of three questions in quiz_questions, by their author
  learner,    \* per learner: [stage, sheet]
  unread,     \* history: a request could not read the questions
  overlap     \* history: a request began while another awaited its search

quizVars == <<savedSets, learner, unread, overlap>>

QuizStages == {"idle", "searching", "answering", "none", "graded", "refused"}

QuizTypeOK ==
  /\ savedSets \subseteq Learners
  /\ learner \in [Learners -> [stage : QuizStages, sheet : SUBSET Learners, score : 0..100]]
  /\ unread \in BOOLEAN /\ overlap \in BOOLEAN

QuizInit ==
  /\ savedSets = {}
  /\ learner = [p \in Learners |-> [stage |-> "idle", sheet |-> {}, score |-> 0]]
  /\ unread = FALSE /\ overlap = FALSE

Becomes(p, stage, sheet) == [learner EXCEPT ![p] = [stage |-> stage, sheet |-> sheet, score |-> @.score]]

(* The model writes three questions and they are saved, or the save fails  *)
(* and they are handed out all the same, or there is nothing to write from *)
(* (too little content, no JSON) and the learner gets no question.         *)
Written(p, outcome) ==
  CASE outcome = "saved"   -> savedSets' = savedSets \union {p} /\ learner' = Becomes(p, "answering", {p})
    [] outcome = "unsaved" -> savedSets' = savedSets /\ learner' = Becomes(p, "answering", {p})
    [] outcome = "nothing" -> savedSets' = savedSets /\ learner' = Becomes(p, "none", {})
Outcomes == {"saved", "unsaved", "nothing"}

Searching == {p \in Learners : learner[p].stage = "searching"}

GetQuestions_Always(p, readFails, thin, outcome) ==
  /\ learner[p].stage = "idle"
  /\ unread' = (unread \/ readFails)
  /\ overlap' = (overlap \/ Searching # {})
  /\ IF thin THEN learner' = Becomes(p, "searching", {}) /\ UNCHANGED savedSets
     ELSE Written(p, outcome)

(* A module with questions gives all of them; otherwise, and also if they  *)
(* could not be read, they are generated, after a search if the contents   *)
(* of the module are thin.                                                 *)
GetQuestions(p, readFails, thin, outcome) ==
  /\ learner[p].stage = "idle"
  /\ unread' = (unread \/ readFails)
  /\ overlap' = (overlap \/ Searching # {})
  /\ IF savedSets # {} /\ ~readFails THEN learner' = Becomes(p, "answering", savedSets) /\ UNCHANGED savedSets
     ELSE IF thin THEN learner' = Becomes(p, "searching", {}) /\ UNCHANGED savedSets
     ELSE Written(p, outcome)

(* The search has answered or failed; nobody looks for questions again.    *)
Supplemented(p, outcome) ==
  /\ learner[p].stage = "searching"
  /\ Written(p, outcome)
  /\ UNCHANGED <<unread, overlap>>

(* All answers are right.  Those to unknown questions are passed over, and *)
(* the score is int(correct / total * 100) over all saved questions; with  *)
(* none saved the submission is refused.                                   *)
Grade(p) ==
  /\ learner[p].stage = "answering"
  /\ learner' =
       IF savedSets = {} THEN Becomes(p, "refused", learner[p].sheet)
       ELSE [learner EXCEPT ![p] = [stage |-> "graded", sheet |-> @.sheet,
               score |-> (Cardinality(@.sheet \cap savedSets) * 100) \div Cardinality(savedSets)]]
  /\ UNCHANGED <<savedSets, unread, overlap>>

QuizNext ==
  \E p \in Learners :
    \/ \E readFails, thin \in BOOLEAN, outcome \in Outcomes : GetQuestions(p, readFails, thin, outcome)
    \/ \E outcome \in Outcomes : Supplemented(p, outcome)
    \/ Grade(p)

QuizSpec == QuizInit /\ [][QuizNext]_quizVars

-----------------------------------------------------------------------------
(* A learner who has every question of the sheet right gets full marks,    *)
(* unless requests overlapped in the search or one could not read the      *)
(* questions (a second set is then saved, and the sheet has half of them), *)
(* or the sheet itself was never saved.                                    *)
FullMarks ==
  \A p \in Learners :
    learner[p].stage = "graded" /\ learner[p].sheet \subseteq savedSets /\ ~unread /\ ~overlap
      => learner[p].score = 100

=============================================================================
