------------------------------ MODULE MCServices ------------------------------
(***************************************************************************)
(* The components that share no state with the others, each in its turn:   *)
(* a behaviour is a behaviour of the one component that part names.        *)
(***************************************************************************)
EXTENDS Learning, MentorChat, QuizQuestions, AnalysisRuns, Caches, Fallbacks, AdminSync, EntityLabels,
        Reupload, ProductList, ChatSearch, Knowledge, TLC

\* Kim types her name with a blank before it, which hides her rows from her own
\* requests; another new hire's name is a pattern that matches it too.
TypedNames == {" kim", "%kim"}
People == [n \in TypedNames |-> IF n = " kim" THEN "kim" ELSE n]
Patterns == {"%kim"} \X TypedNames

\* The labels that priority and status know.
FieldLabels == [priority |-> {"low", "high"}, status |-> {"open"}]

VARIABLE part
vars == <<part, learningVars, mentorVars, quizVars, analysisVars, cachesVars, fallbackVars,
          adminVars, labelVars, reuploadVars, listVars, searchVars, knowledgeVars>>

Parts == {"learning", "mentor", "quiz", "analysis", "caches", "fallbacks", "admin", "labels",
          "reupload", "products", "search", "knowledge"}
Active(p) == part = p /\ UNCHANGED part

\* The components whose turn it is not stay as they began.
TypeOK ==
  CASE part = "learning" -> LearningTypeOK
    [] part = "mentor"   -> MentorTypeOK
    [] part = "quiz"     -> QuizTypeOK
    [] part = "analysis" -> AnalysisTypeOK
    [] part = "caches"   -> CachesTypeOK
    [] part = "fallbacks"-> FallbacksTypeOK
    [] part = "admin"    -> AdminTypeOK
    [] part = "labels"   -> LabelsTypeOK
    [] part = "reupload" -> ReuploadTypeOK
    [] part = "products" -> ListTypeOK
    [] part = "search"   -> SearchTypeOK
    [] part = "knowledge"-> KnowledgeTypeOK

\* What a component may begin with is left open only when it has its turn.
Init ==
  /\ part \in Parts
  /\ part # "labels" => existing = [t \in Types |-> Ids] /\ kept = BatchTypes
  /\ part # "reupload" =>
       updatedAt = [d \in Docs |-> 0] /\ blank = {} /\ limit = 0 /\ wipeFirst = FALSE /\ createIfMissing = FALSE
  /\ part # "products" => rows = [p \in Products |-> 0]
  /\ LearningInit /\ MentorInit /\ QuizInit /\ AnalysisInit /\ CachesInit /\ FallbacksInit /\ AdminInit
  /\ LabelsInit /\ ReuploadInit /\ ListInit /\ SearchInit /\ KnowledgeInit
  /\ blank \subseteq {CHOOSE d \in Docs : \A e \in Docs : e <= d}
  /\ ~(wipeFirst /\ createIfMissing)

LearningPart ==
  /\ Active("learning") /\ LearningNext
  /\ UNCHANGED <<mentorVars, quizVars, analysisVars, cachesVars, fallbackVars, adminVars,
                 labelVars, reuploadVars, listVars, searchVars, knowledgeVars>>

MentorPart ==
  /\ Active("mentor") /\ MentorNext
  /\ UNCHANGED <<learningVars, quizVars, analysisVars, cachesVars, fallbackVars, adminVars,
                 labelVars, reuploadVars, listVars, searchVars, knowledgeVars>>

QuizPart ==
  /\ Active("quiz") /\ QuizNext
  /\ UNCHANGED <<learningVars, mentorVars, analysisVars, cachesVars, fallbackVars, adminVars,
                 labelVars, reuploadVars, listVars, searchVars, knowledgeVars>>

AnalysisPart ==
  /\ Active("analysis") /\ AnalysisNext
  /\ UNCHANGED <<learningVars, mentorVars, quizVars, cachesVars, fallbackVars, adminVars,
                 labelVars, reuploadVars, listVars, searchVars, knowledgeVars>>

CachesPart ==
  /\ Active("caches") /\ CachesNext
  /\ UNCHANGED <<learningVars, mentorVars, quizVars, analysisVars, fallbackVars, adminVars,
                 labelVars, reuploadVars, listVars, searchVars, knowledgeVars>>

FallbacksPart ==
  /\ Active("fallbacks") /\ FallbacksNext
  /\ UNCHANGED <<learningVars, mentorVars, quizVars, analysisVars, cachesVars, adminVars,
                 labelVars, reuploadVars, listVars, searchVars, knowledgeVars>>

AdminPart ==
  /\ Active("admin") /\ AdminNext
  /\ UNCHANGED <<learningVars, mentorVars, quizVars, analysisVars, cachesVars, fallbackVars,
                 labelVars, reuploadVars, listVars, searchVars, knowledgeVars>>

LabelsPart ==
  /\ Active("labels") /\ LabelsNext
  /\ UNCHANGED <<learningVars, mentorVars, quizVars, analysisVars, cachesVars, fallbackVars,
                 adminVars, reuploadVars, listVars, searchVars, knowledgeVars>>

ReuploadPart ==
  /\ Active("reupload") /\ ReuploadNext
  /\ UNCHANGED <<learningVars, mentorVars, quizVars, analysisVars, cachesVars, fallbackVars,
                 adminVars, labelVars, listVars, searchVars, knowledgeVars>>

ProductsPart ==
  /\ Active("products") /\ ListNext
  /\ UNCHANGED <<learningVars, mentorVars, quizVars, analysisVars, cachesVars, fallbackVars,
                 adminVars, labelVars, reuploadVars, searchVars, knowledgeVars>>

SearchPart ==
  /\ Active("search") /\ SearchNext
  /\ UNCHANGED <<learningVars, mentorVars, quizVars, analysisVars, cachesVars, fallbackVars,
                 adminVars, labelVars, reuploadVars, listVars, knowledgeVars>>

KnowledgePart ==
  /\ Active("knowledge") /\ KnowledgeNext
  /\ UNCHANGED <<learningVars, mentorVars, quizVars, analysisVars, cachesVars, fallbackVars,
                 adminVars, labelVars, reuploadVars, listVars, searchVars>>

Next ==
  \/ LearningPart \/ MentorPart \/ QuizPart \/ AnalysisPart \/ CachesPart \/ FallbacksPart
  \/ AdminPart \/ LabelsPart \/ ReuploadPart \/ ProductsPart \/ SearchPart \/ KnowledgePart

Spec == Init /\ [][Next]_vars

=============================================================================
