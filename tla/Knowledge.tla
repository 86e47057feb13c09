------------------------------- MODULE Knowledge -------------------------------
(***************************************************************************)
(* The library of knowledge articles: the knowledge routes of              *)
(* app/api/routes/onboarding.py over the table of onboarding_repository.py.*)
(* Several editors work at once, over several processes; a call of the     *)
(* database may fail, and one that failed may have been executed.          *)
(***************************************************************************)
EXTENDS Naturals, FiniteSets

CONSTANTS
  Editors,    \* requests, each made once; its name is the value it writes
  Articles    \* ids, given out by the database

VARIABLES
  article,    \* per id: the writer of each field, NoArticle or Deleted
  edit,       \* per request: [op, id, sends, stage, answer]
  shown       \* ids of the articles that the editors have been shown

knowledgeVars == <<article, edit, shown>>

Columns == {"title", "summary"}    \* of title, author, category, raw_content, structured_summary
NoArticle == [c \in {} |-> {}]
Deleted == [c \in {"deleted"} |-> {}]
Exists(i) == DOMAIN article[i] = Columns
HttpAnswers == {"none", "ok", "404", "500"}
NoEdit == [op |-> "none", id |-> {}, sends |-> {}, stage |-> "new", answer |-> "none"]

KnowledgeTypeOK ==
  /\ \A i \in Articles : Exists(i) => article[i] \in [Columns -> Editors]
  /\ \A i \in Articles : ~Exists(i) => article[i] \in {NoArticle, Deleted}
  /\ \A e \in Editors :
       /\ edit[e].op \in {"none", "create", "update", "delete"}
       /\ edit[e].id \subseteq Articles /\ edit[e].sends \subseteq Columns
       /\ edit[e].stage \in {"new", "sent", "ended"} /\ edit[e].answer \in HttpAnswers
  /\ shown \subseteq Articles

KnowledgeInit ==
  /\ article = [i \in Articles |-> NoArticle]
  /\ edit = [e \in Editors |-> NoEdit]
  /\ shown = {}

-----------------------------------------------------------------------------
Send(e, op, id, sends) ==
  /\ edit[e].stage = "new"
  /\ edit' = [edit EXCEPT ![e] =
         [op |-> op, id |-> id, sends |-> sends, stage |-> "sent", answer |-> "none"]]
  /\ UNCHANGED <<article, shown>>

\* An article is edited or deleted from the library that lists it.
SendCreate(e) == Send(e, "create", {}, Columns)
SendUpdate(e, i, sends) == i \in shown /\ Send(e, "update", {i}, sends)
SendDelete(e, i) == i \in shown /\ Send(e, "delete", {i}, {})

Sent(e, op) == edit[e].stage = "sent" /\ edit[e].op = op
Answered(e, answer) == edit' = [edit EXCEPT ![e] = [@ EXCEPT !.stage = "ended", !.answer = answer]]

(* The call is executed (done), and its answer arrives or is lost.         *)
Create(e, i, answer) ==
  /\ Sent(e, "create")
  /\ article[i] = NoArticle
  /\ article' = [article EXCEPT ![i] = [c \in Columns |-> e]]
  /\ answer \in {"ok", "500"} /\ Answered(e, answer)
  /\ shown' = IF answer = "ok" THEN shown \union {i} ELSE shown

RowAfter_Upserted(i, e) ==
  [c \in Columns |-> IF Exists(i) /\ c \notin edit[e].sends THEN article[i][c] ELSE e]
(* The statement sets the fields that were sent, where the id is found.    *)
RowAfter(i, e) ==
  IF Exists(i) THEN [c \in Columns |-> IF c \in edit[e].sends THEN e ELSE article[i][c]]
  ELSE article[i]

Update(e, i, answer) ==
  /\ Sent(e, "update") /\ i \in edit[e].id /\ edit[e].sends # {}
  /\ article' = [article EXCEPT ![i] = RowAfter(i, e)]
  /\ answer \in {IF Exists(i) THEN "ok" ELSE "404", "500"} /\ Answered(e, answer)
  /\ UNCHANGED shown

(* Without a field the article is only read, and an error of that read is  *)
(* answered like an article that is not there.                             *)
UpdateNothing(e, i, answer) ==
  /\ Sent(e, "update") /\ i \in edit[e].id /\ edit[e].sends = {}
  /\ answer \in {IF Exists(i) THEN "ok" ELSE "404", "404"} /\ Answered(e, answer)
  /\ UNCHANGED <<article, shown>>

Delete(e, i, answer) ==
  /\ Sent(e, "delete") /\ i \in edit[e].id
  /\ article' = [article EXCEPT ![i] = Deleted]
  /\ answer \in {IF Exists(i) THEN "ok" ELSE "404", "500"} /\ Answered(e, answer)
  /\ UNCHANGED shown

(* The database is not reached.                                            *)
NotExecuted(e) ==
  /\ Sent(e, "create") \/ Sent(e, "delete") \/ (Sent(e, "update") /\ edit[e].sends # {})
  /\ Answered(e, "500")
  /\ UNCHANGED <<article, shown>>

(* GET /knowledge: the articles there are, or none if the read failed.     *)
Listed(failed) == IF failed THEN {} ELSE {i \in Articles : Exists(i)}

ListArticles(failed) ==
  /\ shown' = Listed(failed)
  /\ UNCHANGED <<article, edit>>

KnowledgeNext ==
  \/ \E e \in Editors :
       \/ SendCreate(e)
       \/ \E i \in Articles : SendDelete(e, i) \/ \E sends \in SUBSET Columns : SendUpdate(e, i, sends)
       \/ \E i \in Articles, answer \in HttpAnswers :
            Create(e, i, answer) \/ Update(e, i, answer) \/ UpdateNothing(e, i, answer) \/ Delete(e, i, answer)
       \/ NotExecuted(e)
  \/ \E failed \in BOOLEAN : ListArticles(failed)

KnowledgeSpec == KnowledgeInit /\ [][KnowledgeNext]_knowledgeVars

-----------------------------------------------------------------------------
(* However edits overlap and answers are lost, an editor who sent a field  *)
(* or a deletion and was told 404 was told so of an article that is gone   *)
(* for good (update_knowledge_article, delete_knowledge_article); an edit  *)
(* without a field may be told so of an article that is there.             *)
NotFoundIsGone ==
  \A e \in Editors :
    edit[e].answer = "404" /\ (edit[e].op = "delete" \/ edit[e].sends # {})
    => \A i \in edit[e].id : article[i] = Deleted

=============================================================================
