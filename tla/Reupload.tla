------------------------------- MODULE Reupload -------------------------------
(***************************************************************************)
(* The upload of the common documents into a Gemini store, batch by batch: *)
(* scripts/run_sequential_upload.py, the reupload function it calls        *)
(* (scripts/reupload_with_metadata.py) and the pages that                  *)
(* CommonDocumentsService reads from the database.  Meanwhile documents    *)
(* are edited, and the program may fail or be stopped and started again    *)
(* with the resume point that it printed.                                  *)
(*                                                                         *)
(* The store is the one named by --store-id.  With --create-if-missing the *)
(* first batch takes any error of the request for it to mean that there is *)
(* none, and uploads to a new store, whose name is only logged.            *)
(*                                                                         *)
(* A version of a document is its key <<updated_at, id>>, by which pages   *)
(* are ordered.  Left out: dry runs, the product filter, skip_count (0).   *)
(***************************************************************************)
EXTENDS Naturals, FiniteSets

CONSTANTS
  Docs,           \* ids: positive numbers, in their order
  PageSize,       \* documents of a page without a limit: batch_size, 100
  BatchLimit,     \* --limit: documents of a batch, 1000
  Batches,        \* --batches: 6
  BatchRetries,   \* --batch-retries: 3
  MaxWrites,      \* bound: statements that write documents
  MaxStores       \* bound: stores that are created

ASSUME ReuploadAssumption ==
  /\ Docs \subseteq Nat \ {0} /\ IsFiniteSet(Docs)
  /\ PageSize \in Nat \ {0} /\ BatchLimit \in Nat \ {0}
  /\ Batches \in Nat \ {0} /\ BatchRetries \in Nat \ {0} /\ MaxWrites \in Nat \ {0}
  /\ MaxStores \in Nat

VARIABLES
  writes,      \* the clock of the database: statements that wrote documents
  updatedAt,   \* the table: updated_at per document, 0 if there is none
  blank,       \* documents without contents in any language
  limit,       \* --limit, 0 if reupload runs without one
  wipeFirst,   \* --wipe-first
  createIfMissing, \* --create-if-missing
  named,       \* --store-id: 0, or one of the stores created before
  newStores,   \* how many stores were created: 1, 2, ...
  upload,      \* [stage, batch, attempt, cursor, last, produced, page, into]
  resume,      \* the resume point: resume_updated_at, resume_id
  stored,      \* versions in each store
  passedOver   \* history: versions read, but not sent because of the limit

options == <<limit, wipeFirst, createIfMissing>>
stores == <<named, newStores, stored>>
reuploadVars == <<writes, updatedAt, blank, options, upload, resume, stores, passedOver>>

Stores == 0..MaxStores

Keys == (0..MaxWrites) \X (Docs \union {0})
NoKey == <<0, 0>>
Precedes(k, l) == k[1] < l[1] \/ (k[1] = l[1] /\ k[2] < l[2])
FirstOf(n, keys) == {k \in keys : Cardinality({l \in keys : Precedes(l, k)}) < n}
Current == {<<updatedAt[d], d>> : d \in {e \in Docs : updatedAt[e] # 0}}
WithText(keys) == {k \in keys : k[2] \notin blank}

ReuploadTypeOK ==
  /\ writes \in 1..MaxWrites /\ updatedAt \in [Docs -> 0..writes] /\ blank \subseteq Docs
  /\ limit \in {0, BatchLimit} /\ wipeFirst \in BOOLEAN /\ createIfMissing \in BOOLEAN
  /\ newStores \in Stores /\ named \in 0..newStores /\ stored \in [Stores -> SUBSET Keys]
  /\ upload.stage \in {"batch", "fetch", "send", "ended"}
  /\ upload.batch \in 1..Batches /\ upload.attempt \in 1..BatchRetries /\ upload.into \in 0..newStores
  /\ {upload.cursor, upload.last, resume} \subseteq Keys
  /\ upload.produced \in Nat
  /\ upload.page \subseteq Keys /\ passedOver \subseteq Keys

Started == [stage |-> "batch", batch |-> 1, attempt |-> 1,
            cursor |-> NoKey, last |-> NoKey, produced |-> 0, page |-> {}, into |-> 0]

\* A program that has ended has left nothing but the resume point it printed.
Stopped == [Started EXCEPT !.stage = "ended"]

ReuploadInit ==
  /\ writes = 1 /\ updatedAt \in [Docs -> {0, 1}] /\ blank \in SUBSET Docs
  /\ limit \in {0, BatchLimit} /\ wipeFirst \in BOOLEAN /\ createIfMissing \in BOOLEAN
  /\ upload = Started /\ resume = NoKey
  /\ named = 0 /\ newStores = 0 /\ stored = [s \in Stores |-> {}] /\ passedOver = {}

-----------------------------------------------------------------------------
(* One statement writes documents: they get the same, new updated_at.      *)
EditDocuments(edited) ==
  /\ writes < MaxWrites /\ writes' = writes + 1
  /\ updatedAt' = [d \in Docs |-> IF d \in edited THEN writes' ELSE updatedAt[d]]
  /\ UNCHANGED <<blank, options, upload, resume, stores, passedOver>>

RemoveDocument(d) ==
  /\ updatedAt[d] # 0
  /\ updatedAt' = [updatedAt EXCEPT ![d] = 0]
  /\ UNCHANGED <<writes, blank, options, upload, resume, stores, passedOver>>

(* fetch_documents: the documents after the cursor, in order of their key; *)
(* a limit of the batch is the limit of its pages.                         *)
PageLimit == IF limit = 0 THEN PageSize ELSE limit
After_ByTime(cursor) == {k \in Current : cursor[1] < k[1]}
After(cursor) == {k \in Current : Precedes(cursor, k)}
FetchDocuments(cursor) == FirstOf(PageLimit, After(cursor))

(* run_batches: after a batch the next one starts behind the last cursor;  *)
(* a batch that read nothing ends the program.                             *)
BatchEnds ==
  IF upload.last = NoKey
  THEN /\ upload' = Stopped
       /\ UNCHANGED resume
  ELSE /\ resume' = upload.last
       /\ upload' = IF upload.batch < Batches
                    THEN [Started EXCEPT !.batch = upload.batch + 1]
                    ELSE Stopped

(* The batch is tried again from where it started, or the program ends.    *)
BatchRaises ==
  upload' = IF upload.attempt < BatchRetries
            THEN [Started EXCEPT !.batch = upload.batch, !.attempt = upload.attempt + 1]
            ELSE Stopped

(* The store is looked up, and emptied if that is asked for: only by the   *)
(* first attempt of a run that does not resume.  The first batch creates   *)
(* another store when it does not get an answer about the named one, if    *)
(* that is allowed; other batches fail (ensure_store_exists, reupload).    *)
Wipes == wipeFirst /\ upload.batch = 1 /\ upload.attempt = 1 /\ resume = NoKey
MayCreate == createIfMissing /\ upload.batch = 1 /\ newStores < MaxStores

StartBatch(found) ==
  /\ upload.stage = "batch"
  /\ found \/ MayCreate
  /\ newStores' = IF found THEN newStores ELSE newStores + 1
  /\ LET into == IF found THEN named ELSE newStores' IN
       /\ stored' = IF Wipes THEN [stored EXCEPT ![into] = {}] ELSE stored
       /\ upload' = [upload EXCEPT !.stage = "fetch", !.cursor = resume, !.into = into]
  /\ UNCHANGED <<writes, updatedAt, blank, options, named, resume, passedOver>>

(* No answer, no store, or part of it emptied; a store that was created by *)
(* then is not used.                                                       *)
StartFails(left, created) ==
  /\ upload.stage = "batch"
  /\ left \subseteq stored[named] /\ (~Wipes => left = stored[named])
  /\ created => MayCreate
  /\ newStores' = IF created THEN newStores + 1 ELSE newStores
  /\ stored' = IF created THEN stored ELSE [stored EXCEPT ![named] = left]
  /\ BatchRaises
  /\ UNCHANGED <<writes, updatedAt, blank, options, named, resume, passedOver>>

FetchPage(last) ==
  /\ upload.stage = "fetch"
  /\ LET page == FetchDocuments(upload.cursor) IN
     /\ last \in page /\ \A k \in page : ~Precedes(last, k)
     /\ upload' = [upload EXCEPT !.stage = "send", !.page = page, !.cursor = last, !.last = last]
  /\ UNCHANGED <<writes, updatedAt, blank, options, resume, stores, passedOver>>

NoPageLeft ==
  /\ upload.stage = "fetch" /\ FetchDocuments(upload.cursor) = {}
  /\ BatchEnds
  /\ UNCHANGED <<writes, updatedAt, blank, options, stores, passedOver>>

FetchPageFails ==
  /\ upload.stage = "fetch"
  /\ BatchRaises
  /\ UNCHANGED <<writes, updatedAt, blank, options, resume, stores, passedOver>>

(* Of a page, the documents with contents are sent until the limit.        *)
ToSend == LET texts == WithText(upload.page) IN
          IF limit = 0 THEN texts ELSE FirstOf(limit - upload.produced, texts)

Arrive(keys) == stored' = [stored EXCEPT ![upload.into] = @ \union keys]

(* All are sent, and with the limit reached before the end of the page the *)
(* batch ends.                                                             *)
SendPage ==
  /\ upload.stage = "send"
  /\ Arrive(ToSend)
  /\ IF ToSend = WithText(upload.page)
     THEN /\ upload' = [upload EXCEPT !.stage = "fetch", !.page = {},
                                      !.produced = @ + Cardinality(ToSend)]
          /\ UNCHANGED <<resume, passedOver>>
     ELSE /\ passedOver' = passedOver \union (WithText(upload.page) \ ToSend)
          /\ BatchEnds
  /\ UNCHANGED <<writes, updatedAt, blank, options, named, newStores>>

(* One upload has failed in all its attempts: it is raised once the others *)
(* have ended.  A failed one may have been stored all the same.            *)
SendFails(arrived) ==
  /\ upload.stage = "send" /\ ToSend # {}
  /\ arrived \subseteq ToSend
  /\ Arrive(arrived)
  /\ BatchRaises
  /\ UNCHANGED <<writes, updatedAt, blank, options, named, newStores, resume, passedOver>>

(* The program is stopped, with part of a page sent.                       *)
ProgramDies(arrived) ==
  /\ upload.stage \in {"batch", "fetch", "send"}
  /\ arrived \subseteq (IF upload.stage = "send" THEN ToSend ELSE {})
  /\ Arrive(arrived)
  /\ upload' = Stopped
  /\ UNCHANGED <<writes, updatedAt, blank, options, named, newStores, resume, passedOver>>

(* It is started again, with the printed resume point or from the start,   *)
(* and for any of the stores.                                              *)
StartAgain(from, store) ==
  /\ upload.stage = "ended"
  /\ from \in {resume, NoKey} /\ store \in 0..newStores
  /\ resume' = from /\ named' = store
  /\ passedOver' = IF from = NoKey THEN {} ELSE passedOver
  /\ upload' = Started
  /\ UNCHANGED <<writes, updatedAt, blank, options, newStores, stored>>

ReuploadNext ==
  \/ \E edited \in SUBSET Docs \ {{}} : EditDocuments(edited)
  \/ \E d \in Docs : RemoveDocument(d)
  \/ \E found \in BOOLEAN : StartBatch(found)
  \/ \E left \in SUBSET stored[named], created \in BOOLEAN : StartFails(left, created)
  \/ \E last \in Current : FetchPage(last)
  \/ NoPageLeft \/ FetchPageFails \/ SendPage
  \/ \E arrived \in SUBSET upload.page : SendFails(arrived) \/ ProgramDies(arrived)
  \/ \E from \in {resume, NoKey}, store \in 0..newStores : StartAgain(from, store)

ReuploadSpec == ReuploadInit /\ [][ReuploadNext]_reuploadVars

-----------------------------------------------------------------------------
Behind(k) == {l \in WithText(Current) : ~Precedes(k, l)}

Held == UNION {stored[s] : s \in 0..newStores}

(* However uploads fail and documents change between the pages, of what is *)
(* behind the resume point nothing is missing but documents that a batch   *)
(* passed over at its limit; without a limit, nothing is.  (The cursor of  *)
(* fetch_documents and of reupload.)  The rest is in the store, as long as *)
(* --create-if-missing has created no other; from then on the batches of a *)
(* run may be in several (ensure_store_exists, run_batches).               *)
StoredBehindCursor ==
  /\ Behind(resume) \subseteq Held \union passedOver
  /\ newStores = 0 \/ ~createIfMissing => Behind(resume) \subseteq stored[named] \union passedOver
  /\ limit = 0 => passedOver = {}

(* run_sequential_upload: "after the first batch the resume information is *)
(* passed on and the next batch continues": a batch leaves nothing out.    *)
BatchesContinue == Behind(resume) \subseteq Held

=============================================================================
