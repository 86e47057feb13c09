----------------------------- MODULE AnalysisRuns -----------------------------
(***************************************************************************)
(* The analysis of tickets and what agents make of it: the pipeline of     *)
(* app/services/orchestrator/ticket_analysis_orchestrator.py, its rows     *)
(* (persistence.py), the routes of app/api/routes/tickets.py, and the      *)
(* training samples of app/services/feedback_repository.py.                *)
(*                                                                         *)
(* The writes to Supabase block the event loop and report no error; the    *)
(* model is awaited, and a stream gives way at each field it yields.       *)
(* Ratings (feedback_events) and quality logs are written and never read   *)
(* by this program: they are left out.                                     *)
(***************************************************************************)
EXTENDS Naturals, FiniteSets

CONSTANTS
  Runs,      \* analysis ids
  MaxEdits,  \* bound: approvals of one analysis
  Limit,     \* samples of one export
  Confidences, Thresholds  \* in hundredths; the model is not held to 100

ASSUME AnalysisAssumption ==
  /\ MaxEdits \in Nat /\ Limit \in Nat \ {0}
  /\ Confidences \subseteq Nat /\ Thresholds \subseteq 0..100

VARIABLES
  pipeline,  \* per run: [stage, streams, gate]
  runRow,    \* per run: status of its row in analysis_runs, or "none"
  results,   \* runs with a row in ticket_analyses
  sample,    \* per run: its row in training_samples
  replies,   \* history, per run: what its client was told last
  exports    \* history, per run: exports that marked its sample and handed it out

analysisVars == <<pipeline, runRow, results, sample, replies, exports>>

Gates == {"CONFIRM", "EDIT", "DECIDE", "TEACH"}
Open == {"asking", "emitting", "savingRun", "savingResult"}
Closed == {"idle", "told", "failed", "dead"}
NoSample == [row |-> FALSE, approved |-> 0, ticket |-> "unknown", exported |-> FALSE]

AnalysisTypeOK ==
  /\ pipeline \in [Runs -> [stage : Open \union Closed, streams : BOOLEAN, gate : Gates]]
  /\ runRow \in [Runs -> {"none", "running", "completed", "failed"}]
  /\ results \subseteq Runs
  /\ sample \in [Runs -> [row : BOOLEAN, approved : 0..MaxEdits,
                          ticket : {"unknown", "known"}, exported : BOOLEAN]]
  /\ replies \in [Runs -> {"nothing", "complete", "error"}]
  /\ exports \in [Runs -> 0..MaxEdits + 1]

AnalysisInit ==
  /\ pipeline = [r \in Runs |-> [stage |-> "idle", streams |-> FALSE, gate |-> "TEACH"]]
  /\ runRow = [r \in Runs |-> "none"]
  /\ results = {}
  /\ sample = [r \in Runs |-> NoSample]
  /\ replies = [r \in Runs |-> "nothing"]
  /\ exports = [r \in Runs |-> 0]

AtLeast(a, b) == IF a >= b THEN a ELSE b
ComputeGate(confidence, threshold) ==
  IF confidence >= 90 THEN "CONFIRM"
  ELSE IF confidence >= AtLeast(threshold, 70) THEN "EDIT"
  ELSE IF confidence >= 50 THEN "DECIDE"
  ELSE "TEACH"

Goes(r, stage) == pipeline' = [pipeline EXCEPT ![r].stage = stage]

\* save_analysis_run: an upsert, unless it is lost.
RunSaved(r, status, written) == runRow' = IF written THEN [runRow EXCEPT ![r] = status] ELSE runRow
\* save_analysis_result: the row refers to that of its run, and is lost if there is none.
ResultSaved(r, written) == results' = IF written /\ runRow[r] # "none" THEN results \union {r} ELSE results

-----------------------------------------------------------------------------
(* A run is recorded as running, or that write is lost.                    *)
StartRun(r, streams, written) ==
  /\ pipeline[r].stage = "idle"
  /\ pipeline' = [pipeline EXCEPT ![r].stage = "asking", ![r].streams = streams]
  /\ RunSaved(r, "running", written)
  /\ UNCHANGED <<results, sample, replies, exports>>

(* The model answers and its answer can be parsed: guardrails, summary     *)
(* sections, gate and selected fields.  A stream then yields the fields.   *)
ModelAnswers(r, confidence, threshold) ==
  /\ pipeline[r].stage = "asking"
  /\ pipeline' = [pipeline EXCEPT ![r].stage = IF pipeline[r].streams THEN "emitting" ELSE "savingRun",
                                  ![r].gate = ComputeGate(confidence, threshold)]
  /\ UNCHANGED <<runRow, results, sample, replies, exports>>

ModelFails_Untold(r, written) ==
  /\ pipeline[r].stage = "asking"
  /\ Goes(r, "failed")
  /\ RunSaved(r, "failed", written)
  /\ UNCHANGED <<results, sample, replies, exports>>

(* No provider answers, or the answer is beyond repair.                    *)
ModelFails(r, written) ==
  /\ pipeline[r].stage = "asking"
  /\ Goes(r, "failed")
  /\ RunSaved(r, "failed", written)
  /\ replies' = [replies EXCEPT ![r] = "error"]
  /\ UNCHANGED <<results, sample, exports>>

FieldsEmitted(r) ==
  /\ pipeline[r].stage = "emitting"
  /\ Goes(r, "savingRun")
  /\ UNCHANGED <<runRow, results, sample, replies, exports>>

SaveCompleted(r, written) ==
  /\ pipeline[r].stage = "savingRun"
  /\ Goes(r, "savingResult")
  /\ RunSaved(r, "completed", written)
  /\ UNCHANGED <<results, sample, replies, exports>>

(* A client that does not stream is told only what fits the output schema. *)
SaveResult(r, written, valid) ==
  /\ pipeline[r].stage = "savingResult"
  /\ Goes(r, "told")
  /\ ResultSaved(r, written)
  /\ replies' = [replies EXCEPT ![r] = IF pipeline[r].streams \/ valid THEN "complete" ELSE "error"]
  /\ UNCHANGED <<runRow, sample, exports>>

(* The client of a stream leaves at a yield: nothing is written any more.  *)
StreamCut(r) ==
  /\ pipeline[r].stage \in {"asking", "emitting"} /\ pipeline[r].streams
  /\ Goes(r, "dead")
  /\ UNCHANGED <<runRow, results, sample, replies, exports>>

AnalysisRestart ==
  /\ \E r \in Runs : pipeline[r].stage \in Open
  /\ pipeline' = [r \in Runs |->
       [pipeline[r] EXCEPT !.stage = IF @ \in Open THEN "dead" ELSE @]]
  /\ UNCHANGED <<runRow, results, sample, replies, exports>>

-----------------------------------------------------------------------------
(* An agent approves or edits an analysis: the sample is updated, or made  *)
(* from the result if that is there.  It refers to the row of its run.  A  *)
(* sample that was exported keeps its mark.                                *)
ApproveResponse(r) ==
  /\ sample[r].approved < MaxEdits
  /\ IF sample[r].row THEN sample' = [sample EXCEPT ![r].approved = @ + 1]
     ELSE /\ runRow[r] # "none"
          /\ sample' = [sample EXCEPT ![r] =
               [row |-> TRUE, approved |-> 1, ticket |-> IF r \in results THEN "known" ELSE "unknown",
                exported |-> FALSE]]
  /\ UNCHANGED <<pipeline, runRow, results, replies, exports>>

Exportable == {r \in Runs : sample[r].row /\ sample[r].approved > 0 /\ ~sample[r].exported}

ExportSamples_Unmarked(mark, marked, answered) ==
  \E chosen \in SUBSET Exportable :
    /\ chosen # {} /\ Cardinality(chosen) <= Limit
    /\ sample' = IF mark /\ marked THEN [r \in Runs |-> [sample[r] EXCEPT !.exported = @ \/ r \in chosen]] ELSE sample
    /\ exports' = [r \in Runs |-> IF mark /\ answered /\ r \in chosen /\ exports[r] <= MaxEdits
                                  THEN exports[r] + 1 ELSE exports[r]]
    /\ UNCHANGED <<pipeline, runRow, results, replies>>

(* Up to Limit samples are read and, if asked, marked in a second call: if *)
(* that raises (done or not), nothing is handed out; the process may also  *)
(* die between the mark and the answer.                                    *)
ExportSamples(mark, marked, answered) ==
  \E chosen \in SUBSET Exportable :
    /\ chosen # {} /\ Cardinality(chosen) <= Limit
    /\ sample' = IF mark /\ marked THEN [r \in Runs |-> [sample[r] EXCEPT !.exported = @ \/ r \in chosen]] ELSE sample
    /\ exports' = [r \in Runs |-> IF mark /\ marked /\ answered /\ r \in chosen
                                  THEN exports[r] + 1 ELSE exports[r]]
    /\ UNCHANGED <<pipeline, runRow, results, replies>>

AnalysisNext ==
  \/ \E r \in Runs, written \in BOOLEAN :
       \/ \E streams \in BOOLEAN : StartRun(r, streams, written)
       \/ ModelFails(r, written)
       \/ SaveCompleted(r, written)
       \/ \E valid \in BOOLEAN : SaveResult(r, written, valid)
  \/ \E r \in Runs :
       \/ \E confidence \in Confidences, threshold \in Thresholds : ModelAnswers(r, confidence, threshold)
       \/ FieldsEmitted(r) \/ StreamCut(r) \/ ApproveResponse(r)
  \/ AnalysisRestart
  \/ \E mark, marked, answered \in BOOLEAN : ExportSamples(mark, marked, answered)

AnalysisSpec == AnalysisInit /\ [][AnalysisNext]_analysisVars

-----------------------------------------------------------------------------
(* Whatever writes are lost and wherever a run is cut off: a run recorded  *)
(* as failed told its client so and has no result; a run recorded as       *)
(* completed had its answer; a result has the row it refers to; and a       *)
(* client is told complete only at the end of the pipeline.                *)
RowsTellTheOutcome ==
  \A r \in Runs :
    /\ runRow[r] = "failed" => replies[r] = "error" /\ r \notin results
    /\ runRow[r] = "completed" => pipeline[r].stage \in {"savingResult", "told", "dead"}
    /\ r \in results => runRow[r] \in {"running", "completed"}
    /\ replies[r] = "complete" => pipeline[r].stage = "told" /\ runRow[r] # "failed"

(* A sample is handed out as exported once, however often its export is    *)
(* asked for again after a failure, and never before an agent approved it. *)
ExportedOnce ==
  \A r \in Runs :
    /\ exports[r] <= 1
    /\ exports[r] = 1 => sample[r].exported /\ sample[r].approved > 0

=============================================================================
