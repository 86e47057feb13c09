------------------------------ MODULE MCSyncJob ------------------------------
(* SyncJob on small instances. *)
EXTENDS SyncJob, TLC

\* the two kinds of content, with and without Supabase and a store configured
Kinds == {"ticket", "article"}
MCOptions ==
  [tickets : BOOLEAN, articles : BOOLEAN, metadata : BOOLEAN, stores : {{}, {"ticket"}, Kinds}]
\* tickets or articles only, with Supabase configured, with and without stores
OneKindOptions ==
  {o \in MCOptions : o.metadata /\ o.tickets # o.articles /\ o.stores \in {{}, Kinds}}
FullOptions == [tickets : {TRUE}, articles : {TRUE}, metadata : {TRUE}, stores : {Kinds}]

\* Tasks differ in nothing but their name.
TaskSymmetry == Permutations(Tasks)
=============================================================================
