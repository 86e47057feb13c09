----------------------------- MODULE EntityLabels -----------------------------
(***************************************************************************)
(* The labels a sync writes into its documents: EntityMapper of            *)
(* app/services/entity_mapper.py turns identifiers of Freshdesk into       *)
(* names.  Agents, groups, products and categories are loaded as a whole   *)
(* and expire; contacts and companies are fetched one by one and do not.   *)
(* The tickets and the articles of a sync ask at the same time, several    *)
(* labels at once; the lock of the mapper is never taken.                  *)
(***************************************************************************)
EXTENDS Naturals, FiniteSets, FiniteSetsExt

CONSTANTS
  Askers,   \* calls of get_label and get_requester_label
  Ids,      \* identifiers, the same in every type
  MaxItems  \* MAX_CACHE_SIZE

ASSUME LabelsAssumption == MaxItems \in Nat /\ Ids # {}

VARIABLES
  existing,  \* per type: what Freshdesk has; external, the same as long as a sync runs
  kept,      \* the types with an entry in _cache
  valid,     \* the types whose entry has not expired
  known,     \* per type: the identifiers with a label
  asker      \* per asker: where it is, what it asks for, and its answer

labelVars == <<existing, kept, valid, known, asker>>

BatchTypes == {"agents", "groups"}           \* BATCH_ENTITIES, two of them
OnDemandTypes == {"contacts", "folders"}     \* ON_DEMAND_ENTITIES; companies are as contacts
Types == BatchTypes \union OnDemandTypes
AskerStages == {"idle", "contact", "loading", "single", "named", "numbered"}
LabelsTypeOK ==
  /\ existing \in [Types -> SUBSET Ids]
  /\ kept \subseteq Types /\ valid \subseteq kept
  /\ known \in [Types -> SUBSET Ids]
  /\ asker \in [Askers -> [stage : AskerStages, type : Types, id : Ids, failed : BOOLEAN]]

(* initialize has loaded each of the batch types, or failed to.            *)
LabelsInit ==
  /\ existing \in [Types -> SUBSET Ids]
  /\ kept \in SUBSET BatchTypes /\ valid = kept
  /\ known = [t \in Types |-> IF t \in kept THEN existing[t] ELSE {}]
  /\ asker = [a \in Askers |-> [stage |-> "idle", type |-> "agents", id |-> CHOOSE i \in Ids : TRUE, failed |-> FALSE]]

Answers(a, t, i, failed, labelled) ==
  asker' = [asker EXCEPT ![a] = [stage |-> IF i \in labelled THEN "named" ELSE "numbered",
                                 type |-> t, id |-> i, failed |-> failed]]
Awaits(a, stage, t, i, failed) ==
  asker' = [asker EXCEPT ![a] = [stage |-> stage, type |-> t, id |-> i, failed |-> failed]]

(* A valid entry answers; a batch type is loaded again; of the other types *)
(* an entry never expires, what it lacks is fetched, and folders are not.  *)
Label(a, t, i, failed) ==
  CASE t \in valid \/ (t \in OnDemandTypes /\ i \in known[t]) -> Answers(a, t, i, failed, known[t])
    [] t \in BatchTypes \ valid -> Awaits(a, "loading", t, i, failed)
    [] t = "folders" /\ i \notin known[t] -> Answers(a, t, i, failed, {})
    [] t = "contacts" /\ i \notin known[t] -> Awaits(a, "single", t, i, failed)

GetLabel(a, t, i) ==
  /\ asker[a].stage = "idle"
  /\ Label(a, t, i, FALSE)
  /\ UNCHANGED <<existing, kept, valid, known>>

(* A requester is a contact, always fetched, or else an agent.             *)
GetRequesterLabel(a, i) ==
  /\ asker[a].stage = "idle"
  /\ Awaits(a, "contact", "contacts", i, FALSE)
  /\ UNCHANGED <<existing, kept, valid, known>>

Fetched(t, i) ==
  /\ kept' = kept \union {t}
  /\ known' = [known EXCEPT ![t] = @ \union {i}]
  /\ UNCHANGED <<existing, valid>>

RequesterFetched(a, ok) ==
  /\ asker[a].stage = "contact"
  /\ LET i == asker[a].id IN
       IF ok /\ i \in existing["contacts"]
       THEN Fetched("contacts", i) /\ Answers(a, "contacts", i, FALSE, {i})
       ELSE Label(a, "agents", i, ~ok) /\ UNCHANGED <<existing, kept, valid, known>>

SingleFetched(a, ok) ==
  /\ asker[a].stage = "single"
  /\ LET i == asker[a].id IN
       IF ok /\ i \in existing["contacts"]
       THEN Fetched("contacts", i) /\ Answers(a, "contacts", i, FALSE, {i})
       ELSE Answers(a, "contacts", i, ~ok, {}) /\ UNCHANGED <<existing, kept, valid, known>>

Items == MapThenSumSet(LAMBDA t : Cardinality(known[t]), kept)

(* min over expires_at: an entry that never expires counts as the oldest.  *)
Oldest == IF kept \ BatchTypes # {} THEN kept \ BatchTypes ELSE kept

CacheEntity_EvictsLast(t, evicted) ==
  LET full == Items + Cardinality(existing[t]) > MaxItems
      out == IF full THEN {evicted} ELSE {} IN
  /\ kept' = (kept \union {t}) \ out
  /\ valid' = (valid \union {t}) \ out
  /\ known' = [u \in Types |-> IF u \in out THEN {} ELSE IF u = t THEN existing[t] ELSE known[u]]

(* A cache over its limit loses one entry, before the new one is counted.  *)
CacheEntity(t, evicted) ==
  LET out == IF Items > MaxItems THEN {evicted} ELSE {} IN
  /\ kept' = (kept \ out) \union {t}
  /\ valid' = (valid \ out) \union {t}
  /\ known' = [u \in Types |-> IF u = t THEN existing[t] ELSE IF u \in out THEN {} ELSE known[u]]

LoadEnds(a, evicted) ==
  /\ asker[a].stage = "loading"
  /\ evicted \in Oldest \/ kept = {}
  /\ CacheEntity(asker[a].type, evicted)
  /\ Answers(a, asker[a].type, asker[a].id, asker[a].failed, known'[asker[a].type])
  /\ UNCHANGED existing

(* What has expired still answers.                                         *)
LoadFails(a) ==
  /\ asker[a].stage = "loading"
  /\ Answers(a, asker[a].type, asker[a].id, TRUE, known[asker[a].type])
  /\ UNCHANGED <<existing, kept, valid, known>>

EntryExpires(t) ==
  /\ t \in valid
  /\ valid' = valid \ {t}
  /\ UNCHANGED <<existing, kept, known, asker>>

NextLabel(a) ==
  /\ asker[a].stage \in {"named", "numbered"}
  /\ asker' = [asker EXCEPT ![a].stage = "idle"]
  /\ UNCHANGED <<existing, kept, valid, known>>

LabelsNext ==
  \/ \E a \in Askers :
       \/ \E i \in Ids : GetRequesterLabel(a, i) \/ \E t \in Types : GetLabel(a, t, i)
       \/ \E ok \in BOOLEAN : RequesterFetched(a, ok) \/ SingleFetched(a, ok)
       \/ \E t \in Types : LoadEnds(a, t)
       \/ LoadFails(a) \/ NextLabel(a)
  \/ \E t \in BatchTypes : EntryExpires(t)

LabelsSpec == LabelsInit /\ [][LabelsNext]_labelVars

-----------------------------------------------------------------------------
(* A document of a sync carries a number in place of a name only if        *)
(* Freshdesk has no such entity, a request of its own for it failed, or it *)
(* is a folder: neither the expiry of an entry, nor its eviction, nor what *)
(* the other coroutines load meanwhile takes a name away.                  *)
KnownIsLabelled ==
  \A a \in Askers :
    asker[a].stage = "numbered" /\ ~asker[a].failed /\ asker[a].type # "folders"
      => asker[a].id \notin existing[asker[a].type]

=============================================================================
