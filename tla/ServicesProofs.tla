----------------------------- MODULE ServicesProofs -----------------------------
(***************************************************************************)
(* Proofs about the services that MCServices composes, beside those of     *)
(* OnboardingProofs: what is cached and sent, the labels of a sync, the    *)
(* upload and the listing of the common documents, the administration API, *)
(* the analysis of tickets and the filters of a chat search - for any      *)
(* numbers of requests, documents, tenants and runs - and what holds of    *)
(* the composition.                                                        *)
(***************************************************************************)
EXTENDS MCServices, OnboardingProofs

-----------------------------------------------------------------------------
EntryType == [kept : BOOLEAN, value : 0..MaxChanges, readAt : Times, stamp : Times]
CallerType == [stage : CallerStages, kind : CacheKinds, value : 0..MaxChanges,
               readAt : Times, start : Times, cached : BOOLEAN]

(* The stamp of a list is no later than the request that read it: it is    *)
(* the time at which its caller began.                                     *)
StampsAreEarly ==
  /\ entry["stores"].kept => entry["stores"].stamp <= entry["stores"].readAt
  /\ \A c \in Callers :
       /\ caller[c].stage = "fetching" => caller[c].start <= clock
       /\ caller[c].stage = "read" => caller[c].start <= caller[c].readAt
       /\ caller[c].stage \in {"fetching", "read"} => ~caller[c].cached

(* Unless a change could hide, who has read the list has what is at Google,*)
(* and so has the list that is kept, once changes have invalidated it.     *)
ReadIsCurrent ==
  ~dirty =>
    /\ entry["stores"].kept /\ ~(\E c \in Callers : caller[c].stage = "changed")
         => entry["stores"].value = source["stores"]
    /\ \A c \in Callers : caller[c].stage = "read" /\ caller[c].kind = "stores"
         => caller[c].value = source["stores"]

CachesInv == CachesTypeOK /\ StampsAreEarly /\ CachedListIsRecent /\ ReadIsCurrent

\* Setting one field of one caller keeps the type and the other fields.
LEMMA SetCallerStage ==
  ASSUME NEW f \in [Callers -> CallerType], NEW c \in Callers, NEW stage \in CallerStages
  PROVE  LET g == [f EXCEPT ![c].stage = stage] IN
         /\ g \in [Callers -> CallerType] /\ \A d \in Callers \ {c} : g[d] = f[d]
         /\ g[c].stage = stage /\ g[c].kind = f[c].kind /\ g[c].value = f[c].value
         /\ g[c].readAt = f[c].readAt /\ g[c].start = f[c].start /\ g[c].cached = f[c].cached
BY DEF CallerType

LEMMA SetCallerValue ==
  ASSUME NEW f \in [Callers -> CallerType], NEW c \in Callers, NEW value \in 0..MaxChanges
  PROVE  LET g == [f EXCEPT ![c].value = value] IN
         /\ g \in [Callers -> CallerType] /\ \A d \in Callers \ {c} : g[d] = f[d]
         /\ g[c].stage = f[c].stage /\ g[c].kind = f[c].kind /\ g[c].value = value
         /\ g[c].readAt = f[c].readAt /\ g[c].start = f[c].start /\ g[c].cached = f[c].cached
BY DEF CallerType

LEMMA SetCallerReadAt ==
  ASSUME NEW f \in [Callers -> CallerType], NEW c \in Callers, NEW readAt \in Times
  PROVE  LET g == [f EXCEPT ![c].readAt = readAt] IN
         /\ g \in [Callers -> CallerType] /\ \A d \in Callers \ {c} : g[d] = f[d]
         /\ g[c].stage = f[c].stage /\ g[c].kind = f[c].kind /\ g[c].value = f[c].value
         /\ g[c].readAt = readAt /\ g[c].start = f[c].start /\ g[c].cached = f[c].cached
BY DEF CallerType

LEMMA NoEntryType == NoEntry \in EntryType /\ ~NoEntry.kept
BY CachesAssumption DEF NoEntry, EntryType, Times

LEMMA NewCallerType == NewCaller \in CallerType /\ NewCaller.stage = "idle"
BY CachesAssumption DEF NewCaller, CallerType, CallerStages, CacheKinds, Times

LEMMA CachesInitInv == CachesInit => CachesInv
<1> SUFFICES ASSUME CachesInit PROVE CachesInv
  OBVIOUS
<1>1. CachesTypeOK
  <2>1. 0 \in Times /\ 0 \in 0..MaxChanges
    BY CachesAssumption DEF Times
  <2>2. entry \in [CacheKinds -> EntryType] /\ caller \in [Callers -> CallerType]
    BY NoEntryType, NewCallerType DEF CachesInit
  <2> QED BY <2>1, <2>2 DEF CachesInit, CachesTypeOK, CallerType, EntryType
<1>2. ~entry["stores"].kept /\ \A c \in Callers : caller[c].stage = "idle"
  BY NoEntryType, NewCallerType DEF CachesInit, CacheKinds
<1> QED BY <1>1, <1>2 DEF CachesInv, StampsAreEarly, CachedListIsRecent, ReadIsCurrent

\* The types of the parts, as the proofs below use them.
LEMMA CachesParts ==
  ASSUME CachesInv
  PROVE  /\ clock \in Times /\ clock \in Nat /\ \A t \in Times : t \in Nat
         /\ caller \in [Callers -> CallerType] /\ \A c \in Callers : caller[c] \in CallerType
         /\ entry \in [CacheKinds -> EntryType] /\ source \in [CacheKinds -> 0..MaxChanges]
         /\ dirty \in BOOLEAN
BY CachesAssumption DEF CachesInv, CachesTypeOK, CallerType, EntryType, Times

LEMMA TickInv == ASSUME CachesInv, Tick PROVE CachesInv'
<1>1. CachesTypeOK'
  BY CachesAssumption DEF CachesInv, CachesTypeOK, Tick, Times
<1>2. StampsAreEarly'
  BY CachesParts DEF CachesInv, StampsAreEarly, Tick, CallerType
<1> QED BY <1>1, <1>2 DEF CachesInv, Tick, CachedListIsRecent, ReadIsCurrent

\* A fresh list is younger than Ttl by its stamp, and so by its reading.
LEMMA ServeCachedInv ==
  ASSUME CachesInv, NEW c \in Callers, NEW k \in CacheKinds, ServeCached(c, k)
  PROVE  CachesInv'
<1> DEFINE new == [stage |-> "served", kind |-> k, value |-> entry[k].value,
                   readAt |-> entry[k].readAt, start |-> clock, cached |-> TRUE]
<1>1. caller' = [caller EXCEPT ![c] = new] /\ UNCHANGED <<clock, source, entry, dirty>>
  BY DEF ServeCached
<1>2. new \in CallerType
  BY CachesParts DEF CallerType, EntryType, CallerStages
<1>3. k = "stores" => clock - entry[k].readAt < Ttl
  <2> SUFFICES ASSUME k = "stores" PROVE clock - entry[k].readAt < Ttl
    OBVIOUS
  <2>1. clock - entry[k].stamp < Ttl /\ entry[k].stamp <= entry[k].readAt
    BY DEF ServeCached, IsFresh, CachesInv, StampsAreEarly
  <2>2. entry[k].stamp \in Nat /\ entry[k].readAt \in Nat /\ clock \in Nat
    BY CachesParts DEF EntryType
  <2> QED BY <2>1, <2>2, CachesAssumption
<1>4. new.stage = "served" /\ new.kind = k /\ new.start = clock /\ new.readAt = entry[k].readAt
  OBVIOUS
<1> HIDE DEF new
<1>5. caller' \in [Callers -> CallerType] /\ caller'[c] = new /\ \A d \in Callers \ {c} : caller'[d] = caller[d]
  BY <1>1, <1>2, CachesParts
<1>6. CachesTypeOK'
  BY <1>1, <1>5 DEF CachesInv, CachesTypeOK, CallerType
<1>7. StampsAreEarly'
  BY <1>1, <1>4, <1>5 DEF CachesInv, StampsAreEarly
<1>8. CachedListIsRecent'
  BY <1>3, <1>4, <1>5 DEF CachesInv, CachedListIsRecent
<1>9. ReadIsCurrent'
  BY <1>1, <1>4, <1>5 DEF CachesInv, ReadIsCurrent, ServeCached
<1> QED BY <1>6, <1>7, <1>8, <1>9 DEF CachesInv

LEMMA BeginFetchInv ==
  ASSUME CachesInv, NEW c \in Callers, NEW k \in CacheKinds, BeginFetch(c, k)
  PROVE  CachesInv'
<1> DEFINE new == [stage |-> "fetching", kind |-> k, value |-> 0, readAt |-> 0, start |-> clock, cached |-> FALSE]
<1>1. caller' = [caller EXCEPT ![c] = new] /\ UNCHANGED <<clock, source, entry, dirty>>
  BY DEF BeginFetch
<1>2. new \in CallerType /\ new.stage = "fetching" /\ new.start = clock /\ ~new.cached
  <2>1. 0 \in Times /\ 0 \in 0..MaxChanges /\ clock \in Times /\ "fetching" \in CallerStages
    BY CachesParts, CachesAssumption DEF Times, CallerStages
  <2> QED BY <2>1 DEF CallerType
<1> HIDE DEF new
<1>5. caller' \in [Callers -> CallerType] /\ caller'[c] = new /\ \A d \in Callers \ {c} : caller'[d] = caller[d]
  BY <1>1, <1>2, CachesParts
<1>6. CachesTypeOK'
  BY <1>1, <1>5 DEF CachesInv, CachesTypeOK, CallerType
<1>7. StampsAreEarly'
  BY <1>1, <1>2, <1>5, CachesParts DEF CachesInv, StampsAreEarly
<1>8. CachedListIsRecent'
  BY <1>2, <1>5 DEF CachesInv, CachedListIsRecent
<1>9. ReadIsCurrent'
  BY <1>1, <1>2, <1>5 DEF CachesInv, ReadIsCurrent, BeginFetch
<1> QED BY <1>6, <1>7, <1>8, <1>9 DEF CachesInv

\* What is read now is what is at the source now.
LEMMA SourceAnswersInv ==
  ASSUME CachesInv, NEW c \in Callers, SourceAnswers(c)
  PROVE  CachesInv'
<1> DEFINE value == source[caller[c].kind]
           f1 == [caller EXCEPT ![c].stage = "read"]
           f2 == [f1 EXCEPT ![c].value = value]
<1>0. caller[c].stage = "fetching"
  BY DEF SourceAnswers
<1>1. caller' = [f2 EXCEPT ![c].readAt = clock] /\ UNCHANGED <<clock, source, entry, dirty>>
  BY DEF SourceAnswers
<1>2. value \in 0..MaxChanges /\ "read" \in CallerStages /\ clock \in Times
  BY CachesParts DEF CallerType, CallerStages
<1> HIDE DEF value
<1>3. /\ f1 \in [Callers -> CallerType] /\ \A d \in Callers \ {c} : f1[d] = caller[d]
      /\ f1[c].stage = "read" /\ f1[c].kind = caller[c].kind /\ f1[c].start = caller[c].start
      /\ f1[c].cached = caller[c].cached
  BY <1>2, CachesParts, SetCallerStage
<1> HIDE DEF f1
<1>4. /\ f2 \in [Callers -> CallerType] /\ \A d \in Callers \ {c} : f2[d] = caller[d]
      /\ f2[c].stage = "read" /\ f2[c].kind = caller[c].kind /\ f2[c].value = value
      /\ f2[c].start = caller[c].start /\ f2[c].cached = caller[c].cached
  BY <1>2, <1>3, SetCallerValue
<1> HIDE DEF f2
<1>5. /\ caller' \in [Callers -> CallerType] /\ \A d \in Callers \ {c} : caller'[d] = caller[d]
      /\ caller'[c].stage = "read" /\ caller'[c].kind = caller[c].kind /\ caller'[c].value = value
      /\ caller'[c].start = caller[c].start /\ caller'[c].readAt = clock /\ caller'[c].cached = caller[c].cached
  BY <1>1, <1>2, <1>4, SetCallerReadAt
<1>6. CachesTypeOK'
  BY <1>1, <1>5 DEF CachesInv, CachesTypeOK, CallerType
<1>7. StampsAreEarly'
  BY <1>0, <1>1, <1>5 DEF CachesInv, StampsAreEarly
<1>8. CachedListIsRecent'
  BY <1>5 DEF CachesInv, CachedListIsRecent
<1>9. ReadIsCurrent'
  BY <1>0, <1>1, <1>5 DEF CachesInv, ReadIsCurrent, value
<1> QED BY <1>6, <1>7, <1>8, <1>9 DEF CachesInv

\* A caller that only goes to where it neither reads nor serves.
LEMMA CallerEnds ==
  ASSUME CachesInv, NEW c \in Callers, NEW stage \in {"over", "changing"}, caller[c].stage # "changed",
         caller' = [caller EXCEPT ![c].stage = stage], UNCHANGED <<clock, source, entry, dirty>>
  PROVE  CachesInv'
<1>1. /\ caller' \in [Callers -> CallerType] /\ \A d \in Callers \ {c} : caller'[d] = caller[d]
      /\ caller'[c].stage = stage
  <2>1. stage \in CallerStages
    BY DEF CallerStages
  <2> QED BY <2>1, CachesParts, SetCallerStage
<1>2. CachesTypeOK'
  BY <1>1 DEF CachesInv, CachesTypeOK, CallerType
<1>3. StampsAreEarly' /\ CachedListIsRecent'
  BY <1>1 DEF CachesInv, StampsAreEarly, CachedListIsRecent
<1>4. ReadIsCurrent'
  BY <1>1 DEF CachesInv, ReadIsCurrent
<1> QED BY <1>2, <1>3, <1>4 DEF CachesInv

\* The list is kept under the time its request began.
LEMMA StoreAnswerInv ==
  ASSUME CachesInv, NEW c \in Callers, NEW written \in BOOLEAN, StoreAnswer(c, written)
  PROVE  CachesInv'
<1> DEFINE kind == caller[c].kind
           new == [kept |-> TRUE, value |-> caller[c].value, readAt |-> caller[c].readAt,
                   stamp |-> IF kind = "stores" THEN caller[c].start ELSE clock]
<1>1. /\ caller' = [caller EXCEPT ![c].stage = "served"] /\ UNCHANGED <<clock, source, dirty>>
      /\ entry' = IF written THEN [entry EXCEPT ![kind] = new] ELSE entry
      /\ caller[c].stage = "read" /\ (kind = "stores" => written)
  BY DEF StoreAnswer
<1>2. /\ caller' \in [Callers -> CallerType] /\ \A d \in Callers \ {c} : caller'[d] = caller[d]
      /\ caller'[c].stage = "served" /\ ~caller'[c].cached
  <2>1. "served" \in CallerStages /\ ~caller[c].cached
    BY <1>1 DEF CallerStages, CachesInv, StampsAreEarly
  <2> QED BY <1>1, <2>1, CachesParts, SetCallerStage
<1>3. /\ new \in EntryType /\ new.value = caller[c].value
      /\ kind = "stores" => new.stamp = caller[c].start /\ new.readAt = caller[c].readAt
  BY CachesParts DEF EntryType, CallerType
<1>4. kind \in CacheKinds
  BY CachesParts DEF CallerType
<1> HIDE DEF new
<1>5. /\ entry' \in [CacheKinds -> EntryType]
      /\ entry'["stores"] = IF kind = "stores" THEN new ELSE entry["stores"]
  BY <1>1, <1>3, <1>4, CachesParts DEF CacheKinds
<1>6. CachesTypeOK'
  BY <1>1, <1>2, <1>5 DEF CachesInv, CachesTypeOK, CallerType, EntryType
<1>7. StampsAreEarly' /\ CachedListIsRecent'
  BY <1>1, <1>2, <1>3, <1>5 DEF CachesInv, StampsAreEarly, CachedListIsRecent
<1>8. ReadIsCurrent'
  <2> SUFFICES ASSUME ~dirty' PROVE /\ entry'["stores"].kept /\ ~(\E d \in Callers : caller'[d].stage = "changed")
                                         => entry'["stores"].value = source'["stores"]
                                    /\ \A d \in Callers : caller'[d].stage = "read" /\ caller'[d].kind = "stores"
                                         => caller'[d].value = source'["stores"]
    BY DEF ReadIsCurrent
  <2>1. CASE kind = "stores"
    BY <1>1, <1>2, <1>3, <1>5, <2>1 DEF CachesInv, ReadIsCurrent
  <2>2. CASE kind # "stores"
    BY <1>1, <1>2, <1>5, <2>2 DEF CachesInv, ReadIsCurrent
  <2> QED BY <2>1, <2>2
<1> QED BY <1>6, <1>7, <1>8 DEF CachesInv

\* A change whose answer arrives hides from nobody: nobody had read the list.
LEMMA SourceChangesInv ==
  ASSUME CachesInv, NEW c \in Callers, NEW isTold \in BOOLEAN, SourceChanges(c, isTold)
  PROVE  CachesInv'
<1> DEFINE stage == IF isTold THEN "changed" ELSE "over"
           changed == [source EXCEPT !["stores"] = @ + 1]
           f1 == [caller EXCEPT ![c].stage = stage]
<1>1. /\ source' = changed /\ caller' = [f1 EXCEPT ![c].value = changed["stores"]]
      /\ dirty' = (dirty \/ ~isTold \/ Fetching("stores")) /\ UNCHANGED <<clock, entry>>
  BY DEF SourceChanges
<1>2. changed \in [CacheKinds -> 0..MaxChanges] /\ changed["stores"] \in 0..MaxChanges
  <2>1. source["stores"] \in 0..MaxChanges /\ source["stores"] < MaxChanges
    BY CachesParts DEF SourceChanges, CacheKinds
  <2>2. source["stores"] + 1 \in 0..MaxChanges
    BY <2>1, CachesAssumption
  <2> QED BY <2>2, CachesParts DEF CacheKinds
<1>3. stage \in CallerStages /\ stage \in {"changed", "over"} /\ (isTold => stage = "changed")
  BY DEF CallerStages
<1> HIDE DEF changed, stage
<1>4. f1 \in [Callers -> CallerType] /\ (\A d \in Callers \ {c} : f1[d] = caller[d]) /\ f1[c].stage = stage
  BY <1>3, CachesParts, SetCallerStage
<1> HIDE DEF f1
<1>5. caller' \in [Callers -> CallerType] /\ (\A d \in Callers \ {c} : caller'[d] = caller[d]) /\ caller'[c].stage = stage
  BY <1>1, <1>2, <1>4, SetCallerValue
<1>6. CachesTypeOK'
  <2>1. dirty' \in BOOLEAN
    BY <1>1
  <2> QED BY <1>1, <1>2, <1>5, <2>1 DEF CachesInv, CachesTypeOK, CallerType
<1>7. StampsAreEarly' /\ CachedListIsRecent'
  BY <1>1, <1>3, <1>5 DEF CachesInv, StampsAreEarly, CachedListIsRecent
<1>8. ~dirty' => caller'[c].stage = "changed" /\ \A d \in Callers : ~(caller'[d].stage = "read" /\ caller'[d].kind = "stores")
  BY <1>1, <1>3, <1>5 DEF Fetching
<1>9. ReadIsCurrent'
  BY <1>8 DEF ReadIsCurrent
<1> QED BY <1>6, <1>7, <1>9 DEF CachesInv

\* Once a change has its answer, no list is kept until one is read anew.
LEMMA InvalidateInv == ASSUME CachesInv, NEW c \in Callers, Invalidate(c) PROVE CachesInv'
<1>1. /\ caller' \in [Callers -> CallerType] /\ \A d \in Callers \ {c} : caller'[d] = caller[d]
      /\ caller'[c].stage = "over"
  <2>1. "over" \in CallerStages /\ caller' = [caller EXCEPT ![c].stage = "over"]
    BY DEF CallerStages, Invalidate
  <2> QED BY <2>1, CachesParts, SetCallerStage
<1>2. entry' \in [CacheKinds -> EntryType] /\ ~entry'["stores"].kept
  BY CachesParts, NoEntryType DEF Invalidate, CacheKinds
<1>3. UNCHANGED <<clock, source, dirty>>
  BY DEF Invalidate
<1>4. CachesTypeOK'
  BY <1>1, <1>2, <1>3 DEF CachesInv, CachesTypeOK, CallerType, EntryType
<1>5. StampsAreEarly' /\ CachedListIsRecent'
  BY <1>1, <1>2, <1>3 DEF CachesInv, StampsAreEarly, CachedListIsRecent
<1>6. ReadIsCurrent'
  BY <1>1, <1>2, <1>3 DEF CachesInv, ReadIsCurrent
<1> QED BY <1>4, <1>5, <1>6 DEF CachesInv

LEMMA ChangeElsewhereInv == ASSUME CachesInv, NEW k \in CacheKinds, ChangeElsewhere(k) PROVE CachesInv'
<1>1. source' \in [CacheKinds -> 0..MaxChanges]
  <2>1. source[k] + 1 \in 0..MaxChanges
    BY CachesParts, CachesAssumption DEF ChangeElsewhere
  <2> QED BY <2>1, CachesParts DEF ChangeElsewhere
<1>2. dirty' \in BOOLEAN /\ (~dirty' => ~dirty /\ k # "stores")
  BY DEF ChangeElsewhere
<1>3. ~dirty' => source'["stores"] = source["stores"]
  BY <1>2, CachesParts DEF ChangeElsewhere, CacheKinds
<1>4. CachesTypeOK'
  BY <1>1, <1>2 DEF CachesInv, CachesTypeOK, ChangeElsewhere
<1>5. StampsAreEarly' /\ CachedListIsRecent'
  BY DEF CachesInv, StampsAreEarly, CachedListIsRecent, ChangeElsewhere
<1>6. ReadIsCurrent'
  BY <1>2, <1>3 DEF CachesInv, ReadIsCurrent, ChangeElsewhere
<1> QED BY <1>4, <1>5, <1>6 DEF CachesInv

LEMMA CachesRestartInv == ASSUME CachesInv, CachesRestart PROVE CachesInv'
<1>1. caller' \in [Callers -> CallerType] /\ \A c \in Callers : caller'[c].stage \in {"idle", "over"}
  BY CachesParts DEF CachesRestart, CallerType, CallerStages
<1>2. entry' \in [CacheKinds -> EntryType] /\ ~entry'["stores"].kept
  BY CachesParts, NoEntryType DEF CachesRestart, CacheKinds
<1>3. UNCHANGED <<clock, source>> /\ dirty' \in BOOLEAN
  BY DEF CachesRestart
<1>4. CachesTypeOK'
  BY <1>1, <1>2, <1>3 DEF CachesInv, CachesTypeOK, CallerType, EntryType
<1> QED BY <1>1, <1>2, <1>4 DEF CachesInv, StampsAreEarly, CachedListIsRecent, ReadIsCurrent

LEMMA CachesStepInv == CachesInv /\ [CachesNext]_cachesVars => CachesInv'
<1> SUFFICES ASSUME CachesInv, [CachesNext]_cachesVars PROVE CachesInv'
  OBVIOUS
<1>1. CASE UNCHANGED cachesVars
  BY <1>1 DEF cachesVars, CachesInv, CachesTypeOK, StampsAreEarly, CachedListIsRecent, ReadIsCurrent
<1>2. CASE \E c \in Callers : FetchFails(c) \/ BeginChange(c)
  BY <1>2, CallerEnds DEF FetchFails, BeginChange
<1>3. CASE CachesNext
  BY <1>2, <1>3, TickInv, ServeCachedInv, BeginFetchInv, SourceAnswersInv, StoreAnswerInv, SourceChangesInv,
     InvalidateInv, ChangeElsewhereInv, CachesRestartInv DEF CachesNext
<1> QED BY <1>1, <1>3

LEMMA CachesInvImplies == CachesInv => CachesTypeOK /\ CachedListIsRecent /\ KeptListHasOwnChanges
BY DEF CachesInv, ReadIsCurrent, KeptListHasOwnChanges

(* Cached answers and the requests for them keep their types               *)
(* (gemini_file_search.py, tenant_ticket_fields_cache.py).                 *)
THEOREM CachesTypeCorrect == CachesSpec => []CachesTypeOK
BY CachesInitInv, CachesStepInv, CachesInvImplies, PTL DEF CachesSpec

(* For any time to live and any number of overlapping requests, a list of  *)
(* stores that is served from the cache was read less than Ttl ago         *)
(* (get_file_search_stores).                                               *)
THEOREM CachesListIsRecent == CachesSpec => []CachedListIsRecent
BY CachesInitInv, CachesStepInv, CachesInvImplies, PTL DEF CachesSpec

(* For any number of requests, a change that no listing overlapped is in   *)
(* the list that is kept (create_store, delete_store,                      *)
(* get_file_search_stores).                                                *)
THEOREM CachesListHasOwnChanges == CachesSpec => []KeptListHasOwnChanges
BY CachesInitInv, CachesStepInv, CachesInvImplies, PTL DEF CachesSpec

-----------------------------------------------------------------------------
CallType == [stage : CallStages, kind : CallKinds, route : 1..3, at : 1..3,
             attempt : 1..MaxAttempts, step : 1..2, found : BOOLEAN]
TryType == [at : 1..3, outcome : TryOutcomes, lost : BOOLEAN, whole : BOOLEAN]

(* A try is within its candidate's tries and its steps; only uploads have  *)
(* copies, to one store, and no more of them than tries.                   *)
WithinTries ==
  \A c \in Calls :
    /\ call[c].at <= call[c].route /\ call[c].step <= Steps(call[c].kind, call[c].at)
    /\ call[c].attempt <= Tries(call[c].kind)
    /\ call[c].stage = "backoff" => call[c].attempt < Tries(call[c].kind)
    /\ call[c].kind = "upload" => call[c].route = 1
    /\ call[c].kind # "upload" => copies[c] = 0
    /\ copies[c] <= call[c].attempt
    /\ call[c].stage = "asking" => copies[c] < call[c].attempt
    /\ call[c].stage = "idle" => copies[c] = 0

(* A call that goes on though the store has its document has lost the      *)
(* answer to a try.                                                        *)
CopiesWereLost ==
  \A c \in Calls :
    /\ call[c].stage \in {"idle", "asking", "backoff"} /\ copies[c] >= 1
         => \E i \in 1..Len(tried[c]) : tried[c][i].lost
    /\ copies[c] > 1 => \E i \in 1..Len(tried[c]) - 1 : tried[c][i].lost

FallbackShape ==
  call \in [Calls -> CallType] /\ tried \in [Calls -> Seq(TryType)] /\ copies \in [Calls -> Nat]

FallbackInv == FallbackShape /\ WithinTries /\ CopiesWereLost

LEMMA TriesAndSteps ==
  ASSUME NEW kind \in CallKinds, NEW at \in 1..3
  PROVE  /\ Tries(kind) \in 1..MaxAttempts /\ Steps(kind, at) \in 1..2
         /\ Routes(kind) \subseteq 1..3 /\ (kind = "upload" => Routes(kind) = {1})
BY FallbacksAssumption DEF Tries, Steps, Routes, CallKinds

LEMMA FallbackInitInv == FallbacksInit => FallbackInv
<1> SUFFICES ASSUME FallbacksInit PROVE FallbackInv
  OBVIOUS
<1>1. NoCall \in CallType /\ <<>> \in Seq(TryType)
  BY FallbacksAssumption DEF NoCall, CallType, CallStages, CallKinds
<1>2. FallbackShape
  BY <1>1 DEF FallbacksInit, FallbackShape
<1>3. 1 <= Steps("generate", 1) /\ 1 <= Tries("generate")
  BY DEF Steps, Tries
<1>4. WithinTries
  BY <1>3 DEF FallbacksInit, WithinTries, NoCall
<1>5. CopiesWereLost
  BY DEF FallbacksInit, CopiesWereLost
<1> QED BY <1>2, <1>4, <1>5 DEF FallbackInv

\* A step of one call leaves what holds of the others.
LEMMA OtherCalls ==
  ASSUME FallbackInv, NEW c \in Calls, FallbackShape',
         \A d \in Calls \ {c} : call'[d] = call[d] /\ tried'[d] = tried[d] /\ copies'[d] = copies[d],
         /\ call'[c].at <= call'[c].route /\ call'[c].step <= Steps(call'[c].kind, call'[c].at)
         /\ call'[c].attempt <= Tries(call'[c].kind)
         /\ call'[c].stage = "backoff" => call'[c].attempt < Tries(call'[c].kind)
         /\ call'[c].kind = "upload" => call'[c].route = 1
         /\ call'[c].kind # "upload" => copies'[c] = 0
         /\ copies'[c] <= call'[c].attempt
         /\ call'[c].stage = "asking" => copies'[c] < call'[c].attempt
         /\ call'[c].stage = "idle" => copies'[c] = 0,
         /\ call'[c].stage \in {"idle", "asking", "backoff"} /\ copies'[c] >= 1
              => \E i \in 1..Len(tried'[c]) : tried'[c][i].lost
         /\ copies'[c] > 1 => \E i \in 1..Len(tried'[c]) - 1 : tried'[c][i].lost
  PROVE  FallbackInv'
<1>1. WithinTries'
  BY DEF FallbackInv, WithinTries
<1>2. CopiesWereLost'
  BY DEF FallbackInv, CopiesWereLost
<1> QED BY <1>1, <1>2 DEF FallbackInv

\* What the invariant says of one call.
LEMMA OneCall ==
  ASSUME FallbackInv, NEW c \in Calls
  PROVE  /\ call[c] \in CallType /\ tried[c] \in Seq(TryType) /\ copies[c] \in Nat
         /\ call[c].stage \in CallStages /\ call[c].kind \in CallKinds /\ call[c].route \in 1..3
         /\ call[c].at \in 1..3 /\ call[c].attempt \in 1..MaxAttempts /\ call[c].step \in 1..2
         /\ call[c].found \in BOOLEAN
BY DEF FallbackInv, FallbackShape, CallType

\* A try that is over is remembered, after those before it.
LEMMA TryOverKept ==
  ASSUME FallbackInv, NEW c \in Calls, NEW outcome \in TryOutcomes, NEW lost \in BOOLEAN, TryOver(c, outcome, lost)
  PROVE  /\ tried' \in [Calls -> Seq(TryType)]
         /\ \A d \in Calls \ {c} : tried'[d] = tried[d]
         /\ Len(tried'[c]) = Len(tried[c]) + 1 /\ Len(tried[c]) \in Nat
         /\ \A i \in 1..Len(tried[c]) : tried'[c][i] = tried[c][i]
         /\ tried'[c][Len(tried[c]) + 1].lost = lost
<1> DEFINE e == [at |-> call[c].at, outcome |-> outcome, lost |-> lost, whole |-> LastStep(c)]
<1>1. LastStep(c) \in BOOLEAN
  BY DEF LastStep
<1>2. e \in TryType /\ e.lost = lost
  BY <1>1, OneCall DEF TryType
<1> HIDE DEF e
<1>3. tried' = [tried EXCEPT ![c] = Append(tried[c], e)]
  BY DEF TryOver, e
<1>4. tried \in [Calls -> Seq(TryType)] /\ tried[c] \in Seq(TryType)
  BY DEF FallbackInv, FallbackShape
<1>5. /\ Append(tried[c], e) \in Seq(TryType) /\ Len(Append(tried[c], e)) = Len(tried[c]) + 1
      /\ Len(tried[c]) \in Nat
      /\ \A i \in 1..Len(tried[c]) : Append(tried[c], e)[i] = tried[c][i]
      /\ Append(tried[c], e)[Len(tried[c]) + 1] = e
  BY <1>2, <1>4
<1> QED BY <1>2, <1>3, <1>4, <1>5

\* Another document in the store, if the call is an upload.
LEMMA StoredType ==
  ASSUME FallbackInv, NEW c \in Calls, copies' \in {copies, Stored(c)}
  PROVE  /\ copies' \in [Calls -> Nat] /\ \A d \in Calls \ {c} : copies'[d] = copies[d]
         /\ copies'[c] \in Nat /\ copies'[c] <= copies[c] + 1
         /\ call[c].kind # "upload" => copies'[c] = copies[c]
BY DEF Stored, FallbackInv, FallbackShape

\* A call that is given up, or answered, where it is.
LEMMA CallStops ==
  ASSUME NEW c \in Calls, FallbackInv, NEW stage \in {"answered", "failed", "backoff"},
         call' = [call EXCEPT ![c].stage = stage]
  PROVE  /\ call' \in [Calls -> CallType] /\ \A d \in Calls \ {c} : call'[d] = call[d]
         /\ call'[c].stage = stage /\ call'[c].kind = call[c].kind /\ call'[c].route = call[c].route
         /\ call'[c].at = call[c].at /\ call'[c].attempt = call[c].attempt /\ call'[c].step = call[c].step
<1>1. stage \in CallStages
  BY DEF CallStages
<1> QED BY <1>1 DEF FallbackInv, FallbackShape, CallType

\* After a try is over, the call stops, waits, or goes to its next candidate:
\* of an upload, which has none, no document is unaccounted for.
LEMMA TryEnds ==
  ASSUME FallbackInv, NEW c \in Calls, Asking(c), NEW outcome \in TryOutcomes, NEW lost \in BOOLEAN,
         TryOver(c, outcome, lost), copies' \in {copies, Stored(c)},
         \/ call' = [call EXCEPT ![c].stage = "answered"]
         \/ call' = [call EXCEPT ![c].stage = "failed"]
         \/ call' = [call EXCEPT ![c].stage = "backoff"] /\ ~LastAttempt(c) /\ (copies' = copies \/ lost)
         \/ call' = NextCandidate(c)
  PROVE  FallbackInv'
<1> DEFINE n == Len(tried[c])
<1>1. /\ tried' \in [Calls -> Seq(TryType)] /\ \A d \in Calls \ {c} : tried'[d] = tried[d]
      /\ Len(tried'[c]) = n + 1 /\ n \in Nat
      /\ \A i \in 1..n : tried'[c][i] = tried[c][i]
      /\ tried'[c][n + 1].lost = lost
  BY TryOverKept
<1>2. /\ copies' \in [Calls -> Nat] /\ \A d \in Calls \ {c} : copies'[d] = copies[d]
      /\ copies'[c] \in Nat /\ copies'[c] <= copies[c] + 1 /\ copies[c] \in Nat
      /\ call[c].kind # "upload" => copies'[c] = copies[c]
  BY StoredType, OneCall
<1>3. /\ call[c].stage = "asking" /\ call[c].attempt \in Nat /\ copies[c] < call[c].attempt
      /\ call[c].at <= call[c].route /\ call[c].step <= Steps(call[c].kind, call[c].at)
      /\ call[c].attempt <= Tries(call[c].kind)
      /\ call[c].kind = "upload" => call[c].route = 1
      /\ call[c].kind # "upload" => copies[c] = 0
  BY OneCall DEF FallbackInv, WithinTries, Asking
<1>4. copies'[c] > 1 => \E i \in 1..n : tried'[c][i].lost
  <2> SUFFICES ASSUME copies'[c] > 1 PROVE \E i \in 1..n : tried'[c][i].lost
    OBVIOUS
  <2>1. copies[c] >= 1
    BY <1>2
  <2>2. \E i \in 1..n : tried[c][i].lost
    BY <1>3, <2>1 DEF FallbackInv, CopiesWereLost
  <2> QED BY <1>1, <2>2
<1>5. copies'[c] >= 1 /\ copies' = copies => \E i \in 1..n : tried'[c][i].lost
  BY <1>1, <1>3 DEF FallbackInv, CopiesWereLost
<1>6. copies'[c] >= 1 /\ (copies' = copies \/ lost) => \E i \in 1..Len(tried'[c]) : tried'[c][i].lost
  BY <1>1, <1>5
<1>7. copies'[c] > 1 => \E i \in 1..Len(tried'[c]) - 1 : tried'[c][i].lost
  BY <1>1, <1>4
<1>8. copies'[c] <= call[c].attempt
  BY <1>2, <1>3
<1> HIDE DEF n
<1>9. ASSUME NEW stage \in {"answered", "failed", "backoff"}, call' = [call EXCEPT ![c].stage = stage],
             stage = "backoff" => ~LastAttempt(c) /\ (copies' = copies \/ lost)
      PROVE  FallbackInv'
  <2>1. /\ call' \in [Calls -> CallType] /\ \A d \in Calls \ {c} : call'[d] = call[d]
        /\ call'[c].stage = stage /\ call'[c].kind = call[c].kind /\ call'[c].route = call[c].route
        /\ call'[c].at = call[c].at /\ call'[c].attempt = call[c].attempt /\ call'[c].step = call[c].step
    BY <1>9, CallStops
  <2>2. FallbackShape'
    BY <1>1, <1>2, <2>1 DEF FallbackShape
  <2>3. stage = "backoff" => call[c].attempt < Tries(call[c].kind)
    BY <1>3, <1>9, OneCall, TriesAndSteps DEF LastAttempt
  <2>4. WithinTries'
    BY <1>2, <1>3, <1>8, <2>1, <2>3 DEF FallbackInv, WithinTries
  <2>5. CopiesWereLost'
    <3> SUFFICES ASSUME NEW d \in Calls
                 PROVE  /\ call'[d].stage \in {"idle", "asking", "backoff"} /\ copies'[d] >= 1
                             => \E i \in 1..Len(tried'[d]) : tried'[d][i].lost
                        /\ copies'[d] > 1 => \E i \in 1..Len(tried'[d]) - 1 : tried'[d][i].lost
      BY DEF CopiesWereLost
    <3>1. CASE d = c
      BY <1>6, <1>7, <1>9, <2>1, <3>1
    <3>2. CASE d # c
      <4>1. call'[d] = call[d] /\ tried'[d] = tried[d] /\ copies'[d] = copies[d]
        BY <1>1, <1>2, <2>1, <3>2
      <4> QED BY <4>1 DEF FallbackInv, CopiesWereLost
    <3> QED BY <3>1, <3>2
  <2> QED BY <2>2, <2>4, <2>5 DEF FallbackInv
<1>10. ASSUME call' = NextCandidate(c), call[c].at < call[c].route
       PROVE  FallbackInv'
  <2> DEFINE new == [stage |-> "asking", kind |-> call[c].kind, route |-> call[c].route, at |-> call[c].at + 1,
                     attempt |-> 1, step |-> 1, found |-> FALSE]
  <2>1. call' = [call EXCEPT ![c] = new]
    BY <1>10 DEF NextCandidate
  <2>2. call[c].at + 1 \in 1..3 /\ call[c].at + 1 <= call[c].route /\ 1 \in 1..MaxAttempts /\ "asking" \in CallStages
    BY <1>10, OneCall, FallbacksAssumption DEF CallStages
  <2>3. new \in CallType /\ new.kind = call[c].kind /\ new.route = call[c].route /\ new.at = call[c].at + 1
        /\ new.attempt = 1 /\ new.step = 1 /\ new.stage = "asking"
    BY <2>2, OneCall DEF CallType
  <2> HIDE DEF new
  <2>4. call' \in [Calls -> CallType] /\ call'[c] = new /\ \A d \in Calls \ {c} : call'[d] = call[d]
    BY <2>1, <2>3 DEF FallbackInv, FallbackShape
  <2>5. call[c].kind # "upload" /\ copies'[c] = 0
    BY <1>2, <1>3, <1>10, OneCall
  <2>6. 1 <= Steps(new.kind, new.at) /\ 1 <= Tries(new.kind)
    BY <2>2, <2>3, OneCall, TriesAndSteps
  <2>7. FallbackShape'
    BY <1>1, <1>2, <2>4 DEF FallbackShape
  <2>8. WithinTries'
    BY <1>2, <2>2, <2>3, <2>4, <2>5, <2>6 DEF FallbackInv, WithinTries
  <2>9. CopiesWereLost'
    <3> SUFFICES ASSUME NEW d \in Calls
                 PROVE  /\ call'[d].stage \in {"idle", "asking", "backoff"} /\ copies'[d] >= 1
                             => \E i \in 1..Len(tried'[d]) : tried'[d][i].lost
                        /\ copies'[d] > 1 => \E i \in 1..Len(tried'[d]) - 1 : tried'[d][i].lost
      BY DEF CopiesWereLost
    <3>1. CASE d = c
      BY <2>5, <3>1
    <3>2. CASE d # c
      <4>1. call'[d] = call[d] /\ tried'[d] = tried[d] /\ copies'[d] = copies[d]
        BY <1>1, <1>2, <2>4, <3>2
      <4> QED BY <4>1 DEF FallbackInv, CopiesWereLost
    <3> QED BY <3>1, <3>2
  <2> QED BY <2>7, <2>8, <2>9 DEF FallbackInv
<1>11. CASE call' = NextCandidate(c) /\ ~(call[c].at < call[c].route)
  BY <1>9, <1>11 DEF NextCandidate
<1> QED BY <1>9, <1>10, <1>11

LEMMA BeginCallInv ==
  ASSUME FallbackInv, NEW c \in Calls, NEW kind \in CallKinds, NEW route \in Routes(kind), BeginCall(c, kind, route)
  PROVE  FallbackInv'
<1> DEFINE new == [stage |-> "asking", kind |-> kind, route |-> route, at |-> 1,
                   attempt |-> 1, step |-> 1, found |-> FALSE]
<1>1. call' = [call EXCEPT ![c] = new] /\ UNCHANGED <<tried, copies>> /\ call[c].stage = "idle"
  BY DEF BeginCall
<1>2. route \in 1..3 /\ 1 \in 1..3 /\ 1 \in 1..MaxAttempts /\ "asking" \in CallStages
      /\ (kind = "upload" => route = 1)
  BY TriesAndSteps, FallbacksAssumption DEF CallStages
<1>3. new \in CallType /\ new.kind = kind /\ new.route = route /\ new.at = 1
      /\ new.attempt = 1 /\ new.step = 1 /\ new.stage = "asking"
  BY <1>2 DEF CallType
<1> HIDE DEF new
<1>4. call' \in [Calls -> CallType] /\ call'[c] = new /\ \A d \in Calls \ {c} : call'[d] = call[d]
  BY <1>1, <1>3 DEF FallbackInv, FallbackShape
<1>5. copies[c] = 0
  BY <1>1, OneCall DEF FallbackInv, WithinTries
<1>6. 1 <= Steps(kind, 1) /\ 1 <= Tries(kind)
  BY <1>2, TriesAndSteps
<1>7. FallbackShape'
  BY <1>1, <1>4 DEF FallbackInv, FallbackShape
<1> QED BY <1>1, <1>2, <1>3, <1>4, <1>5, <1>6, <1>7, OtherCalls

\* The next step of a try has no answer yet that could be lost.
LEMMA StepAnsweredInv ==
  ASSUME FallbackInv, NEW c \in Calls, NEW hasRows \in BOOLEAN, StepAnswered(c, hasRows)
  PROVE  FallbackInv'
<1> DEFINE stepped == [call EXCEPT ![c].step = @ + 1]
<1>1. call' = [stepped EXCEPT ![c].found = hasRows] /\ UNCHANGED <<tried, copies>>
  BY DEF StepAnswered
<1>2. call[c].step + 1 \in 1..2 /\ call[c].step + 1 <= Steps(call[c].kind, call[c].at)
  BY OneCall, TriesAndSteps DEF StepAnswered, LastStep, FallbackInv, WithinTries
<1>3. /\ stepped \in [Calls -> CallType] /\ \A d \in Calls \ {c} : stepped[d] = call[d]
      /\ stepped[c].stage = call[c].stage /\ stepped[c].kind = call[c].kind /\ stepped[c].route = call[c].route
      /\ stepped[c].at = call[c].at /\ stepped[c].attempt = call[c].attempt /\ stepped[c].step = call[c].step + 1
  BY <1>2 DEF FallbackInv, FallbackShape, CallType
<1> HIDE DEF stepped
<1>4. /\ call' \in [Calls -> CallType] /\ \A d \in Calls \ {c} : call'[d] = call[d]
      /\ call'[c].stage = call[c].stage /\ call'[c].kind = call[c].kind /\ call'[c].route = call[c].route
      /\ call'[c].at = call[c].at /\ call'[c].attempt = call[c].attempt /\ call'[c].step = call[c].step + 1
  BY <1>1, <1>3 DEF CallType
<1>5. FallbackShape'
  BY <1>1, <1>4 DEF FallbackInv, FallbackShape
<1>6. WithinTries'
  BY <1>1, <1>2, <1>4 DEF FallbackInv, WithinTries
<1>7. CopiesWereLost'
  BY <1>1, <1>4 DEF FallbackInv, CopiesWereLost
<1> QED BY <1>5, <1>6, <1>7 DEF FallbackInv

LEMMA RetryCallInv ==
  ASSUME FallbackInv, NEW c \in Calls, RetryCall(c)
  PROVE  FallbackInv'
<1> DEFINE asked == [call EXCEPT ![c].stage = "asking"]
           counted == [asked EXCEPT ![c].attempt = @ + 1]
<1>1. call' = [counted EXCEPT ![c].step = 1] /\ UNCHANGED <<tried, copies>> /\ call[c].stage = "backoff"
  BY DEF RetryCall
<1>2. /\ call[c].attempt < Tries(call[c].kind) /\ call[c].attempt + 1 \in 1..MaxAttempts
      /\ 1 <= Steps(call[c].kind, call[c].at) /\ call[c].attempt + 1 <= Tries(call[c].kind)
      /\ call[c].attempt \in Nat /\ copies[c] \in Nat
  <2>1. call[c].attempt < Tries(call[c].kind)
    BY <1>1 DEF FallbackInv, WithinTries
  <2>2. Tries(call[c].kind) \in 1..MaxAttempts /\ Steps(call[c].kind, call[c].at) \in 1..2
    BY OneCall, TriesAndSteps
  <2>3. call[c].attempt \in 1..MaxAttempts /\ copies[c] \in Nat
    BY OneCall
  <2> QED BY <2>1, <2>2, <2>3, FallbacksAssumption
<1>3. /\ asked \in [Calls -> CallType] /\ \A d \in Calls \ {c} : asked[d] = call[d]
      /\ asked[c].stage = "asking" /\ asked[c].kind = call[c].kind /\ asked[c].route = call[c].route
      /\ asked[c].at = call[c].at /\ asked[c].attempt = call[c].attempt
  BY DEF FallbackInv, FallbackShape, CallType, CallStages
<1> HIDE DEF asked
<1>4. /\ counted \in [Calls -> CallType] /\ \A d \in Calls \ {c} : counted[d] = call[d]
      /\ counted[c].stage = "asking" /\ counted[c].kind = call[c].kind /\ counted[c].route = call[c].route
      /\ counted[c].at = call[c].at /\ counted[c].attempt = call[c].attempt + 1
  BY <1>2, <1>3 DEF CallType
<1> HIDE DEF counted
<1>5. /\ call' \in [Calls -> CallType] /\ \A d \in Calls \ {c} : call'[d] = call[d]
      /\ call'[c].stage = "asking" /\ call'[c].kind = call[c].kind /\ call'[c].route = call[c].route
      /\ call'[c].at = call[c].at /\ call'[c].attempt = call[c].attempt + 1 /\ call'[c].step = 1
  BY <1>1, <1>4 DEF CallType
<1>6. FallbackShape'
  BY <1>1, <1>5 DEF FallbackInv, FallbackShape
<1>7. WithinTries'
  BY <1>1, <1>2, <1>5 DEF FallbackInv, WithinTries
<1>8. CopiesWereLost'
  BY <1>1, <1>5 DEF FallbackInv, CopiesWereLost
<1> QED BY <1>6, <1>7, <1>8 DEF FallbackInv

LEMMA FallbackStepInv == FallbackInv /\ [FallbacksNext]_fallbackVars => FallbackInv'
<1> SUFFICES ASSUME FallbackInv, [FallbacksNext]_fallbackVars PROVE FallbackInv'
  OBVIOUS
<1>1. CASE UNCHANGED fallbackVars
  BY <1>1 DEF fallbackVars, FallbackInv, FallbackShape, WithinTries, CopiesWereLost
<1>2. ASSUME NEW c \in Calls, CallAnswered(c) PROVE FallbackInv'
  BY <1>2, TryEnds DEF CallAnswered, TryOutcomes
<1>3. ASSUME NEW c \in Calls, NoProducts(c) PROVE FallbackInv'
  BY <1>3, TryEnds DEF NoProducts, TryOutcomes
<1>4. ASSUME NEW c \in Calls, Refused(c) PROVE FallbackInv'
  BY <1>4, TryEnds DEF Refused, TryOutcomes
<1>5. ASSUME NEW c \in Calls, NEW lost \in BOOLEAN, Troubled(c, lost) PROVE FallbackInv'
  BY <1>5, TryEnds DEF Troubled, TryOutcomes
<1>6. ASSUME NEW c \in Calls, Unreadable(c) PROVE FallbackInv'
  BY <1>6, TryEnds DEF Unreadable, TryOutcomes
<1>7. CASE FallbacksNext
  BY <1>2, <1>3, <1>4, <1>5, <1>6, <1>7, BeginCallInv, StepAnsweredInv, RetryCallInv DEF FallbacksNext
<1> QED BY <1>1, <1>7

LEMMA FallbackInvImplies == FallbackInv => FallbacksTypeOK /\ DuplicatesAreLostAnswers
<1> SUFFICES ASSUME FallbackInv PROVE FallbacksTypeOK /\ DuplicatesAreLostAnswers
  OBVIOUS
<1>1. copies \in [Calls -> 0..MaxAttempts]
  BY OneCall, FallbacksAssumption DEF FallbackInv, FallbackShape, WithinTries
<1>2. \A c \in Calls : \A i \in 1..Len(tried[c]) : tried[c][i] \in TryType
  BY DEF FallbackInv, FallbackShape
<1>3. FallbacksTypeOK
  BY <1>1, <1>2 DEF FallbackInv, FallbackShape, FallbacksTypeOK, CallType, TryType
<1> QED BY <1>3 DEF FallbackInv, CopiesWereLost, DuplicatesAreLostAnswers

(* A call stays within its candidates, its attempts and its steps, and a   *)
(* store has no more copies from it than its attempts (llm_gateway.py,     *)
(* gemini_client.py, gemini_file_search.py, _load_products_best_effort).   *)
THEOREM FallbacksTypeCorrect == FallbacksSpec => []FallbacksTypeOK
BY FallbackInitInv, FallbackStepInv, FallbackInvImplies, PTL DEF FallbacksSpec

(* For any number of retries: a call leaves a document twice in a store    *)
(* only if the answer to an earlier try was lost                           *)
(* (upload_document_to_store).                                             *)
THEOREM FallbacksDuplicatesLost == FallbacksSpec => []DuplicatesAreLostAnswers
BY FallbackInitInv, FallbackStepInv, FallbackInvImplies, PTL DEF FallbacksSpec

\* The tries of a call, as a sequence, at a candidate; and whether the i-th
\* used its candidate up.
TriesAt(t, at, i) == Cardinality({j \in 1..i : t[j].at = at})
Spent(t, kind, i) ==
  \/ t[i].outcome \in {"refused", "empty"}
  \/ t[i].outcome = "retry" /\ TriesAt(t, t[i].at, i) = Tries(kind)

(* The tries t of a call r follow each other as they should, and r stands  *)
(* where the last one has left it.                                         *)
TriesFollow(r, t) ==
  LET n == Len(t) IN
  /\ \A i \in 1..n : t[i].at <= r.at
  /\ \A i \in 1..n-1 : t[i+1].at = t[i].at + IF Spent(t, r.kind, i) THEN 1 ELSE 0
  /\ \A i \in 1..n : t[i].outcome = "answer" => i = n /\ t[i].whole /\ r.stage = "answered"
  /\ r.stage = "idle" => n = 0
  /\ r.stage = "asking" => TriesAt(t, r.at, n) + 1 = r.attempt
  /\ r.stage = "asking" /\ n > 0 => r.at = t[n].at + IF Spent(t, r.kind, n) THEN 1 ELSE 0
  /\ r.stage = "backoff" => n > 0 /\ r.at = t[n].at /\ TriesAt(t, r.at, n) = r.attempt /\ ~Spent(t, r.kind, n)
  /\ r.stage = "failed" => n > 0 /\ (t[n].outcome = "unreadable" \/ (t[n].at = r.route /\ Spent(t, r.kind, n)))

EarnedInv == FallbackInv /\ \A c \in Calls : TriesFollow(call[c], tried[c])

\* One more try counts for its candidate, and leaves what was before it.
LEMMA OneMoreTry ==
  ASSUME NEW t \in Seq(TryType), NEW e \in TryType, NEW kind \in CallKinds
  PROVE  /\ Append(t, e) \in Seq(TryType) /\ Len(t) \in Nat /\ Len(Append(t, e)) = Len(t) + 1
         /\ Append(t, e)[Len(t) + 1] = e /\ \A i \in 1..Len(t) : Append(t, e)[i] = t[i]
         /\ \A i \in 1..Len(t) : Spent(Append(t, e), kind, i) <=> Spent(t, kind, i)
         /\ \A at \in 1..3 : /\ TriesAt(t, at, Len(t)) \in Nat
                             /\ TriesAt(Append(t, e), at, Len(t) + 1) = TriesAt(t, at, Len(t)) + IF e.at = at THEN 1 ELSE 0
<1> DEFINE more == Append(t, e)
           n == Len(t)
<1>1. /\ more \in Seq(TryType) /\ n \in Nat /\ Len(more) = n + 1 /\ more[n + 1] = e
      /\ \A i \in 1..n : more[i] = t[i]
  OBVIOUS
<1> HIDE DEF more, n
<1>2. ASSUME NEW at \in 1..3, NEW i \in 1..n PROVE TriesAt(more, at, i) = TriesAt(t, at, i)
  <2>1. \A j \in 1..i : more[j] = t[j]
    BY <1>1
  <2>2. {j \in 1..i : more[j].at = at} = {j \in 1..i : t[j].at = at}
    BY <2>1
  <2> QED BY <2>2 DEF TriesAt
<1>3. ASSUME NEW i \in 1..n PROVE Spent(more, kind, i) <=> Spent(t, kind, i)
  <2>1. more[i] = t[i] /\ t[i] \in TryType
    BY <1>1 DEF n
  <2>2. t[i].at \in 1..3
    BY <2>1 DEF TryType
  <2> QED BY <1>2, <2>1, <2>2 DEF Spent
<1>4. ASSUME NEW at \in 1..3
      PROVE  /\ TriesAt(t, at, n) \in Nat
             /\ TriesAt(more, at, n + 1) = TriesAt(t, at, n) + IF e.at = at THEN 1 ELSE 0
  <2> DEFINE S == {j \in 1..n : t[j].at = at}
             S1 == {j \in 1..(n + 1) : more[j].at = at}
  <2>1. IsFiniteSet(1..n) /\ S \subseteq 1..n
    <3>1. 1 \in Int /\ n \in Int
      BY <1>1
    <3> QED BY <3>1, FS_Interval
  <2>2. IsFiniteSet(S) /\ Cardinality(S) \in Nat
    BY <2>1, FS_Subset, FS_CardinalityType
  <2>5. TriesAt(t, at, n) = Cardinality(S) /\ TriesAt(more, at, n + 1) = Cardinality(S1)
    BY DEF TriesAt
  <2>6. n + 1 \notin S
    BY <1>1, <2>1
  <2>3. CASE e.at = at
    <3>1. S1 = S \union {n + 1} /\ n + 1 \notin S
      BY <1>1, <2>3
    <3>2. Cardinality(S1) = Cardinality(S) + 1
      BY <2>2, <3>1, FS_AddElement
    <3> QED BY <2>2, <2>3, <2>5, <3>2
  <2>4. CASE e.at # at
    <3>1. S1 = S
      BY <1>1, <2>4
    <3>2. Cardinality(S1) = Cardinality(S)
      BY <3>1
    <3> HIDE DEF S, S1
    <3> QED BY <2>2, <2>4, <2>5, <3>2
  <2> QED BY <2>3, <2>4
<1> QED BY <1>1, <1>3, <1>4 DEF more, n

\* The calls of an EarnedInv, one by one.
LEMMA OthersFollow ==
  ASSUME EarnedInv, FallbackInv', NEW c \in Calls,
         \A d \in Calls \ {c} : call'[d] = call[d] /\ tried'[d] = tried[d],
         TriesFollow(call'[c], tried'[c])
  PROVE  EarnedInv'
<1>1. ASSUME NEW d \in Calls PROVE TriesFollow(call'[d], tried'[d])
  <2>1. CASE d = c
    BY <2>1
  <2>2. CASE d # c
    <3>1. call'[d] = call[d] /\ tried'[d] = tried[d] /\ TriesFollow(call[d], tried[d])
      BY <2>2 DEF EarnedInv
    <3> QED BY <3>1
  <2> QED BY <2>1, <2>2
<1> QED BY <1>1 DEF EarnedInv

\* What a try that is over adds, for the call as it was.
LEMMA TryFollows ==
  ASSUME EarnedInv, NEW c \in Calls, Asking(c), NEW outcome \in TryOutcomes, NEW lost \in BOOLEAN,
         TryOver(c, outcome, lost)
  PROVE  LET n == Len(tried'[c]) IN
         /\ n \in Nat /\ n > 0 /\ tried'[c][n].at = call[c].at /\ tried'[c][n].outcome = outcome
         /\ tried'[c][n].whole = LastStep(c)
         /\ \A d \in Calls \ {c} : tried'[d] = tried[d]
         /\ \A i \in 1..n : tried'[c][i].at <= call[c].at
         /\ \A i \in 1..n-1 : tried'[c][i+1].at = tried'[c][i].at + IF Spent(tried'[c], call[c].kind, i) THEN 1 ELSE 0
         /\ \A i \in 1..n : tried'[c][i].outcome = "answer" => i = n
         /\ TriesAt(tried'[c], call[c].at, n) = call[c].attempt
         /\ call[c].at < 3 => TriesAt(tried'[c], call[c].at + 1, n) = 0
<1> DEFINE e == [at |-> call[c].at, outcome |-> outcome, lost |-> lost, whole |-> LastStep(c)]
<1>1. PICK t \in Seq(TryType) : t = tried[c]
  BY OneCall DEF EarnedInv
<1>2. PICK r \in CallType : r = call[c]
  BY OneCall DEF EarnedInv
<1>3. /\ r.at \in 1..3 /\ r.attempt \in Nat /\ r.kind \in CallKinds /\ r.stage = "asking"
      /\ TriesFollow(r, t)
  BY <1>1, <1>2 DEF CallType, Asking, EarnedInv
<1>4. LastStep(c) \in BOOLEAN
  BY DEF LastStep
<1>5. e \in TryType /\ e.at = r.at /\ e.outcome = outcome /\ e.whole = LastStep(c)
  BY <1>2, <1>3, <1>4 DEF TryType
<1> HIDE DEF e
<1>6. tried'[c] = Append(t, e) /\ \A d \in Calls \ {c} : tried'[d] = tried[d]
  <2>1. tried' = [tried EXCEPT ![c] = Append(tried[c], e)]
    BY DEF TryOver, e
  <2>2. tried \in [Calls -> Seq(TryType)]
    BY DEF EarnedInv, FallbackInv, FallbackShape
  <2> QED BY <1>1, <2>1, <2>2
<1>7. PICK n \in Nat : n = Len(t)
  BY <1>1
<1>8. PICK more \in Seq(TryType) :
        /\ more = Append(t, e) /\ Len(more) = n + 1 /\ more[n + 1] = e /\ \A i \in 1..n : more[i] = t[i]
        /\ \A i \in 1..n : Spent(more, r.kind, i) <=> Spent(t, r.kind, i)
        /\ \A at \in 1..3 : /\ TriesAt(t, at, n) \in Nat
                            /\ TriesAt(more, at, n + 1) = TriesAt(t, at, n) + IF e.at = at THEN 1 ELSE 0
  <2>1. /\ Append(t, e) \in Seq(TryType) /\ Len(Append(t, e)) = Len(t) + 1
        /\ Append(t, e)[Len(t) + 1] = e /\ \A i \in 1..Len(t) : Append(t, e)[i] = t[i]
        /\ \A i \in 1..Len(t) : Spent(Append(t, e), r.kind, i) <=> Spent(t, r.kind, i)
        /\ \A at \in 1..3 : /\ TriesAt(t, at, Len(t)) \in Nat
                            /\ TriesAt(Append(t, e), at, Len(t) + 1) = TriesAt(t, at, Len(t)) + IF e.at = at THEN 1 ELSE 0
    BY <1>3, <1>5, OneMoreTry
  <2> QED BY <1>7, <2>1
<1>9. \A i \in 1..(n + 1) : i = n + 1 \/ i \in 1..n
  OBVIOUS
<1>10. \A i \in 1..n : t[i].at <= r.at /\ t[i].outcome # "answer"
  BY <1>3, <1>7 DEF TriesFollow
<1>11. \A i \in 1..(n + 1) : more[i].at <= r.at /\ (more[i].outcome = "answer" => i = n + 1)
  BY <1>3, <1>5, <1>8, <1>9, <1>10
<1>12. ASSUME NEW i \in 1..n PROVE more[i+1].at = more[i].at + IF Spent(more, r.kind, i) THEN 1 ELSE 0
  <2>1. CASE i = n
    <3>1. r.at = t[n].at + IF Spent(t, r.kind, n) THEN 1 ELSE 0
      BY <1>3, <1>7, <2>1 DEF TriesFollow
    <3>2. more[n + 1].at = r.at /\ more[n] = t[n] /\ (Spent(more, r.kind, n) <=> Spent(t, r.kind, n))
      BY <1>5, <1>8, <2>1
    <3> QED BY <2>1, <3>1, <3>2
  <2>2. CASE i # n
    <3>1. i \in 1..n-1 /\ i + 1 \in 1..n
      BY <2>2
    <3>2. t[i+1].at = t[i].at + IF Spent(t, r.kind, i) THEN 1 ELSE 0
      BY <1>3, <1>7, <3>1 DEF TriesFollow
    <3> QED BY <1>8, <3>1, <3>2
  <2> QED BY <2>1, <2>2
<1>13. TriesAt(more, r.at, n + 1) = r.attempt
  <2>1. TriesAt(t, r.at, n) + 1 = r.attempt
    BY <1>3, <1>7 DEF TriesFollow
  <2> QED BY <1>3, <1>5, <1>8, <2>1
<1>14. ASSUME r.at < 3 PROVE TriesAt(more, r.at + 1, n + 1) = 0
  <2>1. \A i \in 1..(n + 1) : more[i].at # r.at + 1
    <3>1. \A i \in 1..(n + 1) : more[i].at \in Nat
      <4>1. \A i \in 1..(n + 1) : more[i] \in TryType
        BY <1>8
      <4> QED BY <4>1 DEF TryType
    <3> QED BY <1>3, <1>11, <3>1
  <2>2. {j \in 1..(n + 1) : more[j].at = r.at + 1} = {}
    BY <2>1
  <2> QED BY <2>2, FS_EmptySet DEF TriesAt
<1>15. tried'[c] = more /\ Len(tried'[c]) = n + 1 /\ n + 1 \in Nat /\ n + 1 > 0 /\ (n + 1) - 1 = n
  BY <1>6, <1>8
<1> QED BY <1>2, <1>5, <1>6, <1>8, <1>11, <1>12, <1>13, <1>14, <1>15

\* After a try, a call that has used its candidate up goes to the next one.
LEMMA NextFollows ==
  ASSUME EarnedInv, FallbackInv', NEW c \in Calls, Asking(c), NEW outcome \in TryOutcomes \ {"answer"},
         NEW lost \in BOOLEAN, TryOver(c, outcome, lost), call' = NextCandidate(c),
         outcome = "retry" => call[c].attempt = Tries(call[c].kind),
         outcome # "unreadable"
  PROVE  EarnedInv'
<1>1. PICK n \in Nat : n = Len(tried'[c]) /\ n > 0
  BY TryFollows
<1>2. /\ tried'[c][n].at = call[c].at /\ tried'[c][n].outcome = outcome
      /\ \A d \in Calls \ {c} : tried'[d] = tried[d]
      /\ \A i \in 1..n : tried'[c][i].at <= call[c].at
      /\ \A i \in 1..n-1 : tried'[c][i+1].at = tried'[c][i].at + IF Spent(tried'[c], call[c].kind, i) THEN 1 ELSE 0
      /\ \A i \in 1..n : tried'[c][i].outcome # "answer"
      /\ TriesAt(tried'[c], call[c].at, n) = call[c].attempt
      /\ call[c].at < 3 => TriesAt(tried'[c], call[c].at + 1, n) = 0
  BY <1>1, TryFollows
<1>3. Spent(tried'[c], call[c].kind, n)
  BY <1>2 DEF Spent, TryOutcomes
<1>4. /\ call[c].at \in 1..3 /\ call[c].route \in 1..3 /\ call[c].at <= call[c].route
      /\ call \in [Calls -> CallType] /\ call[c] \in CallType
      /\ \A i \in 1..n : tried'[c][i].at \in Nat
  <2>1. tried'[c] \in Seq(TryType)
    BY DEF FallbackInv, FallbackShape
  <2>2. \A i \in 1..n : tried'[c][i].at \in Nat
    <3>1. \A i \in 1..n : tried'[c][i] \in TryType
      BY <1>1, <2>1
    <3> QED BY <3>1 DEF TryType
  <2> QED BY <2>2, OneCall DEF EarnedInv, FallbackInv, FallbackShape, WithinTries
<1>5. CASE call[c].at < call[c].route
  <2> DEFINE new == [stage |-> "asking", kind |-> call[c].kind, route |-> call[c].route, at |-> call[c].at + 1,
                     attempt |-> 1, step |-> 1, found |-> FALSE]
  <2>1. call'[c] = new /\ \A d \in Calls \ {c} : call'[d] = call[d]
    BY <1>4, <1>5 DEF NextCandidate
  <2>2. new.stage = "asking" /\ new.kind = call[c].kind /\ new.at = call[c].at + 1 /\ new.attempt = 1
    OBVIOUS
  <2> HIDE DEF new
  <2>3. \A i \in 1..n : tried'[c][i].at <= call[c].at + 1
    BY <1>2, <1>4
  <2>4. TriesAt(tried'[c], new.at, n) + 1 = new.attempt
    BY <1>2, <1>4, <1>5, <2>2
  <2>5. TriesFollow(new, tried'[c])
    BY <1>1, <1>2, <1>3, <2>2, <2>3, <2>4 DEF TriesFollow
  <2> QED BY <1>2, <2>1, <2>5, OthersFollow
<1>6. CASE ~(call[c].at < call[c].route)
  <2>1. PICK stage \in {"answered", "failed"} : call' = [call EXCEPT ![c].stage = stage]
    BY <1>6 DEF NextCandidate
  <2>2. /\ call'[c].stage = stage /\ call'[c].kind = call[c].kind /\ call'[c].at = call[c].at
        /\ call'[c].route = call[c].route /\ \A d \in Calls \ {c} : call'[d] = call[d]
    BY <1>4, <2>1 DEF CallType
  <2>3. call[c].at = call[c].route
    BY <1>4, <1>6
  <2>4. TriesFollow(call'[c], tried'[c])
    BY <1>1, <1>2, <1>3, <2>2, <2>3 DEF TriesFollow
  <2> QED BY <1>2, <2>2, <2>4, OthersFollow
<1> QED BY <1>5, <1>6

\* After a try, a call stops or waits where it is.
LEMMA StopFollows ==
  ASSUME EarnedInv, FallbackInv', NEW c \in Calls, Asking(c), NEW outcome \in {"answer", "unreadable", "retry"},
         NEW lost \in BOOLEAN, TryOver(c, outcome, lost),
         NEW stage \in {"answered", "failed", "backoff"}, call' = [call EXCEPT ![c].stage = stage],
         stage = "answered" <=> outcome = "answer",
         stage = "failed" <=> outcome = "unreadable",
         stage = "backoff" => call[c].attempt # Tries(call[c].kind),
         outcome = "answer" => LastStep(c)
  PROVE  EarnedInv'
<1>0. outcome \in TryOutcomes
  BY DEF TryOutcomes
<1>1. PICK n \in Nat : n = Len(tried'[c]) /\ n > 0
  BY <1>0, TryFollows
<1>2. /\ tried'[c][n].at = call[c].at /\ tried'[c][n].outcome = outcome /\ tried'[c][n].whole = LastStep(c)
      /\ \A d \in Calls \ {c} : tried'[d] = tried[d]
      /\ \A i \in 1..n : tried'[c][i].at <= call[c].at
      /\ \A i \in 1..n-1 : tried'[c][i+1].at = tried'[c][i].at + IF Spent(tried'[c], call[c].kind, i) THEN 1 ELSE 0
      /\ \A i \in 1..n : tried'[c][i].outcome = "answer" => i = n
      /\ TriesAt(tried'[c], call[c].at, n) = call[c].attempt
  BY <1>0, <1>1, TryFollows
<1>3. call \in [Calls -> CallType]
  BY DEF EarnedInv, FallbackInv, FallbackShape
<1>4. /\ call'[c].stage = stage /\ call'[c].kind = call[c].kind /\ call'[c].at = call[c].at
      /\ call'[c].route = call[c].route /\ call'[c].attempt = call[c].attempt
      /\ \A d \in Calls \ {c} : call'[d] = call[d]
  BY <1>3 DEF CallType
<1>5. stage = "backoff" => ~Spent(tried'[c], call[c].kind, n)
  BY <1>2 DEF Spent
<1>6. TriesFollow(call'[c], tried'[c])
  BY <1>1, <1>2, <1>4, <1>5 DEF TriesFollow
<1> QED BY <1>2, <1>4, <1>6, OthersFollow

LEMMA EarnedStep == EarnedInv /\ [FallbacksNext]_fallbackVars => EarnedInv'
<1> SUFFICES ASSUME EarnedInv, [FallbacksNext]_fallbackVars PROVE EarnedInv'
  OBVIOUS
<1>0. FallbackInv' /\ call \in [Calls -> CallType]
  BY FallbackStepInv DEF EarnedInv, FallbackInv, FallbackShape
<1>1. CASE UNCHANGED fallbackVars
  BY <1>0, <1>1 DEF fallbackVars, EarnedInv
<1>2. ASSUME NEW c \in Calls, CallAnswered(c) PROVE EarnedInv'
  BY <1>0, <1>2, StopFollows DEF CallAnswered
<1>3. ASSUME NEW c \in Calls, NoProducts(c) PROVE EarnedInv'
  BY <1>0, <1>3, NextFollows DEF NoProducts, TryOutcomes
<1>4. ASSUME NEW c \in Calls, Refused(c) PROVE EarnedInv'
  BY <1>0, <1>4, NextFollows DEF Refused, TryOutcomes
<1>5. ASSUME NEW c \in Calls, NEW lost \in BOOLEAN, Troubled(c, lost) PROVE EarnedInv'
  <2>1. CASE LastAttempt(c)
    BY <1>0, <1>5, <2>1, NextFollows DEF Troubled, TryOutcomes, LastAttempt
  <2>2. CASE ~LastAttempt(c)
    BY <1>0, <1>5, <2>2, StopFollows DEF Troubled, LastAttempt
  <2> QED BY <2>1, <2>2
<1>6. ASSUME NEW c \in Calls, Unreadable(c) PROVE EarnedInv'
  BY <1>0, <1>6, StopFollows DEF Unreadable
<1>7. ASSUME NEW c \in Calls, NEW kind \in CallKinds, NEW route \in Routes(kind), BeginCall(c, kind, route)
      PROVE  EarnedInv'
  <2> DEFINE new == [stage |-> "asking", kind |-> kind, route |-> route, at |-> 1,
                     attempt |-> 1, step |-> 1, found |-> FALSE]
  <2>1. call'[c] = new /\ (\A d \in Calls \ {c} : call'[d] = call[d]) /\ tried' = tried /\ call[c].stage = "idle"
    BY <1>0, <1>7 DEF BeginCall
  <2>2. Len(tried[c]) = 0
    BY <2>1 DEF EarnedInv, TriesFollow
  <2>3. new.stage = "asking" /\ new.kind = kind /\ new.at = 1 /\ new.attempt = 1
    OBVIOUS
  <2> HIDE DEF new
  <2>4. TriesAt(tried[c], 1, 0) = 0
    <3>1. {j \in 1..0 : tried[c][j].at = 1} = {}
      OBVIOUS
    <3> QED BY <3>1, FS_EmptySet DEF TriesAt
  <2>5. TriesFollow(new, tried[c])
    BY <2>2, <2>3, <2>4 DEF TriesFollow
  <2> QED BY <1>0, <2>1, <2>5, OthersFollow
<1>8. ASSUME NEW c \in Calls, NEW hasRows \in BOOLEAN, StepAnswered(c, hasRows) PROVE EarnedInv'
  <2>1. /\ call'[c].stage = call[c].stage /\ call'[c].kind = call[c].kind /\ call'[c].at = call[c].at
        /\ call'[c].route = call[c].route /\ call'[c].attempt = call[c].attempt
        /\ \A d \in Calls \ {c} : call'[d] = call[d]
    <3> DEFINE stepped == [call EXCEPT ![c].step = @ + 1]
    <3>1. call' = [stepped EXCEPT ![c].found = hasRows] /\ call[c] \in CallType
      BY <1>0, <1>8 DEF StepAnswered
    <3>2. /\ stepped[c] = [call[c] EXCEPT !.step = @ + 1] /\ DOMAIN stepped = Calls
          /\ \A d \in Calls \ {c} : stepped[d] = call[d]
      BY <1>0
    <3> HIDE DEF stepped
    <3>3. call'[c] = [stepped[c] EXCEPT !.found = hasRows] /\ \A d \in Calls \ {c} : call'[d] = call[d]
      BY <3>1, <3>2
    <3> QED BY <3>1, <3>2, <3>3 DEF CallType
  <2>2. tried' = tried /\ TriesFollow(call[c], tried[c])
    BY <1>8 DEF StepAnswered, EarnedInv
  <2>3. TriesFollow(call'[c], tried[c])
    BY <2>1, <2>2 DEF TriesFollow
  <2> QED BY <1>0, <2>1, <2>2, <2>3, OthersFollow
<1>9. ASSUME NEW c \in Calls, RetryCall(c) PROVE EarnedInv'
  <2>1. PICK r \in CallType : r = call[c] /\ r.attempt \in Nat
    BY <1>0 DEF CallType
  <2>2. /\ call'[c] = [r EXCEPT !.stage = "asking", !.attempt = r.attempt + 1, !.step = 1]
        /\ \A d \in Calls \ {c} : call'[d] = call[d]
    BY <1>0, <1>9, <2>1 DEF RetryCall
  <2>3. /\ call'[c].stage = "asking" /\ call'[c].kind = r.kind /\ call'[c].at = r.at
        /\ call'[c].route = r.route /\ call'[c].attempt = r.attempt + 1
    BY <2>1, <2>2 DEF CallType
  <2>4. tried' = tried /\ TriesFollow(r, tried[c]) /\ r.stage = "backoff"
    BY <1>9, <2>1 DEF RetryCall, EarnedInv
  <2>5. /\ Len(tried[c]) > 0 /\ r.at = tried[c][Len(tried[c])].at
        /\ TriesAt(tried[c], r.at, Len(tried[c])) = r.attempt /\ ~Spent(tried[c], r.kind, Len(tried[c]))
    BY <2>4 DEF TriesFollow
  <2>6. tried[c][Len(tried[c])].at \in Nat
    BY <2>1, <2>5 DEF CallType
  <2>7. TriesFollow(call'[c], tried[c])
    <3>1. /\ r.at = tried[c][Len(tried[c])].at + 0 /\ TriesAt(tried[c], r.at, Len(tried[c])) + 1 = r.attempt + 1
          /\ \A i \in 1..Len(tried[c]) : tried[c][i].outcome # "answer"
      BY <2>4, <2>5, <2>6 DEF TriesFollow
    <3> QED BY <2>3, <2>4, <2>5, <3>1 DEF TriesFollow
  <2> QED BY <1>0, <2>2, <2>4, <2>7, OthersFollow
<1>10. CASE FallbacksNext
  BY <1>2, <1>3, <1>4, <1>5, <1>6, <1>7, <1>8, <1>9, <1>10 DEF FallbacksNext
<1> QED BY <1>1, <1>10

LEMMA EarnedInit == FallbacksInit => EarnedInv
<1> SUFFICES ASSUME FallbacksInit PROVE EarnedInv
  OBVIOUS
<1>1. FallbackInv
  BY FallbackInitInv
<1>2. ASSUME NEW c \in Calls PROVE TriesFollow(call[c], tried[c])
  <2>1. tried[c] = <<>> /\ call[c].stage = "idle"
    BY DEF FallbacksInit, NoCall
  <2> QED BY <2>1 DEF TriesFollow
<1> QED BY <1>1, <1>2 DEF EarnedInv

LEMMA EarnedImplies == EarnedInv => FailoverEarned
<1> SUFFICES ASSUME EarnedInv, NEW c \in Calls
             PROVE  LET n == Len(tried[c]) IN
                    /\ \A i \in 1..n-1 : tried[c][i+1].at = tried[c][i].at + IF UsedUp(c, i) THEN 1 ELSE 0
                    /\ call[c].stage = "failed" =>
                         tried[c][n].outcome = "unreadable" \/ (tried[c][n].at = call[c].route /\ UsedUp(c, n))
                    /\ \A i \in 1..n : tried[c][i].outcome = "answer" => i = n /\ tried[c][i].whole
  BY DEF FailoverEarned
<1>1. \A i : UsedUp(c, i) <=> Spent(tried[c], call[c].kind, i)
  BY DEF UsedUp, Spent, TriesOf, TriesAt
<1>2. TriesFollow(call[c], tried[c])
  BY DEF EarnedInv
<1> QED BY <1>1, <1>2 DEF TriesFollow

(* For any number of attempts: no candidate is skipped, given up early or  *)
(* tried too often, a failed call has tried them all or got an answer that *)
(* can not be read, and an answer is a whole one (LLMGateway.generate,     *)
(* GeminiClient.search, GeminiFileSearchClient, upload_document_to_store,  *)
(* _load_products_best_effort).                                            *)
THEOREM FallbacksFailoverEarned == FallbacksSpec => []FailoverEarned
BY EarnedInit, EarnedStep, EarnedImplies, PTL DEF FallbacksSpec

-----------------------------------------------------------------------------
AskerType == [stage : AskerStages, type : Types, id : Ids, failed : BOOLEAN]

\* An entry of a batch type has all there is; only such entries ever expire.
EntriesAreWhole ==
  /\ \A t \in kept \cap BatchTypes : known[t] = existing[t]
  /\ valid \subseteq kept \cap BatchTypes
  /\ \A a \in Askers : asker[a].stage = "loading" => asker[a].type \in BatchTypes

LabelsInv == LabelsTypeOK /\ EntriesAreWhole /\ KnownIsLabelled

LEMMA LabelsInitInv == LabelsInit => LabelsInv
<1> SUFFICES ASSUME LabelsInit PROVE LabelsInv
  OBVIOUS
<1>1. (CHOOSE i \in Ids : TRUE) \in Ids
  BY LabelsAssumption
<1>2. LabelsTypeOK
  BY <1>1 DEF LabelsInit, LabelsTypeOK, AskerStages, Types, BatchTypes, OnDemandTypes
<1>3. EntriesAreWhole /\ KnownIsLabelled
  BY DEF LabelsInit, EntriesAreWhole, KnownIsLabelled, Types
<1> QED BY <1>2, <1>3 DEF LabelsInv

\* What holds of the asker that has moved and of the entries, holds.
LEMMA AskerMoves ==
  ASSUME LabelsInv, NEW a \in Askers, NEW r \in AskerType, asker' = [asker EXCEPT ![a] = r],
         r.stage = "loading" => r.type \in BatchTypes,
         r.stage = "numbered" /\ ~r.failed /\ r.type # "folders" => r.id \notin existing[r.type],
         UNCHANGED existing, kept' \subseteq Types, known' \in [Types -> SUBSET Ids],
         \A t \in kept' \cap BatchTypes : known'[t] = existing[t],
         valid' \subseteq kept' \cap BatchTypes
  PROVE  LabelsInv'
<1>1. asker' \in [Askers -> AskerType] /\ asker'[a] = r /\ \A b \in Askers \ {a} : asker'[b] = asker[b]
  BY DEF LabelsInv, LabelsTypeOK, AskerType
<1>2. LabelsTypeOK'
  BY <1>1 DEF LabelsInv, LabelsTypeOK, AskerType
<1>3. EntriesAreWhole'
  BY <1>1 DEF LabelsInv, EntriesAreWhole
<1>4. KnownIsLabelled'
  BY <1>1 DEF LabelsInv, KnownIsLabelled
<1> QED BY <1>2, <1>3, <1>4 DEF LabelsInv

\* The parts of the invariant that a step of an asker alone keeps.
LEMMA EntriesKept ==
  ASSUME LabelsInv, UNCHANGED <<existing, kept, valid, known>>
  PROVE  /\ UNCHANGED existing /\ kept' \subseteq Types /\ known' \in [Types -> SUBSET Ids]
         /\ \A t \in kept' \cap BatchTypes : known'[t] = existing[t]
         /\ valid' \subseteq kept' \cap BatchTypes
BY DEF LabelsInv, LabelsTypeOK, EntriesAreWhole

LEMMA AnswersMove ==
  ASSUME LabelsInv, NEW a \in Askers, NEW t \in Types, NEW i \in Ids, NEW failed \in BOOLEAN, NEW labelled,
         Answers(a, t, i, failed, labelled),
         ~failed /\ t # "folders" /\ i \notin labelled => i \notin existing[t],
         UNCHANGED existing, kept' \subseteq Types, known' \in [Types -> SUBSET Ids],
         \A u \in kept' \cap BatchTypes : known'[u] = existing[u],
         valid' \subseteq kept' \cap BatchTypes
  PROVE  LabelsInv'
<1> DEFINE r == [stage |-> IF i \in labelled THEN "named" ELSE "numbered", type |-> t, id |-> i, failed |-> failed]
<1>1. r \in AskerType /\ r.stage # "loading"
  BY DEF AskerType, AskerStages
<1>2. r.stage = "numbered" /\ ~r.failed /\ r.type # "folders" => r.id \notin existing[r.type]
  OBVIOUS
<1>3. asker' = [asker EXCEPT ![a] = r]
  BY DEF Answers
<1> HIDE DEF r
<1> QED BY <1>1, <1>2, <1>3, AskerMoves

LEMMA AwaitsMove ==
  ASSUME LabelsInv, NEW a \in Askers, NEW t \in Types, NEW i \in Ids, NEW failed \in BOOLEAN,
         NEW stage \in {"contact", "loading", "single"}, Awaits(a, stage, t, i, failed),
         stage = "loading" => t \in BatchTypes, UNCHANGED <<existing, kept, valid, known>>
  PROVE  LabelsInv'
<1> DEFINE r == [stage |-> stage, type |-> t, id |-> i, failed |-> failed]
<1>1. r \in AskerType /\ r.stage # "numbered" /\ (r.stage = "loading" => r.type \in BatchTypes)
  BY DEF AskerType, AskerStages
<1>2. asker' = [asker EXCEPT ![a] = r]
  BY DEF Awaits
<1> HIDE DEF r
<1> QED BY <1>1, <1>2, AskerMoves, EntriesKept

\* An entry that answers has a name for all there is; otherwise it is loaded or fetched.
LEMMA LabelInv ==
  ASSUME LabelsInv, NEW a \in Askers, NEW t \in Types, NEW i \in Ids, NEW failed \in BOOLEAN,
         Label(a, t, i, failed), UNCHANGED <<existing, kept, valid, known>>
  PROVE  LabelsInv'
<1>1. valid \subseteq kept \cap BatchTypes /\ \A u \in valid : known[u] = existing[u]
  BY DEF LabelsInv, EntriesAreWhole
<1>2. CASE t \in valid
  <2>1. Answers(a, t, i, failed, known[t])
    BY <1>1, <1>2 DEF Label, BatchTypes
  <2> QED BY <1>1, <1>2, <2>1, AnswersMove, EntriesKept
<1>3. CASE t \in OnDemandTypes /\ i \in known[t]
  <2>1. Answers(a, t, i, failed, known[t])
    BY <1>3 DEF Label, BatchTypes, OnDemandTypes
  <2> QED BY <1>3, <2>1, AnswersMove, EntriesKept
<1>4. CASE t \in BatchTypes \ valid
  <2>1. Awaits(a, "loading", t, i, failed)
    BY <1>4 DEF Label, BatchTypes, OnDemandTypes
  <2> QED BY <1>4, <2>1, AwaitsMove
<1>5. CASE t = "folders" /\ i \notin known[t]
  <2>1. Answers(a, t, i, failed, {})
    BY <1>1, <1>5 DEF Label, BatchTypes, OnDemandTypes
  <2> QED BY <1>5, <2>1, AnswersMove, EntriesKept
<1>6. CASE t = "contacts" /\ i \notin known[t]
  <2>1. Awaits(a, "single", t, i, failed)
    BY <1>1, <1>6 DEF Label, BatchTypes, OnDemandTypes
  <2> QED BY <2>1, AwaitsMove
<1> QED BY <1>2, <1>3, <1>4, <1>5, <1>6 DEF Types, OnDemandTypes

\* Who is asked for is an identifier, and a batch type is loaded.
LEMMA AskerParts ==
  ASSUME LabelsInv, NEW a \in Askers
  PROVE  /\ asker[a].id \in Ids /\ asker[a].type \in Types /\ asker[a].failed \in BOOLEAN
         /\ asker[a].stage = "loading" => asker[a].type \in BatchTypes
BY DEF LabelsInv, LabelsTypeOK, EntriesAreWhole

\* A contact that was found is known from now on; what expires is not touched.
LEMMA FetchedKeeps ==
  ASSUME LabelsInv, NEW i \in Ids, Fetched("contacts", i)
  PROVE  /\ UNCHANGED existing /\ kept' \subseteq Types /\ known' \in [Types -> SUBSET Ids]
         /\ \A t \in kept' \cap BatchTypes : known'[t] = existing[t]
         /\ valid' \subseteq kept' \cap BatchTypes
BY DEF LabelsInv, LabelsTypeOK, EntriesAreWhole, Fetched, Types, BatchTypes, OnDemandTypes

LEMMA GetLabelInv ==
  ASSUME LabelsInv, NEW a \in Askers, NEW i \in Ids,
         GetRequesterLabel(a, i) \/ \E t \in Types : GetLabel(a, t, i)
  PROVE  LabelsInv'
<1>1. "contacts" \in Types
  BY DEF Types, OnDemandTypes
<1>2. CASE GetRequesterLabel(a, i)
  BY <1>1, <1>2, AwaitsMove DEF GetRequesterLabel
<1>3. CASE \E t \in Types : GetLabel(a, t, i)
  BY <1>3, LabelInv DEF GetLabel
<1> QED BY <1>2, <1>3

LEMMA RequesterFetchedInv ==
  ASSUME LabelsInv, NEW a \in Askers, NEW ok \in BOOLEAN, RequesterFetched(a, ok)
  PROVE  LabelsInv'
<1> DEFINE i == asker[a].id
<1>1. i \in Ids /\ "contacts" \in Types /\ "agents" \in Types /\ (~ok) \in BOOLEAN
  BY AskerParts DEF Types, OnDemandTypes, BatchTypes
<1>2. CASE ok /\ i \in existing["contacts"]
  <2>1. Fetched("contacts", i) /\ Answers(a, "contacts", i, FALSE, {i})
    BY <1>2 DEF RequesterFetched
  <2> HIDE DEF i
  <2> QED BY <1>1, <2>1, FetchedKeeps, AnswersMove
<1>3. CASE ~(ok /\ i \in existing["contacts"])
  <2>1. Label(a, "agents", i, ~ok) /\ UNCHANGED <<existing, kept, valid, known>>
    BY <1>3 DEF RequesterFetched
  <2> HIDE DEF i
  <2> QED BY <1>1, <2>1, LabelInv
<1> QED BY <1>2, <1>3

\* A contact without a name was not found, or its own request failed.
LEMMA SingleFetchedInv ==
  ASSUME LabelsInv, NEW a \in Askers, NEW ok \in BOOLEAN, SingleFetched(a, ok)
  PROVE  LabelsInv'
<1> DEFINE i == asker[a].id
<1>1. i \in Ids /\ "contacts" \in Types /\ (~ok) \in BOOLEAN
  BY AskerParts DEF Types, OnDemandTypes
<1>2. CASE ok /\ i \in existing["contacts"]
  <2>1. Fetched("contacts", i) /\ Answers(a, "contacts", i, FALSE, {i})
    BY <1>2 DEF SingleFetched
  <2> HIDE DEF i
  <2> QED BY <1>1, <2>1, FetchedKeeps, AnswersMove
<1>3. CASE ~(ok /\ i \in existing["contacts"])
  <2>1. Answers(a, "contacts", i, ~ok, {}) /\ UNCHANGED <<existing, kept, valid, known>>
    BY <1>3 DEF SingleFetched
  <2>2. ~(~ok) => i \notin existing["contacts"]
    BY <1>3
  <2> HIDE DEF i
  <2> QED BY <1>1, <2>1, <2>2, EntriesKept, AnswersMove
<1> QED BY <1>2, <1>3

\* An entry that is evicted is gone as a whole; the new one has all there is.
LEMMA LoadEndsInv ==
  ASSUME LabelsInv, NEW a \in Askers, NEW evicted \in Types, LoadEnds(a, evicted)
  PROVE  LabelsInv'
<1> DEFINE t == asker[a].type
<1>1. t \in BatchTypes /\ t \in Types /\ asker[a].id \in Ids /\ asker[a].failed \in BOOLEAN
  BY AskerParts DEF LoadEnds
<1>2. PICK out \in {{}, {evicted}} :
        /\ kept' = (kept \ out) \union {t} /\ valid' = (valid \ out) \union {t}
        /\ known' = [u \in Types |-> IF u = t THEN existing[t] ELSE IF u \in out THEN {} ELSE known[u]]
  BY DEF LoadEnds, CacheEntity
<1>3. UNCHANGED existing /\ Answers(a, t, asker[a].id, asker[a].failed, known'[t])
  BY DEF LoadEnds
<1> HIDE DEF t
<1>4. known'[t] = existing[t] /\ existing[t] \in SUBSET Ids
  BY <1>1, <1>2 DEF LabelsInv, LabelsTypeOK
<1>5. kept' \subseteq Types /\ known' \in [Types -> SUBSET Ids]
  BY <1>1, <1>2, <1>4 DEF LabelsInv, LabelsTypeOK
<1>6. \A u \in kept' \cap BatchTypes : known'[u] = existing[u]
  BY <1>2, <1>4, <1>5 DEF LabelsInv, EntriesAreWhole
<1>7. valid' \subseteq kept' \cap BatchTypes
  BY <1>1, <1>2 DEF LabelsInv, EntriesAreWhole
<1> QED BY <1>1, <1>3, <1>4, <1>5, <1>6, <1>7, AnswersMove

LEMMA LoadFailsInv == ASSUME LabelsInv, NEW a \in Askers, LoadFails(a) PROVE LabelsInv'
<1>1. Answers(a, asker[a].type, asker[a].id, TRUE, known[asker[a].type]) /\ UNCHANGED <<existing, kept, valid, known>>
  BY DEF LoadFails
<1>2. asker[a].type \in Types /\ asker[a].id \in Ids /\ TRUE \in BOOLEAN
  BY AskerParts
<1> QED BY <1>1, <1>2, EntriesKept, AnswersMove

LEMMA NextLabelInv == ASSUME LabelsInv, NEW a \in Askers, NextLabel(a) PROVE LabelsInv'
<1> DEFINE r == [asker[a] EXCEPT !.stage = "idle"]
<1>1. r \in AskerType /\ r.stage = "idle"
  BY DEF LabelsInv, LabelsTypeOK, AskerType, AskerStages
<1>2. asker' = [asker EXCEPT ![a] = r] /\ UNCHANGED <<existing, kept, valid, known>>
  BY DEF NextLabel
<1> HIDE DEF r
<1> QED BY <1>1, <1>2, EntriesKept, AskerMoves

LEMMA LabelsStepInv == LabelsInv /\ [LabelsNext]_labelVars => LabelsInv'
<1> SUFFICES ASSUME LabelsInv, [LabelsNext]_labelVars PROVE LabelsInv'
  OBVIOUS
<1>1. CASE UNCHANGED labelVars
  BY <1>1 DEF labelVars, LabelsInv, LabelsTypeOK, EntriesAreWhole, KnownIsLabelled
<1>2. ASSUME NEW t \in BatchTypes, EntryExpires(t) PROVE LabelsInv'
  BY <1>2 DEF EntryExpires, LabelsInv, LabelsTypeOK, EntriesAreWhole, KnownIsLabelled
<1>3. CASE LabelsNext
  BY <1>2, <1>3, GetLabelInv, RequesterFetchedInv, SingleFetchedInv, LoadEndsInv, LoadFailsInv, NextLabelInv
     DEF LabelsNext
<1> QED BY <1>1, <1>3

(* The entries of the mapper and those who ask it keep their types         *)
(* (entity_mapper.py).                                                     *)
THEOREM LabelsTypeCorrect == LabelsSpec => []LabelsTypeOK
<1>1. LabelsInv => LabelsTypeOK
  BY DEF LabelsInv
<1> QED BY <1>1, LabelsInitInv, LabelsStepInv, PTL DEF LabelsSpec

(* For any number of coroutines that ask, and any limit of the cache: a    *)
(* name is missing only if there is none, or the request for it failed     *)
(* (get_label, get_requester_label, _cache_entity).                        *)
THEOREM LabelsKnownIsLabelled == LabelsSpec => []KnownIsLabelled
<1>1. LabelsInv => KnownIsLabelled
  BY DEF LabelsInv
<1> QED BY <1>1, LabelsInitInv, LabelsStepInv, PTL DEF LabelsSpec

-----------------------------------------------------------------------------
USE DEF options, stores

UploadType ==
  [stage : {"batch", "fetch", "send", "ended"}, batch : 1..Batches, attempt : 1..BatchRetries,
   cursor : Keys, last : Keys, produced : Nat, page : SUBSET Keys, into : Stores]

ReuploadShape ==
  /\ writes \in 1..MaxWrites /\ updatedAt \in [Docs -> 0..writes] /\ blank \subseteq Docs
  /\ limit \in {0, BatchLimit} /\ wipeFirst \in BOOLEAN /\ createIfMissing \in BOOLEAN
  /\ upload \in UploadType /\ resume \in Keys /\ passedOver \subseteq Keys
  /\ IsFiniteSet(upload.page)

\* Nothing is sent to a store that was not created, and none is unless that is allowed.
StoresShape ==
  /\ newStores \in Stores /\ named \in 0..newStores /\ upload.into \in 0..newStores
  /\ stored \in [Stores -> SUBSET Keys]
  /\ ~createIfMissing => newStores = 0

\* Cursors are no later than the clock of the database: what is written next
\* comes after them.
CursorsArePast ==
  /\ resume[1] <= writes /\ upload.cursor[1] <= writes
  /\ upload.stage = "batch" => upload.last = NoKey
  /\ upload.stage \in {"fetch", "send"} => upload.last \in {NoKey, upload.cursor}
  /\ upload.stage = "send" => upload.last = upload.cursor

\* What is behind the cursor of a batch is in a store, but for the page to send.
CursorIsCovered ==
  /\ Behind(resume) \subseteq Held \union passedOver
  /\ upload.stage = "fetch" => Behind(upload.cursor) \subseteq Held \union passedOver
  /\ upload.stage = "send" =>
       Behind(upload.cursor) \subseteq Held \union passedOver \union WithText(upload.page)
  /\ limit = 0 => passedOver = {}

ReuploadInv == ReuploadShape /\ StoresShape /\ CursorsArePast /\ CursorIsCovered

\* A key of a document that is there: its stamp and its id.
LEMMA CurrentKeys ==
  ASSUME ReuploadShape
  PROVE  /\ Current \subseteq Keys /\ IsFiniteSet(Current)
         /\ \A k \in Current : /\ k[1] \in Nat /\ k[1] > 0 /\ k[1] <= writes /\ k[2] \in Docs
                               /\ k[2] \in Nat /\ k = <<k[1], k[2]>>
<1> DEFINE present == {e \in Docs : updatedAt[e] # 0}
<1>1. \A k \in Current : /\ k[1] \in Nat /\ k[1] > 0 /\ k[1] <= writes /\ k[2] \in Docs
                        /\ k[2] \in Nat /\ k = <<k[1], k[2]>>
  BY ReuploadAssumption DEF Current, ReuploadShape
<1>2. Current \subseteq Keys
  BY <1>1, ReuploadAssumption DEF Keys, ReuploadShape
<1>3. IsFiniteSet(present)
  BY FS_Subset, ReuploadAssumption
<1>4. IsFiniteSet({<<updatedAt[d], d>> : d \in present})
  <2> DEFINE f == [d \in present |-> <<updatedAt[d], d>>]
  <2>1. IsFiniteSet({f[d] : d \in present})
    <3> HIDE DEF f, present
    <3>1. f \in Surjection(present, {f[d] : d \in present})
      BY DEF Surjection, f
    <3> QED BY <1>3, <3>1, FS_Surjection
  <2>2. {f[d] : d \in present} = {<<updatedAt[d], d>> : d \in present}
    OBVIOUS
  <2> QED BY <2>1, <2>2
<1> QED BY <1>1, <1>2, <1>4 DEF Current

\* Nothing is behind the start.
LEMMA NothingBehindStart == ASSUME ReuploadShape PROVE Behind(NoKey) = {}
<1>1. \A k \in Current : Precedes(NoKey, k)
  BY CurrentKeys DEF Precedes, NoKey
<1> QED BY <1>1 DEF Behind, WithText

LEMMA StartedType ==
  /\ NoKey \in Keys /\ NoKey[1] = 0 /\ Started \in UploadType
  /\ Started.stage = "batch" /\ Started.last = NoKey /\ Started.cursor = NoKey /\ Started.page = {}
  /\ Started.into = 0
  /\ Stopped \in UploadType /\ Stopped.stage = "ended" /\ Stopped.cursor = NoKey /\ Stopped.page = {}
  /\ Stopped.into = 0
<1>1. NoKey \in Keys /\ NoKey[1] = 0
  BY ReuploadAssumption DEF NoKey, Keys
<1>2. 1 \in 1..Batches /\ 1 \in 1..BatchRetries
  BY ReuploadAssumption
<1>3. 0 \in Stores
  BY ReuploadAssumption DEF Stores
<1>4. /\ Started \in UploadType /\ Started.stage = "batch" /\ Started.last = NoKey
      /\ Started.cursor = NoKey /\ Started.page = {} /\ Started.into = 0
  BY <1>1, <1>2, <1>3 DEF Started, UploadType
<1> QED BY <1>1, <1>4 DEF Stopped, UploadType

\* A store takes what arrives, and the stores together lose nothing.
LEMMA ArriveGrows ==
  ASSUME StoresShape, NEW keys \in SUBSET Keys, Arrive(keys), newStores' = newStores
  PROVE  stored' \in [Stores -> SUBSET Keys] /\ Held \union keys \subseteq Held'
<1>1. newStores \in Nat /\ 0..newStores \subseteq Stores /\ upload.into \in 0..newStores
  BY ReuploadAssumption DEF StoresShape, Stores
<1>2. stored' = [stored EXCEPT ![upload.into] = stored[upload.into] \union keys]
  BY DEF Arrive
<1>3. \A s \in 0..newStores : stored[s] \subseteq stored'[s]
  BY <1>1, <1>2 DEF StoresShape
<1>4. keys \subseteq stored'[upload.into]
  BY <1>1, <1>2 DEF StoresShape
<1>5. Held' = UNION {stored'[s] : s \in 0..newStores}
  BY DEF Held
<1> QED BY <1>1, <1>2, <1>3, <1>4, <1>5 DEF Held, StoresShape

\* With no store but the first, all is in the one that is named.
LEMMA HeldInNamed == ASSUME StoresShape, newStores = 0 \/ ~createIfMissing PROVE Held = stored[named]
<1>1. newStores = 0 /\ named = 0 /\ 0..newStores = {0}
  BY DEF StoresShape
<1> QED BY <1>1 DEF Held

LEMMA ReuploadInitInv == ReuploadInit => ReuploadInv
<1> SUFFICES ASSUME ReuploadInit PROVE ReuploadInv
  OBVIOUS
<1>1. ReuploadShape
  BY StartedType, FS_EmptySet, ReuploadAssumption DEF ReuploadInit, ReuploadShape
<1>2. CursorsArePast
  BY StartedType DEF ReuploadInit, CursorsArePast
<1>3. CursorIsCovered
  BY <1>1, StartedType, NothingBehindStart DEF ReuploadInit, CursorIsCovered
<1>4. StoresShape
  BY StartedType, ReuploadAssumption DEF ReuploadInit, StoresShape, Stores
<1> QED BY <1>1, <1>2, <1>3, <1>4 DEF ReuploadInv

\* A page with a document has every document before it, of those after the cursor.
LEMMA PageIsClosed ==
  ASSUME ReuploadShape, NEW S \in SUBSET Current, NEW n \in Nat,
         NEW last \in FirstOf(n, S), NEW k \in S, Precedes(k, last)
  PROVE  k \in FirstOf(n, S)
<1> DEFINE before(l) == {m \in S : Precedes(m, l)}
<1>1. last \in S /\ Cardinality(before(last)) < n
  BY DEF FirstOf
<1>2. before(k) \subseteq before(last)
  <2> SUFFICES ASSUME NEW m \in S, Precedes(m, k) PROVE Precedes(m, last)
    OBVIOUS
  <2>1. m \in Current /\ k \in Current /\ last \in Current
    BY <1>1
  <2>2. /\ m = <<m[1], m[2]>> /\ k = <<k[1], k[2]>> /\ last = <<last[1], last[2]>>
        /\ m[1] \in Nat /\ m[2] \in Nat /\ k[1] \in Nat /\ k[2] \in Nat /\ last[1] \in Nat /\ last[2] \in Nat
    BY <2>1, CurrentKeys
  <2> QED BY <2>2 DEF Precedes
<1>3. IsFiniteSet(before(last)) /\ IsFiniteSet(before(k))
  BY <1>2, CurrentKeys, FS_Subset
<1>4. /\ Cardinality(before(k)) <= Cardinality(before(last))
      /\ Cardinality(before(k)) \in Nat /\ Cardinality(before(last)) \in Nat
  BY <1>2, <1>3, FS_Subset, FS_CardinalityType
<1>5. Cardinality(before(k)) < n
  BY <1>1, <1>4
<1> QED BY <1>5 DEF FirstOf

\* The next page and the documents behind the old cursor are all that is behind the new one.
LEMMA PageCovers ==
  ASSUME ReuploadShape, NEW cursor \in Keys, NEW last \in FetchDocuments(cursor),
         \A k \in FetchDocuments(cursor) : ~Precedes(last, k)
  PROVE  /\ FetchDocuments(cursor) \subseteq Current /\ last \in Keys /\ last[1] <= writes
         /\ Behind(last) \subseteq Behind(cursor) \union WithText(FetchDocuments(cursor))
<1>1. PageLimit \in Nat
  BY ReuploadAssumption DEF PageLimit, ReuploadShape
<1>2. After(cursor) \in SUBSET Current /\ FetchDocuments(cursor) \subseteq After(cursor)
  BY DEF After, FetchDocuments, FirstOf
<1>3. last \in Current /\ last \in Keys /\ last[1] <= writes
  BY <1>2, CurrentKeys
<1>4. ASSUME NEW k \in Behind(last), k \notin Behind(cursor)
      PROVE  k \in WithText(FetchDocuments(cursor))
  <2>1. k \in WithText(Current) /\ k \in Current /\ ~Precedes(last, k) /\ Precedes(cursor, k)
    BY <1>4 DEF Behind, WithText
  <2>2. k \in After(cursor)
    BY <2>1 DEF After
  <2>3. /\ k = <<k[1], k[2]>> /\ last = <<last[1], last[2]>>
        /\ k[1] \in Nat /\ k[2] \in Nat /\ last[1] \in Nat /\ last[2] \in Nat
    BY <1>3, <2>1, CurrentKeys
  <2>4. k = last \/ Precedes(k, last)
    <3>1. k[1] = last[1] /\ k[2] = last[2] => k = last
      BY <2>3
    <3>2. ~(last[1] < k[1] \/ (last[1] = k[1] /\ last[2] < k[2]))
      BY <2>1 DEF Precedes
    <3>3. (k[1] = last[1] /\ k[2] = last[2]) \/ k[1] < last[1] \/ (k[1] = last[1] /\ k[2] < last[2])
      BY <2>3, <3>2
    <3> QED BY <3>1, <3>3 DEF Precedes
  <2>5. k \in FetchDocuments(cursor)
    BY <1>1, <1>2, <2>2, <2>4, PageIsClosed DEF FetchDocuments
  <2> QED BY <2>1, <2>5 DEF WithText
<1> QED BY <1>2, <1>3, <1>4

\* A statement gives documents a later key than any cursor has.
LEMMA EditDocumentsInv ==
  ASSUME ReuploadInv, NEW edited \in SUBSET Docs, EditDocuments(edited)
  PROVE  ReuploadInv'
<1>1. /\ writes \in Nat /\ writes' = writes + 1 /\ writes' \in 1..MaxWrites
      /\ UNCHANGED <<blank, options, upload, resume, stores, passedOver>>
      /\ updatedAt' = [d \in Docs |-> IF d \in edited THEN writes' ELSE updatedAt[d]]
  BY ReuploadAssumption DEF EditDocuments, ReuploadInv, ReuploadShape
<1>2. updatedAt' \in [Docs -> 0..writes']
  BY <1>1 DEF ReuploadInv, ReuploadShape
<1>3. ReuploadShape' /\ StoresShape'
  BY <1>1, <1>2 DEF ReuploadInv, ReuploadShape, StoresShape
<1>4. /\ resume[1] \in Nat /\ upload.cursor[1] \in Nat
      /\ resume[1] <= writes /\ upload.cursor[1] <= writes
  BY DEF ReuploadInv, ReuploadShape, CursorsArePast, UploadType, Keys
<1>5. CursorsArePast'
  BY <1>1, <1>4 DEF ReuploadInv, CursorsArePast
<1>6. ASSUME NEW c \in {resume, upload.cursor}
      PROVE  Behind(c)' \subseteq Behind(c)
  <2> SUFFICES ASSUME NEW d \in Docs, updatedAt'[d] # 0, d \notin blank, ~Precedes(c, <<updatedAt'[d], d>>)
               PROVE  <<updatedAt'[d], d>> \in Behind(c)
    BY <1>1 DEF Behind, WithText, Current
  <2>1. d \notin edited
    BY <1>1, <1>4 DEF Precedes
  <2>2. updatedAt'[d] = updatedAt[d]
    BY <1>1, <2>1
  <2> QED BY <2>2 DEF Behind, WithText, Current
<1>7. Behind(resume)' \subseteq Behind(resume) /\ Behind(upload.cursor)' \subseteq Behind(upload.cursor)
  BY <1>1, <1>6
<1>8. CursorIsCovered'
  BY <1>1, <1>7 DEF ReuploadInv, CursorIsCovered, WithText, Held
<1> QED BY <1>3, <1>5, <1>8 DEF ReuploadInv

LEMMA RemoveDocumentInv ==
  ASSUME ReuploadInv, NEW d \in Docs, RemoveDocument(d)
  PROVE  ReuploadInv'
<1>1. /\ UNCHANGED <<writes, blank, options, upload, resume, stores, passedOver>>
      /\ updatedAt' = [updatedAt EXCEPT ![d] = 0]
  BY DEF RemoveDocument
<1>2. updatedAt' \in [Docs -> 0..writes']
  BY <1>1 DEF ReuploadInv, ReuploadShape
<1>3. ReuploadShape' /\ StoresShape' /\ CursorsArePast'
  BY <1>1, <1>2 DEF ReuploadInv, ReuploadShape, StoresShape, CursorsArePast
<1>4. Current' \subseteq Current
  BY <1>1 DEF Current, ReuploadInv, ReuploadShape
<1>5. Behind(resume)' \subseteq Behind(resume) /\ Behind(upload.cursor)' \subseteq Behind(upload.cursor)
  BY <1>1, <1>4 DEF Behind, WithText
<1>6. CursorIsCovered'
  BY <1>1, <1>5 DEF ReuploadInv, CursorIsCovered, WithText, Held
<1> QED BY <1>3, <1>6 DEF ReuploadInv

\* What is behind a key depends on the table alone.
LEMMA BehindKept ==
  ASSUME UNCHANGED <<updatedAt, blank>>
  PROVE  /\ Behind(resume)' = Behind(resume') /\ Behind(upload.cursor)' = Behind(upload'.cursor)
         /\ WithText(upload.page)' = WithText(upload'.page)
BY DEF Behind, WithText, Current

\* A batch that is given up leaves the resume point where it is.
LEMMA BatchRaisesInv ==
  ASSUME ReuploadInv, BatchRaises, UNCHANGED <<writes, updatedAt, blank, options, named, resume, passedOver>>,
         stored' \in [Stores -> SUBSET Keys], Held \subseteq Held' \/ resume = NoKey,
         newStores' \in Stores, newStores' = newStores \/ (createIfMissing /\ newStores' = newStores + 1)
  PROVE  ReuploadInv'
<1>1. /\ upload' \in UploadType /\ upload'.stage \in {"batch", "ended"} /\ upload'.page = {}
      /\ upload'.cursor \in {NoKey, upload.cursor} /\ (upload'.stage = "batch" => upload'.last = NoKey)
      /\ upload'.into \in {0, upload.into}
  <2>1. CASE upload.attempt < BatchRetries
    <3>1. upload' = [Started EXCEPT !.batch = upload.batch, !.attempt = upload.attempt + 1]
      BY <2>1 DEF BatchRaises
    <3>2. upload.batch \in 1..Batches /\ upload.attempt + 1 \in 1..BatchRetries
      BY <2>1, ReuploadAssumption DEF ReuploadInv, ReuploadShape, UploadType
    <3> QED BY <3>1, <3>2, StartedType DEF UploadType
  <2>2. CASE ~(upload.attempt < BatchRetries)
    BY <2>2, StartedType DEF BatchRaises
  <2> QED BY <2>1, <2>2
<1>2. ReuploadShape'
  BY <1>1, FS_EmptySet DEF ReuploadInv, ReuploadShape
<1>3. CursorsArePast' /\ StoresShape'
  BY <1>1, StartedType, ReuploadAssumption
  DEF ReuploadInv, ReuploadShape, CursorsArePast, StoresShape, Stores
<1>4. Behind(resume)' \subseteq Held' \union passedOver'
  <2>1. Behind(resume)' = Behind(resume)
    BY BehindKept
  <2>2. Behind(NoKey) = {}
    BY NothingBehindStart DEF ReuploadInv
  <2> QED BY <2>1, <2>2 DEF ReuploadInv, CursorIsCovered
<1>5. CursorIsCovered'
  BY <1>1, <1>4 DEF ReuploadInv, CursorIsCovered
<1> QED BY <1>2, <1>3, <1>5 DEF ReuploadInv

\* A batch that ends resumes at its last cursor, behind which all is covered.
LEMMA BatchEndsInv ==
  ASSUME ReuploadInv, BatchEnds, upload.stage \in {"fetch", "send"},
         UNCHANGED <<writes, updatedAt, blank, options, named, newStores>>,
         Held \subseteq Held', stored' \in [Stores -> SUBSET Keys],
         passedOver \subseteq passedOver', passedOver' \subseteq Keys,
         Behind(upload.cursor) \subseteq Held' \union passedOver', limit = 0 => passedOver' = {}
  PROVE  ReuploadInv'
<1>1. CASE upload.last = NoKey
  <2>1. upload' = Stopped /\ UNCHANGED resume
    BY <1>1 DEF BatchEnds
  <2>2. upload' \in UploadType /\ upload'.stage = "ended" /\ upload'.page = {} /\ upload'.cursor = NoKey
        /\ upload'.into = 0
    BY <2>1, StartedType
  <2>3. ReuploadShape' /\ StoresShape' /\ CursorsArePast'
    BY <2>1, <2>2, StartedType, FS_EmptySet, ReuploadAssumption DEF Stores, ReuploadInv, ReuploadShape, StoresShape, CursorsArePast
  <2>4. Behind(resume)' = Behind(resume)
    BY <2>1, BehindKept
  <2>5. CursorIsCovered'
    BY <2>2, <2>4 DEF ReuploadInv, CursorIsCovered
  <2> QED BY <2>3, <2>5 DEF ReuploadInv
<1>2. CASE upload.last # NoKey
  <2>1. resume' = upload.cursor /\ resume' \in Keys /\ resume'[1] <= writes
    BY <1>2 DEF BatchEnds, ReuploadInv, ReuploadShape, CursorsArePast, UploadType
  <2>2. /\ upload' \in UploadType /\ upload'.stage \in {"batch", "ended"} /\ upload'.page = {}
        /\ upload'.cursor \in {NoKey, upload.cursor} /\ (upload'.stage = "batch" => upload'.last = NoKey)
        /\ upload'.into \in {0, upload.into}
    <3>1. CASE upload.batch < Batches
      <4>1. upload' = [Started EXCEPT !.batch = upload.batch + 1]
        BY <1>2, <3>1 DEF BatchEnds
      <4>2. upload.batch + 1 \in 1..Batches
        BY <3>1, ReuploadAssumption DEF ReuploadInv, ReuploadShape, UploadType
      <4> QED BY <4>1, <4>2, StartedType DEF UploadType
    <3>2. CASE ~(upload.batch < Batches)
      BY <1>2, <3>2, StartedType DEF BatchEnds
    <3> QED BY <3>1, <3>2
  <2>3. ReuploadShape'
    BY <2>1, <2>2, FS_EmptySet DEF ReuploadInv, ReuploadShape
  <2>4. CursorsArePast' /\ StoresShape'
    BY <2>1, <2>2, StartedType, ReuploadAssumption
    DEF ReuploadInv, ReuploadShape, CursorsArePast, StoresShape, Stores
  <2>5. Behind(resume)' = Behind(upload.cursor)
    BY <2>1, BehindKept
  <2>6. CursorIsCovered'
    BY <2>2, <2>5 DEF CursorIsCovered
  <2> QED BY <2>3, <2>4, <2>6 DEF ReuploadInv
<1> QED BY <1>1, <1>2

\* Creating a store and leaving the others alone loses nothing.
LEMMA CreateGrows ==
  ASSUME StoresShape, newStores' \in {newStores, newStores + 1}, UNCHANGED stored
  PROVE  Held \subseteq Held'
<1>1. newStores \in Nat /\ 0..newStores \subseteq 0..newStores'
  BY ReuploadAssumption DEF StoresShape, Stores
<1>2. Held' = UNION {stored[s] : s \in 0..newStores'}
  BY DEF Held
<1> QED BY <1>1, <1>2 DEF Held

\* A store is emptied only when nothing is behind the resume point.
LEMMA StartBatchInv == ASSUME ReuploadInv, NEW found \in BOOLEAN, StartBatch(found) PROVE ReuploadInv'
<1> DEFINE into == IF found THEN named ELSE newStores'
<1>1. /\ upload.stage = "batch"
      /\ upload' = [upload EXCEPT !.stage = "fetch", !.cursor = resume, !.into = into]
      /\ stored' = (IF Wipes THEN [stored EXCEPT ![into] = {}] ELSE stored)
      /\ UNCHANGED <<writes, updatedAt, blank, options, named, resume, passedOver>>
  BY DEF StartBatch
<1>2. /\ newStores' \in Stores /\ newStores' \in {newStores, newStores + 1} /\ (~createIfMissing => newStores' = newStores)
      /\ into \in 0..newStores' /\ into \in Stores /\ named \in 0..newStores'
  BY ReuploadAssumption DEF StartBatch, MayCreate, ReuploadInv, StoresShape, Stores
<1> HIDE DEF into
<1>3. /\ upload' \in UploadType /\ upload'.stage = "fetch" /\ upload'.cursor = resume
      /\ upload'.last = upload.last /\ upload'.page = upload.page /\ upload'.into = into
  BY <1>1, <1>2 DEF ReuploadInv, ReuploadShape, UploadType
<1>4. ReuploadShape' /\ CursorsArePast'
  BY <1>1, <1>3 DEF ReuploadInv, ReuploadShape, CursorsArePast
<1>5. stored' \in [Stores -> SUBSET Keys]
  BY <1>1 DEF ReuploadInv, StoresShape
<1>6. StoresShape'
  BY <1>1, <1>2, <1>3, <1>5 DEF ReuploadInv, StoresShape
<1>7. Behind(resume) \subseteq Held' \union passedOver
  <2>1. CASE Wipes
    BY <2>1, NothingBehindStart DEF Wipes, ReuploadInv
  <2>2. CASE ~Wipes
    BY <1>1, <1>2, <2>2, CreateGrows DEF ReuploadInv, CursorIsCovered
  <2> QED BY <2>1, <2>2
<1>8. Behind(resume)' = Behind(resume) /\ Behind(upload.cursor)' = Behind(resume)
  BY <1>1, <1>3, BehindKept
<1>9. CursorIsCovered'
  BY <1>1, <1>3, <1>7, <1>8 DEF ReuploadInv, CursorIsCovered
<1> QED BY <1>4, <1>6, <1>9 DEF ReuploadInv

LEMMA StartFailsInv ==
  ASSUME ReuploadInv, NEW left \in SUBSET stored[named], NEW created \in BOOLEAN, StartFails(left, created)
  PROVE  ReuploadInv'
<1>1. /\ newStores' \in Stores /\ (newStores' = newStores \/ (createIfMissing /\ newStores' = newStores + 1))
      /\ named \in Stores /\ stored[named] \subseteq Keys
  BY ReuploadAssumption DEF StartFails, MayCreate, ReuploadInv, StoresShape, Stores
<1>2. stored' \in [Stores -> SUBSET Keys]
  BY <1>1 DEF StartFails, ReuploadInv, StoresShape
<1>3. Wipes => resume = NoKey
  BY DEF Wipes
<1>4. ~Wipes => UNCHANGED stored
  BY <1>1 DEF StartFails, ReuploadInv, StoresShape
<1>5. Held \subseteq Held' \/ resume = NoKey
  BY <1>1, <1>3, <1>4, CreateGrows DEF ReuploadInv
<1> QED BY <1>1, <1>2, <1>5, BatchRaisesInv DEF StartFails

LEMMA FetchPageInv ==
  ASSUME ReuploadInv, NEW last \in Current, FetchPage(last)
  PROVE  ReuploadInv'
<1> DEFINE page == FetchDocuments(upload.cursor)
<1>1. /\ upload.stage = "fetch" /\ last \in page /\ \A k \in page : ~Precedes(last, k)
      /\ upload' = [upload EXCEPT !.stage = "send", !.page = page, !.cursor = last, !.last = last]
      /\ UNCHANGED <<writes, updatedAt, blank, options, resume, stores, passedOver>>
  BY DEF FetchPage
<1>2. /\ upload.cursor \in Keys /\ ReuploadShape
  BY DEF ReuploadInv, ReuploadShape, UploadType
<1>3. /\ page \subseteq Current /\ last \in Keys /\ last[1] <= writes
      /\ Behind(last) \subseteq Behind(upload.cursor) \union WithText(page)
  BY <1>1, <1>2, PageCovers
<1>4. page \in SUBSET Keys /\ IsFiniteSet(page)
  BY <1>2, <1>3, CurrentKeys, FS_Subset
<1> HIDE DEF page
<1>5. /\ upload' \in UploadType /\ upload'.stage = "send" /\ upload'.page = page
      /\ upload'.cursor = last /\ upload'.last = last /\ upload'.into = upload.into
  BY <1>1, <1>3, <1>4 DEF ReuploadInv, ReuploadShape, UploadType
<1>6. ReuploadShape' /\ StoresShape' /\ CursorsArePast'
  BY <1>1, <1>3, <1>4, <1>5 DEF ReuploadInv, ReuploadShape, StoresShape, CursorsArePast
<1>7. /\ Behind(resume)' = Behind(resume) /\ Behind(upload.cursor)' = Behind(last)
      /\ WithText(upload.page)' = WithText(page)
  BY <1>1, <1>5, BehindKept
<1>8. CursorIsCovered'
  BY <1>1, <1>3, <1>5, <1>7 DEF ReuploadInv, CursorIsCovered, Held
<1> QED BY <1>6, <1>8 DEF ReuploadInv

LEMMA NoPageLeftInv == ASSUME ReuploadInv, NoPageLeft PROVE ReuploadInv'
<1>1. /\ UNCHANGED <<stores, passedOver>> /\ Held' = Held
      /\ stored \in [Stores -> SUBSET Keys] /\ passedOver \subseteq Keys
      /\ Behind(upload.cursor) \subseteq Held \union passedOver /\ (limit = 0 => passedOver = {})
  BY DEF NoPageLeft, ReuploadInv, ReuploadShape, StoresShape, CursorIsCovered, Held
<1> QED BY <1>1, BatchEndsInv DEF NoPageLeft

\* What is sent of a page are documents with contents, all of them if there is no limit.
LEMMA ToSendType ==
  ASSUME ReuploadInv
  PROVE  /\ ToSend \subseteq WithText(upload.page) /\ ToSend \subseteq Keys /\ WithText(upload.page) \subseteq Keys
         /\ limit = 0 => ToSend = WithText(upload.page)
         /\ Cardinality(ToSend) \in Nat
<1>1. WithText(upload.page) \subseteq upload.page /\ upload.page \subseteq Keys /\ IsFiniteSet(upload.page)
  BY DEF WithText, ReuploadInv, ReuploadShape, UploadType
<1>2. ToSend \subseteq WithText(upload.page)
  BY DEF ToSend, FirstOf
<1>3. IsFiniteSet(ToSend)
  BY <1>1, <1>2, FS_Subset
<1> QED BY <1>1, <1>2, <1>3, FS_CardinalityType DEF ToSend

LEMMA SendPageInv == ASSUME ReuploadInv, SendPage PROVE ReuploadInv'
<1> DEFINE texts == WithText(upload.page)
<1>1. /\ upload.stage = "send" /\ Arrive(ToSend)
      /\ UNCHANGED <<writes, updatedAt, blank, options, named, newStores>>
      /\ Behind(upload.cursor) \subseteq Held \union passedOver \union texts
      /\ Behind(resume) \subseteq Held \union passedOver /\ (limit = 0 => passedOver = {})
      /\ passedOver \subseteq Keys
  BY DEF SendPage, ReuploadInv, ReuploadShape, CursorIsCovered
<1>2. ToSend \subseteq texts /\ texts \subseteq Keys /\ (limit = 0 => ToSend = texts) /\ Cardinality(ToSend) \in Nat
  BY ToSendType
<1>a. stored' \in [Stores -> SUBSET Keys] /\ Held \union ToSend \subseteq Held'
  BY <1>1, <1>2, ArriveGrows DEF ReuploadInv
<1>3. CASE ToSend = texts
  <2>1. /\ upload' = [upload EXCEPT !.stage = "fetch", !.page = {}, !.produced = @ + Cardinality(ToSend)]
        /\ UNCHANGED <<resume, passedOver>>
    BY <1>3 DEF SendPage
  <2>2. upload.produced + Cardinality(ToSend) \in Nat
    BY <1>2 DEF ReuploadInv, ReuploadShape, UploadType
  <2>3. /\ upload' \in UploadType /\ upload'.stage = "fetch" /\ upload'.page = {}
        /\ upload'.cursor = upload.cursor /\ upload'.last = upload.last /\ upload'.into = upload.into
    BY <2>1, <2>2 DEF ReuploadInv, ReuploadShape, UploadType
  <2>4. ReuploadShape'
    BY <1>1, <1>2, <2>1, <2>3, FS_EmptySet DEF ReuploadInv, ReuploadShape
  <2>5. CursorsArePast' /\ StoresShape'
    BY <1>1, <1>a, <2>1, <2>3 DEF ReuploadInv, CursorsArePast, StoresShape
  <2>6. Behind(resume)' = Behind(resume) /\ Behind(upload.cursor)' = Behind(upload.cursor)
    BY <1>1, <2>1, <2>3, BehindKept
  <2>7. CursorIsCovered'
    BY <1>1, <1>3, <1>a, <2>1, <2>3, <2>6 DEF CursorIsCovered
  <2> QED BY <2>4, <2>5, <2>7 DEF ReuploadInv
<1>4. CASE ToSend # texts
  <2>1. passedOver' = passedOver \union (texts \ ToSend) /\ BatchEnds
    BY <1>4 DEF SendPage
  <2>2. Behind(upload.cursor) \subseteq Held' \union passedOver'
    BY <1>1, <1>a, <2>1
  <2>3. limit # 0
    BY <1>2, <1>4
  <2>4. passedOver \subseteq passedOver' /\ passedOver' \subseteq Keys
    BY <1>1, <1>2, <2>1
  <2> QED BY <1>1, <1>a, <2>1, <2>2, <2>3, <2>4, BatchEndsInv
<1> QED BY <1>3, <1>4

LEMMA SendFailsInv ==
  ASSUME ReuploadInv, NEW arrived \in SUBSET upload.page, SendFails(arrived)
  PROVE  ReuploadInv'
<1>1. arrived \in SUBSET Keys /\ Arrive(arrived) /\ newStores' = newStores /\ newStores \in Stores
  BY ToSendType DEF SendFails, ReuploadInv, StoresShape
<1>2. stored' \in [Stores -> SUBSET Keys] /\ Held \subseteq Held'
  BY <1>1, ArriveGrows DEF ReuploadInv
<1> QED BY <1>1, <1>2, BatchRaisesInv DEF SendFails

LEMMA FetchPageFailsInv == ASSUME ReuploadInv, FetchPageFails PROVE ReuploadInv'
<1>1. /\ UNCHANGED stores /\ Held' = Held /\ newStores \in Stores
      /\ stored \in [Stores -> SUBSET Keys]
  BY DEF FetchPageFails, ReuploadInv, StoresShape, Held
<1> QED BY <1>1, BatchRaisesInv DEF FetchPageFails

\* A program that is stopped has sent what it has, and keeps its resume point.
LEMMA ProgramDiesInv ==
  ASSUME ReuploadInv, NEW arrived \in SUBSET upload.page, ProgramDies(arrived)
  PROVE  ReuploadInv'
<1>1. /\ upload' = Stopped /\ Arrive(arrived)
      /\ UNCHANGED <<writes, updatedAt, blank, options, named, newStores, resume, passedOver>>
  BY DEF ProgramDies
<1>2. upload' \in UploadType /\ upload'.stage = "ended" /\ upload'.page = {} /\ upload'.cursor = NoKey
      /\ upload'.into = 0
  BY <1>1, StartedType
<1>3. stored' \in [Stores -> SUBSET Keys] /\ Held \subseteq Held'
  <2>1. arrived \in SUBSET Keys
    BY DEF ReuploadInv, ReuploadShape, UploadType
  <2> QED BY <1>1, <2>1, ArriveGrows DEF ReuploadInv
<1>4. ReuploadShape' /\ StoresShape' /\ CursorsArePast'
  BY <1>1, <1>2, <1>3, StartedType, FS_EmptySet, ReuploadAssumption
  DEF Stores, ReuploadInv, ReuploadShape, StoresShape, CursorsArePast
<1>5. Behind(resume)' = Behind(resume)
  BY <1>1, BehindKept
<1>6. CursorIsCovered'
  BY <1>1, <1>2, <1>3, <1>5 DEF ReuploadInv, CursorIsCovered
<1> QED BY <1>4, <1>6 DEF ReuploadInv

LEMMA StartAgainInv ==
  ASSUME ReuploadInv, NEW from \in {resume, NoKey}, NEW store \in 0..newStores, StartAgain(from, store)
  PROVE  ReuploadInv'
<1>1. /\ resume' = from /\ upload' = Started
      /\ passedOver' = (IF from = NoKey THEN {} ELSE passedOver)
      /\ named' = store /\ UNCHANGED <<writes, updatedAt, blank, options, newStores, stored>>
  BY DEF StartAgain
<1>2. ReuploadShape'
  BY <1>1, StartedType, FS_EmptySet DEF ReuploadInv, ReuploadShape
<1>3. CursorsArePast' /\ StoresShape'
  BY <1>1, StartedType, ReuploadAssumption
  DEF ReuploadInv, ReuploadShape, CursorsArePast, StoresShape, Stores
<1>4. Behind(resume)' = Behind(from)
  BY <1>1, BehindKept
<1>5. Behind(from) \subseteq Held \union passedOver'
  <2>1. CASE from = NoKey
    BY <2>1, NothingBehindStart DEF ReuploadInv
  <2>2. CASE from # NoKey
    BY <1>1, <2>2 DEF ReuploadInv, CursorIsCovered
  <2> QED BY <2>1, <2>2
<1>6. CursorIsCovered'
  BY <1>1, <1>4, <1>5, StartedType DEF ReuploadInv, CursorIsCovered, Held
<1> QED BY <1>2, <1>3, <1>6 DEF ReuploadInv

LEMMA ReuploadStepInv == ReuploadInv /\ [ReuploadNext]_reuploadVars => ReuploadInv'
<1> SUFFICES ASSUME ReuploadInv, [ReuploadNext]_reuploadVars PROVE ReuploadInv'
  OBVIOUS
<1>1. CASE UNCHANGED reuploadVars
  <2>1. Behind(resume)' = Behind(resume) /\ Behind(upload.cursor)' = Behind(upload.cursor)
        /\ WithText(upload.page)' = WithText(upload.page)
    BY <1>1, BehindKept DEF reuploadVars
  <2> QED BY <1>1, <2>1 
      DEF reuploadVars, ReuploadInv, ReuploadShape, StoresShape, CursorsArePast, CursorIsCovered, Held
<1>2. CASE ReuploadNext
  BY <1>2, EditDocumentsInv, RemoveDocumentInv, StartBatchInv, StartFailsInv, FetchPageInv, NoPageLeftInv,
     FetchPageFailsInv, SendPageInv, SendFailsInv, ProgramDiesInv, StartAgainInv DEF ReuploadNext
<1> QED BY <1>1, <1>2

LEMMA ReuploadInvImplies == ReuploadInv => ReuploadTypeOK /\ StoredBehindCursor
<1> SUFFICES ASSUME ReuploadInv PROVE ReuploadTypeOK /\ StoredBehindCursor
  OBVIOUS
<1>1. ReuploadTypeOK
  BY DEF ReuploadInv, ReuploadShape, StoresShape, UploadType, ReuploadTypeOK
<1>2. StoredBehindCursor
  BY HeldInNamed DEF ReuploadInv, CursorIsCovered, StoredBehindCursor
<1> QED BY <1>1, <1>2

(* The upload and its cursors keep their types                             *)
(* (run_sequential_upload.py, reupload_with_metadata.py).                  *)
THEOREM ReuploadTypeCorrect == ReuploadSpec => []ReuploadTypeOK
BY ReuploadInitInv, ReuploadStepInv, ReuploadInvImplies, PTL DEF ReuploadSpec

(* For any finite table, any sizes of pages and batches and any number of  *)
(* failures and restarts, what is behind the resume point has been sent,   *)
(* but for documents that a batch passed over at its limit; it is in the   *)
(* store that was named unless --create-if-missing has made others, and    *)
(* in one of these otherwise (fetch_documents, reupload, run_batches,      *)
(* ensure_store_exists).                                                   *)
THEOREM ReuploadStoredBehindCursor == ReuploadSpec => []StoredBehindCursor
BY ReuploadInitInv, ReuploadStepInv, ReuploadInvImplies, PTL DEF ReuploadSpec

HIDE DEF options, stores

-----------------------------------------------------------------------------
(* The current job of a tenant is one of its own, and it is running: jobs  *)
(* overlap and forget each other's entry, but an entry never outlives the  *)
(* job it names.                                                           *)
CurrentIsRunning ==
  \A t \in Tenants : current[t] # NoJob =>
    job[current[t]].stage = "sleeping" /\ job[current[t]].tenant = t

AdminInv == AdminTypeOK /\ CurrentIsRunning /\ RefusedOnlyWhileRunning

\* The job that has not begun belongs to one of the tenants.
LEMMA UnusedType == Unused \in [tenant : Tenants, stage : JobStages, status : JobStatuses, progress : 0..4]
BY AdminAssumption DEF Unused, JobStages, JobStatuses

LEMMA AdminInitInv == AdminInit => AdminInv
BY UnusedType DEF AdminInit, AdminInv, AdminTypeOK, CurrentIsRunning, RefusedOnlyWhileRunning

\* The routes of tenants and configurations do not touch the jobs.
LEMMA TenantRoutesInv ==
  ASSUME AdminInv, NEW t \in Tenants,
         \/ \E d \in Domains : CreateTenant(t, d)
         \/ \E d, header \in Domains \union {NoDomain} : UpdateTenant(t, d) \/ UpsertConfig(t, header, d)
         \/ DeleteTenant(t)
  PROVE  AdminInv'
<1>1. tenants' \in [Tenants -> Domains \union {NoDomain}]
  BY DEF AdminInv, AdminTypeOK, CreateTenant, UpdateTenant, UpsertConfig, DeleteTenant, Known
<1>2. UNCHANGED <<job, current, refusals>>
  BY DEF CreateTenant, UpdateTenant, UpsertConfig, DeleteTenant
<1> QED BY <1>1, <1>2 DEF AdminInv, AdminTypeOK, CurrentIsRunning, RefusedOnlyWhileRunning

LEMMA TriggerAdminSyncInv ==
  ASSUME AdminInv, NEW t \in Tenants, NEW j \in Jobs, TriggerAdminSync(t, j)
  PROVE  AdminInv'
<1>1. AdminTypeOK'
  <2> DEFINE scheduled == [job EXCEPT ![j].stage = "scheduled"]
  <2>1. scheduled \in [Jobs -> [tenant : Tenants, stage : JobStages, status : JobStatuses, progress : 0..4]]
    BY DEF AdminInv, AdminTypeOK, JobStages
  <2>2. job' = [scheduled EXCEPT ![j].tenant = t]
    BY DEF TriggerAdminSync
  <2> HIDE DEF scheduled
  <2>3. job' \in [Jobs -> [tenant : Tenants, stage : JobStages, status : JobStatuses, progress : 0..4]]
    BY <2>1, <2>2
  <2> QED BY <2>3 DEF AdminInv, AdminTypeOK, TriggerAdminSync
<1>2. CurrentIsRunning'
  BY DEF AdminInv, AdminTypeOK, CurrentIsRunning, TriggerAdminSync
<1> QED BY <1>1, <1>2 DEF AdminInv, TriggerAdminSync, RefusedOnlyWhileRunning

\* Who is refused has a current job, and so a running one.
LEMMA RefuseAdminSyncInv ==
  ASSUME AdminInv, NEW t \in Tenants, RefuseAdminSync(t)
  PROVE  AdminInv'
<1>1. current[t] \in Running(t)
  BY DEF AdminInv, AdminTypeOK, CurrentIsRunning, RefuseAdminSync, InProgress, Running
<1>2. UNCHANGED <<tenants, job, current, refusals>>
  BY <1>1 DEF RefuseAdminSync
<1> QED BY <1>2 DEF AdminInv, AdminTypeOK, CurrentIsRunning, RefusedOnlyWhileRunning

LEMMA BeginAdminSyncInv ==
  ASSUME AdminInv, NEW j \in Jobs, BeginAdminSync(j)
  PROVE  AdminInv'
<1>0. job[j] \in [tenant : Tenants, stage : JobStages, status : JobStatuses, progress : 0..4]
  BY DEF AdminInv, AdminTypeOK
<1>1. AdminTypeOK'
  <2>1. job' \in [Jobs -> [tenant : Tenants, stage : JobStages, status : JobStatuses, progress : 0..4]]
    BY <1>0 DEF AdminInv, AdminTypeOK, BeginAdminSync, JobStages, JobStatuses
  <2> QED BY <1>0, <2>1 DEF AdminInv, AdminTypeOK, BeginAdminSync
<1>2. CurrentIsRunning'
  BY DEF AdminInv, AdminTypeOK, CurrentIsRunning, BeginAdminSync
<1> QED BY <1>1, <1>2 DEF AdminInv, BeginAdminSync, RefusedOnlyWhileRunning

LEMMA ProgressAdminSyncInv ==
  ASSUME AdminInv, NEW j \in Jobs, ProgressAdminSync(j)
  PROVE  AdminInv'
<1>1. AdminTypeOK'
  BY DEF AdminInv, AdminTypeOK, ProgressAdminSync
<1>2. CurrentIsRunning'
  BY DEF AdminInv, AdminTypeOK, CurrentIsRunning, ProgressAdminSync
<1> QED BY <1>1, <1>2 DEF AdminInv, ProgressAdminSync, RefusedOnlyWhileRunning

\* The job that ends is current for its own tenant at most.
LEMMA CompleteAdminSyncInv ==
  ASSUME AdminInv, NEW j \in Jobs, CompleteAdminSync(j)
  PROVE  AdminInv'
<1>0. job[j] \in [tenant : Tenants, stage : JobStages, status : JobStatuses, progress : 0..4]
  BY DEF AdminInv, AdminTypeOK
<1>1. AdminTypeOK'
  <2>1. job' \in [Jobs -> [tenant : Tenants, stage : JobStages, status : JobStatuses, progress : 0..4]]
    BY <1>0 DEF AdminInv, AdminTypeOK, CompleteAdminSync, JobStages, JobStatuses
  <2> QED BY <1>0, <2>1 DEF AdminInv, AdminTypeOK, CompleteAdminSync
<1>2. CurrentIsRunning'
  BY DEF AdminInv, AdminTypeOK, CurrentIsRunning, CompleteAdminSync
<1> QED BY <1>1, <1>2 DEF AdminInv, CompleteAdminSync, RefusedOnlyWhileRunning

LEMMA AdminRestartInv == ASSUME AdminInv, AdminRestart PROVE AdminInv'
<1>1. [Unused EXCEPT !.stage = "gone"] \in [tenant : Tenants, stage : JobStages, status : JobStatuses, progress : 0..4]
  BY UnusedType DEF JobStages
<1>2. AdminTypeOK'
  BY <1>1 DEF AdminInv, AdminTypeOK, AdminRestart
<1> QED BY <1>2 DEF AdminInv, AdminRestart, CurrentIsRunning, RefusedOnlyWhileRunning

LEMMA AdminStepInv == AdminInv /\ [AdminNext]_adminVars => AdminInv'
<1> SUFFICES ASSUME AdminInv, [AdminNext]_adminVars PROVE AdminInv'
  OBVIOUS
<1>1. CASE UNCHANGED adminVars
  BY <1>1 DEF adminVars, AdminInv, AdminTypeOK, CurrentIsRunning, RefusedOnlyWhileRunning
<1>2. CASE AdminNext
  BY <1>2, TenantRoutesInv, TriggerAdminSyncInv, RefuseAdminSyncInv, BeginAdminSyncInv,
     ProgressAdminSyncInv, CompleteAdminSyncInv, AdminRestartInv DEF AdminNext
<1> QED BY <1>1, <1>2

(* The jobs and tenants of the administration API keep their shape         *)
(* (admin_service.py), whatever is asked for and whenever the process      *)
(* restarts.                                                               *)
THEOREM AdminTypeCorrect == AdminSpec => []AdminTypeOK
<1>1. AdminInv => AdminTypeOK
  BY DEF AdminInv
<1> QED BY <1>1, AdminInitInv, AdminStepInv, PTL DEF AdminSpec

(* No tenant is refused a sync while none of its syncs runs                *)
(* (SyncJobStore.is_sync_in_progress, complete_job), for any number of     *)
(* tenants and of overlapping jobs.                                        *)
THEOREM AdminRefusesRightly == AdminSpec => []RefusedOnlyWhileRunning
<1>1. AdminInv => RefusedOnlyWhileRunning
  BY DEF AdminInv
<1> QED BY <1>1, AdminInitInv, AdminStepInv, PTL DEF AdminSpec

-----------------------------------------------------------------------------
(* Where a run is in the pipeline says what its row can hold: nothing is   *)
(* completed before the model has answered, only a failed run is recorded  *)
(* as failed, and nothing is told before the last write.                   *)
RowFollowsStage ==
  \A r \in Runs :
    /\ pipeline[r].stage = "idle" => runRow[r] = "none"
    /\ pipeline[r].stage \in {"asking", "emitting", "savingRun"} => runRow[r] \in {"none", "running"}
    /\ pipeline[r].stage \in Open \union {"idle", "dead"} => replies[r] = "nothing"
    /\ pipeline[r].stage = "failed" => replies[r] = "error" /\ runRow[r] # "completed"
    /\ runRow[r] = "failed" => pipeline[r].stage = "failed"
    /\ r \in results => pipeline[r].stage = "told" /\ runRow[r] # "none"

(* A sample that was handed out is marked, and a marked one was approved.  *)
MarkedIsApproved ==
  \A r \in Runs :
    /\ sample[r].exported => sample[r].row /\ sample[r].approved > 0
    /\ exports[r] <= 1
    /\ exports[r] = 1 => sample[r].exported

AnalysisInv == AnalysisTypeOK /\ RowFollowsStage /\ MarkedIsApproved

SampleType == [row : BOOLEAN, approved : 0..MaxEdits, ticket : {"unknown", "known"}, exported : BOOLEAN]
PipelineType == [stage : Open \union Closed, streams : BOOLEAN, gate : Gates]

LEMMA AnalysisInitInv == AnalysisInit => AnalysisInv
BY AnalysisAssumption DEF AnalysisInit, AnalysisInv, AnalysisTypeOK, RowFollowsStage, MarkedIsApproved,
   NoSample, Open, Closed, Gates

\* A step that leaves samples and exports alone keeps what is said of them.
LEMMA SamplesKept ==
  ASSUME AnalysisInv, UNCHANGED <<sample, exports>>
  PROVE  MarkedIsApproved' /\ sample' \in [Runs -> SampleType] /\ exports' \in [Runs -> 0..MaxEdits + 1]
BY DEF AnalysisInv, AnalysisTypeOK, MarkedIsApproved, SampleType

\* A write to the table of runs is done as asked, or lost.
LEMMA RunSavedType ==
  ASSUME AnalysisInv, NEW r \in Runs, NEW written \in BOOLEAN,
         NEW status \in {"running", "completed", "failed"}, RunSaved(r, status, written)
  PROVE  /\ runRow' \in [Runs -> {"none", "running", "completed", "failed"}]
         /\ runRow'[r] \in {runRow[r], status}
         /\ \A q \in Runs \ {r} : runRow'[q] = runRow[q]
BY DEF AnalysisInv, AnalysisTypeOK, RunSaved

LEMMA GoesType ==
  ASSUME AnalysisInv, NEW r \in Runs, NEW stage \in Open \union Closed, Goes(r, stage)
  PROVE  /\ pipeline' \in [Runs -> PipelineType]
         /\ pipeline'[r].stage = stage
         /\ \A q \in Runs \ {r} : pipeline'[q] = pipeline[q]
BY DEF AnalysisInv, AnalysisTypeOK, Goes, PipelineType

LEMMA StartRunInv ==
  ASSUME AnalysisInv, NEW r \in Runs, NEW streams \in BOOLEAN, NEW written \in BOOLEAN,
         StartRun(r, streams, written)
  PROVE  AnalysisInv'
<1>1. /\ pipeline' \in [Runs -> PipelineType]
      /\ pipeline'[r].stage = "asking"
      /\ \A q \in Runs \ {r} : pipeline'[q] = pipeline[q]
  <2> DEFINE asked == [pipeline EXCEPT ![r].stage = "asking"]
  <2>1. asked \in [Runs -> PipelineType] /\ asked[r].stage = "asking" /\ \A q \in Runs \ {r} : asked[q] = pipeline[q]
    BY DEF AnalysisInv, AnalysisTypeOK, PipelineType, Open
  <2>2. pipeline' = [asked EXCEPT ![r].streams = streams]
    BY DEF StartRun
  <2> HIDE DEF asked
  <2> QED BY <2>1, <2>2 DEF PipelineType
<1>2. /\ runRow' \in [Runs -> {"none", "running", "completed", "failed"}]
      /\ runRow'[r] \in {runRow[r], "running"}
      /\ \A q \in Runs \ {r} : runRow'[q] = runRow[q]
  BY RunSavedType DEF StartRun
<1>3. AnalysisTypeOK'
  BY <1>1, <1>2, SamplesKept DEF StartRun, AnalysisInv, AnalysisTypeOK, SampleType, PipelineType
<1>4. RowFollowsStage'
  BY <1>1, <1>2 DEF StartRun, AnalysisInv, AnalysisTypeOK, RowFollowsStage, Open
<1> QED BY <1>3, <1>4, SamplesKept DEF StartRun, AnalysisInv

\* The gate is one of the four, whatever the model's confidence.
LEMMA ComputeGateType ==
  ASSUME NEW confidence, NEW threshold
  PROVE  ComputeGate(confidence, threshold) \in Gates
BY DEF ComputeGate, Gates

LEMMA ModelAnswersInv ==
  ASSUME AnalysisInv, NEW r \in Runs, NEW confidence \in Confidences, NEW threshold \in Thresholds,
         ModelAnswers(r, confidence, threshold)
  PROVE  AnalysisInv'
<1>1. /\ pipeline' \in [Runs -> PipelineType]
      /\ pipeline'[r].stage \in {"emitting", "savingRun"}
      /\ \A q \in Runs \ {r} : pipeline'[q] = pipeline[q]
  <2> DEFINE next == IF pipeline[r].streams THEN "emitting" ELSE "savingRun"
             atNext == [pipeline EXCEPT ![r].stage = next]
  <2>1. next \in {"emitting", "savingRun"}
    OBVIOUS
  <2>2. pipeline' = [atNext EXCEPT ![r].gate = ComputeGate(confidence, threshold)]
    BY DEF ModelAnswers
  <2>3. atNext \in [Runs -> PipelineType] /\ atNext[r].stage = next
        /\ \A q \in Runs \ {r} : atNext[q] = pipeline[q]
    <3> HIDE DEF next
    <3> QED BY <2>1 DEF AnalysisInv, AnalysisTypeOK, PipelineType, Open
  <2> HIDE DEF next, atNext
  <2> QED BY <2>1, <2>2, <2>3, ComputeGateType DEF PipelineType
<1>2. AnalysisTypeOK'
  BY <1>1, SamplesKept DEF ModelAnswers, AnalysisInv, AnalysisTypeOK, SampleType, PipelineType
<1>3. RowFollowsStage'
  BY <1>1 DEF ModelAnswers, AnalysisInv, AnalysisTypeOK, RowFollowsStage, Open
<1> QED BY <1>2, <1>3, SamplesKept DEF ModelAnswers, AnalysisInv

LEMMA ModelFailsInv ==
  ASSUME AnalysisInv, NEW r \in Runs, NEW written \in BOOLEAN, ModelFails(r, written)
  PROVE  AnalysisInv'
<1>1. /\ pipeline' \in [Runs -> PipelineType]
      /\ pipeline'[r].stage = "failed"
      /\ \A q \in Runs \ {r} : pipeline'[q] = pipeline[q]
  BY GoesType DEF ModelFails, Closed
<1>2. /\ runRow' \in [Runs -> {"none", "running", "completed", "failed"}]
      /\ runRow'[r] \in {runRow[r], "failed"}
      /\ \A q \in Runs \ {r} : runRow'[q] = runRow[q]
  BY RunSavedType DEF ModelFails
<1>3. /\ replies' \in [Runs -> {"nothing", "complete", "error"}]
      /\ replies'[r] = "error"
      /\ \A q \in Runs \ {r} : replies'[q] = replies[q]
  BY DEF ModelFails, AnalysisInv, AnalysisTypeOK
<1>4. AnalysisTypeOK'
  BY <1>1, <1>2, <1>3, SamplesKept DEF ModelFails, AnalysisInv, AnalysisTypeOK, SampleType, PipelineType
<1>5. RowFollowsStage'
  BY <1>1, <1>2, <1>3 DEF ModelFails, AnalysisInv, AnalysisTypeOK, RowFollowsStage, Open
<1> QED BY <1>4, <1>5, SamplesKept DEF ModelFails, AnalysisInv

LEMMA FieldsEmittedInv == ASSUME AnalysisInv, NEW r \in Runs, FieldsEmitted(r) PROVE AnalysisInv'
<1>1. /\ pipeline' \in [Runs -> PipelineType]
      /\ pipeline'[r].stage = "savingRun"
      /\ \A q \in Runs \ {r} : pipeline'[q] = pipeline[q]
  BY GoesType DEF FieldsEmitted, Open
<1>2. AnalysisTypeOK'
  BY <1>1, SamplesKept DEF FieldsEmitted, AnalysisInv, AnalysisTypeOK, SampleType, PipelineType
<1>3. RowFollowsStage'
  BY <1>1 DEF FieldsEmitted, AnalysisInv, AnalysisTypeOK, RowFollowsStage, Open
<1> QED BY <1>2, <1>3, SamplesKept DEF FieldsEmitted, AnalysisInv

LEMMA SaveCompletedInv ==
  ASSUME AnalysisInv, NEW r \in Runs, NEW written \in BOOLEAN, SaveCompleted(r, written)
  PROVE  AnalysisInv'
<1>1. /\ pipeline' \in [Runs -> PipelineType]
      /\ pipeline'[r].stage = "savingResult"
      /\ \A q \in Runs \ {r} : pipeline'[q] = pipeline[q]
  BY GoesType DEF SaveCompleted, Open
<1>2. /\ runRow' \in [Runs -> {"none", "running", "completed", "failed"}]
      /\ runRow'[r] \in {runRow[r], "completed"}
      /\ \A q \in Runs \ {r} : runRow'[q] = runRow[q]
  BY RunSavedType DEF SaveCompleted
<1>3. AnalysisTypeOK'
  BY <1>1, <1>2, SamplesKept DEF SaveCompleted, AnalysisInv, AnalysisTypeOK, SampleType, PipelineType
<1>4. RowFollowsStage'
  BY <1>1, <1>2 DEF SaveCompleted, AnalysisInv, AnalysisTypeOK, RowFollowsStage, Open
<1> QED BY <1>3, <1>4, SamplesKept DEF SaveCompleted, AnalysisInv

\* A result is written only where its run has a row.
LEMMA SaveResultInv ==
  ASSUME AnalysisInv, NEW r \in Runs, NEW written \in BOOLEAN, NEW isValid \in BOOLEAN,
         SaveResult(r, written, isValid)
  PROVE  AnalysisInv'
<1>1. /\ pipeline' \in [Runs -> PipelineType]
      /\ pipeline'[r].stage = "told"
      /\ \A q \in Runs \ {r} : pipeline'[q] = pipeline[q]
  BY GoesType DEF SaveResult, Closed
<1>2. /\ results' \subseteq Runs
      /\ r \in results' => r \in results \/ runRow[r] # "none"
      /\ \A q \in Runs \ {r} : q \in results' => q \in results
  BY DEF SaveResult, ResultSaved, AnalysisInv, AnalysisTypeOK
<1>3. /\ replies' \in [Runs -> {"nothing", "complete", "error"}]
      /\ \A q \in Runs \ {r} : replies'[q] = replies[q]
  BY DEF SaveResult, AnalysisInv, AnalysisTypeOK
<1>4. AnalysisTypeOK'
  BY <1>1, <1>2, <1>3, SamplesKept DEF SaveResult, AnalysisInv, AnalysisTypeOK, SampleType, PipelineType
<1>5. RowFollowsStage'
  BY <1>1, <1>2, <1>3 DEF SaveResult, AnalysisInv, AnalysisTypeOK, RowFollowsStage, Open
<1> QED BY <1>4, <1>5, SamplesKept DEF SaveResult, AnalysisInv

LEMMA StreamCutInv == ASSUME AnalysisInv, NEW r \in Runs, StreamCut(r) PROVE AnalysisInv'
<1>1. /\ pipeline' \in [Runs -> PipelineType]
      /\ pipeline'[r].stage = "dead"
      /\ \A q \in Runs \ {r} : pipeline'[q] = pipeline[q]
  BY GoesType DEF StreamCut, Closed
<1>2. AnalysisTypeOK'
  BY <1>1, SamplesKept DEF StreamCut, AnalysisInv, AnalysisTypeOK, SampleType, PipelineType
<1>3. RowFollowsStage'
  BY <1>1 DEF StreamCut, AnalysisInv, AnalysisTypeOK, RowFollowsStage, Open
<1> QED BY <1>2, <1>3, SamplesKept DEF StreamCut, AnalysisInv

LEMMA AnalysisRestartInv == ASSUME AnalysisInv, AnalysisRestart PROVE AnalysisInv'
<1>1. /\ pipeline' \in [Runs -> PipelineType]
      /\ \A r \in Runs : pipeline'[r].stage = IF pipeline[r].stage \in Open THEN "dead" ELSE pipeline[r].stage
  <2> SUFFICES ASSUME NEW r \in Runs
               PROVE  /\ [pipeline[r] EXCEPT !.stage = IF @ \in Open THEN "dead" ELSE @] \in PipelineType
                      /\ [pipeline[r] EXCEPT !.stage = IF @ \in Open THEN "dead" ELSE @].stage
                           = IF pipeline[r].stage \in Open THEN "dead" ELSE pipeline[r].stage
    BY DEF AnalysisRestart
  <2>1. pipeline[r] \in PipelineType
    BY DEF AnalysisInv, AnalysisTypeOK, PipelineType
  <2>2. CASE pipeline[r].stage \in Open
    BY <2>1, <2>2 DEF PipelineType, Closed
  <2>3. CASE pipeline[r].stage \notin Open
    BY <2>1, <2>3 DEF PipelineType
  <2> QED BY <2>2, <2>3
<1>2. AnalysisTypeOK'
  BY <1>1, SamplesKept DEF AnalysisRestart, AnalysisInv, AnalysisTypeOK, SampleType, PipelineType
<1>3. RowFollowsStage'
  BY <1>1 DEF AnalysisRestart, AnalysisInv, AnalysisTypeOK, RowFollowsStage, Open
<1> QED BY <1>2, <1>3, SamplesKept DEF AnalysisRestart, AnalysisInv

\* An approval makes a sample or counts on, and leaves the mark as it was.
LEMMA ApproveResponseInv == ASSUME AnalysisInv, NEW r \in Runs, ApproveResponse(r) PROVE AnalysisInv'
<1>1. /\ sample' \in [Runs -> SampleType]
      /\ sample'[r].row /\ sample'[r].approved > 0
      /\ sample'[r].exported = sample[r].exported
      /\ \A q \in Runs \ {r} : sample'[q] = sample[q]
  <2>0. sample \in [Runs -> SampleType] /\ sample[r] \in SampleType
    BY DEF AnalysisInv, AnalysisTypeOK, SampleType
  <2>1. CASE sample[r].row
    <3>1. sample' = [sample EXCEPT ![r].approved = @ + 1]
      BY <2>1 DEF ApproveResponse
    <3>2. sample[r].approved \in 0..MaxEdits /\ sample[r].approved < MaxEdits
      BY <2>0 DEF ApproveResponse, SampleType
    <3>3. sample[r].approved + 1 \in 0..MaxEdits /\ sample[r].approved + 1 > 0
      BY <3>2, AnalysisAssumption
    <3> QED BY <2>0, <2>1, <3>1, <3>3 DEF SampleType
  <2>2. CASE ~sample[r].row
    <3> DEFINE made == [row |-> TRUE, approved |-> 1, ticket |-> IF r \in results THEN "known" ELSE "unknown",
                        exported |-> FALSE]
    <3>1. sample' = [sample EXCEPT ![r] = made]
      BY <2>2 DEF ApproveResponse
    <3>2. made \in SampleType /\ made.row /\ made.approved > 0 /\ ~made.exported
      <4>1. 1 \in 0..MaxEdits
        BY <2>0, AnalysisAssumption DEF ApproveResponse, SampleType
      <4> QED BY <4>1 DEF SampleType
    <3>3. ~sample[r].exported
      BY <2>2 DEF AnalysisInv, MarkedIsApproved
    <3> HIDE DEF made
    <3>4. sample' \in [Runs -> SampleType] /\ sample'[r] = made /\ \A q \in Runs \ {r} : sample'[q] = sample[q]
      BY <2>0, <3>1, <3>2
    <3>5. sample[r].exported = FALSE /\ made.exported = FALSE
      BY <2>0, <3>2, <3>3 DEF SampleType
    <3> QED BY <3>2, <3>4, <3>5
  <2> QED BY <2>1, <2>2
<1>2. AnalysisTypeOK'
  BY <1>1 DEF ApproveResponse, AnalysisInv, AnalysisTypeOK, SampleType
<1>3. MarkedIsApproved'
  BY <1>1 DEF ApproveResponse, AnalysisInv, MarkedIsApproved
<1> QED BY <1>2, <1>3 DEF ApproveResponse, AnalysisInv, RowFollowsStage

\* What is chosen was not marked, so it was never handed out.
LEMMA ExportSamplesInv ==
  ASSUME AnalysisInv, NEW mark \in BOOLEAN, NEW marked \in BOOLEAN, NEW isTold \in BOOLEAN,
         ExportSamples(mark, marked, isTold)
  PROVE  AnalysisInv'
<1>1. PICK chosen \in SUBSET Exportable :
        /\ sample' = IF mark /\ marked
                     THEN [r \in Runs |-> [sample[r] EXCEPT !.exported = @ \/ r \in chosen]] ELSE sample
        /\ exports' = [r \in Runs |-> IF mark /\ marked /\ isTold /\ r \in chosen
                                       THEN exports[r] + 1 ELSE exports[r]]
        /\ UNCHANGED <<pipeline, runRow, results, replies>>
  BY DEF ExportSamples
<1>2. /\ sample' \in [Runs -> SampleType]
      /\ \A r \in Runs : /\ sample'[r].row = sample[r].row
                          /\ sample'[r].approved = sample[r].approved
                          /\ sample'[r].exported <=> sample[r].exported \/ (mark /\ marked /\ r \in chosen)
  <2>0. \A r \in Runs : sample[r] \in SampleType
    BY DEF AnalysisInv, AnalysisTypeOK, SampleType
  <2>1. CASE mark /\ marked
    <3>1. sample' = [r \in Runs |-> [sample[r] EXCEPT !.exported = sample[r].exported \/ r \in chosen]]
      BY <1>1, <2>1
    <3>2. ASSUME NEW r \in Runs
          PROVE  /\ [sample[r] EXCEPT !.exported = sample[r].exported \/ r \in chosen] \in SampleType
                 /\ sample'[r] = [sample[r] EXCEPT !.exported = sample[r].exported \/ r \in chosen]
      <4> DEFINE e == sample[r].exported \/ r \in chosen
      <4>1. e \in BOOLEAN
        OBVIOUS
      <4> HIDE DEF e
      <4>2. [sample[r] EXCEPT !.exported = e] \in SampleType
        BY <2>0, <4>1 DEF SampleType
      <4> QED BY <3>1, <4>2 DEF e
    <3>3. sample' \in [Runs -> SampleType]
      BY <3>1, <3>2
    <3>4. ASSUME NEW r \in Runs
          PROVE  /\ sample'[r].row = sample[r].row /\ sample'[r].approved = sample[r].approved
                 /\ sample'[r].exported = (sample[r].exported \/ r \in chosen)
      <4> DEFINE e == sample[r].exported \/ r \in chosen
      <4>1. sample[r] \in SampleType /\ sample'[r] = [sample[r] EXCEPT !.exported = e]
        BY <2>0, <3>2
      <4> HIDE DEF e
      <4>2. sample'[r].row = sample[r].row /\ sample'[r].approved = sample[r].approved /\ sample'[r].exported = e
        BY <4>1 DEF SampleType
      <4> QED BY <4>2 DEF e
    <3> QED BY <2>1, <3>3, <3>4
  <2>2. CASE ~(mark /\ marked)
    BY <1>1, <2>2 DEF AnalysisInv, AnalysisTypeOK, SampleType
  <2> QED BY <2>1, <2>2
<1>3. \A r \in chosen : r \in Runs /\ sample[r].row /\ sample[r].approved > 0 /\ exports[r] = 0
  <2> SUFFICES ASSUME NEW r \in chosen PROVE r \in Runs /\ sample[r].row /\ sample[r].approved > 0 /\ exports[r] = 0
    OBVIOUS
  <2>1. r \in Runs /\ sample[r].row /\ sample[r].approved > 0 /\ ~sample[r].exported
    BY <1>1 DEF Exportable
  <2>2. exports[r] \in Nat /\ exports[r] <= 1 /\ exports[r] # 1
    BY <2>1, AnalysisAssumption DEF AnalysisInv, AnalysisTypeOK, MarkedIsApproved
  <2> QED BY <2>1, <2>2
<1>4. exports' \in [Runs -> 0..MaxEdits + 1]
  BY <1>1, <1>3, AnalysisAssumption DEF AnalysisInv, AnalysisTypeOK
<1>5. AnalysisTypeOK'
  BY <1>1, <1>2, <1>4 DEF AnalysisInv, AnalysisTypeOK, SampleType
<1>6. MarkedIsApproved'
  BY <1>1, <1>2, <1>3 DEF AnalysisInv, AnalysisTypeOK, MarkedIsApproved
<1> QED BY <1>1, <1>5, <1>6 DEF AnalysisInv, RowFollowsStage

LEMMA AnalysisStepInv == AnalysisInv /\ [AnalysisNext]_analysisVars => AnalysisInv'
<1> SUFFICES ASSUME AnalysisInv, [AnalysisNext]_analysisVars PROVE AnalysisInv'
  OBVIOUS
<1>1. CASE UNCHANGED analysisVars
  BY <1>1 DEF analysisVars, AnalysisInv, AnalysisTypeOK, RowFollowsStage, MarkedIsApproved
<1>2. CASE AnalysisNext
  BY <1>2, StartRunInv, ModelAnswersInv, ModelFailsInv, FieldsEmittedInv, SaveCompletedInv, SaveResultInv,
     StreamCutInv, AnalysisRestartInv, ApproveResponseInv, ExportSamplesInv DEF AnalysisNext
<1> QED BY <1>1, <1>2

\* The properties of the runs follow from the inductive invariant.
LEMMA AnalysisInvImplies == AnalysisInv => AnalysisTypeOK /\ RowsTellTheOutcome /\ ExportedOnce
<1> SUFFICES ASSUME AnalysisInv PROVE RowsTellTheOutcome /\ ExportedOnce
  BY DEF AnalysisInv
<1>1. RowsTellTheOutcome
  BY DEF AnalysisInv, AnalysisTypeOK, RowFollowsStage, RowsTellTheOutcome, Open, Closed
<1>2. ExportedOnce
  BY DEF AnalysisInv, AnalysisTypeOK, MarkedIsApproved, ExportedOnce
<1> QED BY <1>1, <1>2

(* Pipeline, rows, samples and replies keep their types                    *)
(* (ticket_analysis_orchestrator.py, persistence.py).                      *)
THEOREM AnalysisTypeCorrect == AnalysisSpec => []AnalysisTypeOK
BY AnalysisInitInv, AnalysisStepInv, AnalysisInvImplies, PTL DEF AnalysisSpec

(* For any number of runs, whatever writes are lost and wherever a run is  *)
(* cut off, the rows and the replies tell of the same outcome              *)
(* (_run_pipeline and its stream, save_analysis_run, save_analysis_result).*)
THEOREM AnalysisRowsTellTheOutcome == AnalysisSpec => []RowsTellTheOutcome
BY AnalysisInitInv, AnalysisStepInv, AnalysisInvImplies, PTL DEF AnalysisSpec

(* No sample is handed out as exported twice, or before it was approved    *)
(* (export_training_data), for any number of samples, approvals and        *)
(* exports, of which any may fail half way.                                *)
THEOREM AnalysisExportedOnce == AnalysisSpec => []ExportedOnce
BY AnalysisInitInv, AnalysisStepInv, AnalysisInvImplies, PTL DEF AnalysisSpec

-----------------------------------------------------------------------------
Options == {NoOption} \union UNION {Labels[f] : f \in Fields}

RequestType ==
  [path : Paths, stage : {"idle", "analyze", "lookup", "search", "recorded", "record"},
   option : Options, open : Asks, filters : SUBSET Filters, asks : Asks, fixed : SUBSET {Own, OwnProduct, Chosen}]

SearchShape ==
  /\ open \in Asks /\ question \in Asks /\ dropped \in BOOLEAN /\ request \in RequestType
  /\ request.path \notin Analysing => request.stage \notin {"analyze", "lookup"}
  /\ request.stage = "recorded" => request.path = "pipeline"
  /\ request.path \notin Choosing => request.asks = "none"

\* The pipeline's request that had its analysis recorded, and may still fail.
Replacing == request.path = "pipeline" /\ request.stage \in {"recorded", "record"}

(* The session has what the user was asked last, in itself or in the       *)
(* request under way, and an option belongs to that question.  What the    *)
(* pipeline's analysis asks is in the session before it is in the answer.  *)
QuestionIsOpen ==
  /\ request.stage = "idle" /\ question \in Fields /\ ~dropped => open = question
  /\ request.stage # "idle" /\ question \in Fields /\ ~dropped =>
       /\ request.open = question
       /\ (request.option = NoOption \/ request.path \notin Forgetting) /\ ~Replacing => open = question
  /\ request.stage # "idle" /\ request.option # NoOption =>
       question \in Fields /\ request.option \in Labels[question]
  /\ request.path = "pipeline" /\ request.asks \in Fields => Replacing /\ open = request.asks

\* From the analysis on, the filters on the field asked about are the option.
OptionIsFilter ==
  request.stage \in {"lookup", "search", "record"} /\ request.path \in {"ticket", "agent"}
    /\ request.option # NoOption /\ ~dropped
  => {f \in request.filters : f[1] = question} = {<<question, request.option>>}

SearchInv == SearchShape /\ QuestionIsOpen /\ OptionIsFilter

\* What names no field of a question.
LEMMA OtherNames ==
  /\ "createdAt" \notin Fields /\ "sourceId" \notin Fields /\ "own" \notin Fields /\ "product" \notin Fields
  /\ "any" \notin Fields /\ "none" \notin Fields
BY ChatSearchAssumption

LEMMA IdleType == Idle \in RequestType
BY DEF Idle, RequestType, Paths, Options, Asks

LEMMA SearchInitInv == SearchInit => SearchInv
<1> SUFFICES ASSUME SearchInit PROVE SearchInv
  OBVIOUS
<1>1. open \in Asks /\ question \in Asks /\ question \notin Fields /\ dropped = FALSE /\ request = Idle
  BY OtherNames DEF SearchInit, Asks
<1>2. request.stage = "idle" /\ request.asks = "none"
  BY <1>1 DEF Idle
<1>3. SearchShape
  BY <1>1, <1>2, IdleType DEF SearchShape
<1> QED BY <1>1, <1>2, <1>3, OtherNames DEF SearchInv, QuestionIsOpen, OptionIsFilter

\* A request that is over leaves nothing of itself in the session.
LEMMA IdleInv ==
  ASSUME SearchInv, request' = Idle, open' \in Asks, question' \in Asks, dropped' \in BOOLEAN,
         question' \in Fields /\ ~dropped' => open' = question'
  PROVE  SearchInv'
BY IdleType, OtherNames DEF SearchInv, SearchShape, QuestionIsOpen, OptionIsFilter, Idle

LEMMA AskChatInv ==
  ASSUME SearchInv, NEW path \in Paths, NEW option \in Options, NEW chosen \in BOOLEAN,
         AskChat(path, option, chosen)
  PROVE  SearchInv'
<1> DEFINE stage == IF path \in Analysing THEN "analyze" ELSE "search"
           asked == [path |-> path, stage |-> stage, option |-> option, open |-> open,
                     filters |-> {}, asks |-> "none", fixed |-> FixedFilters(path, chosen)]
<1>1. request' = asked
  BY DEF AskChat, Idle
<1>2. FixedFilters(path, chosen) \in SUBSET {Own, OwnProduct, Chosen}
  BY DEF FixedFilters, ProductFilter, TenantFilters, AgentFilters, Paths
<1>3. open \in Asks /\ "none" \in Asks
  BY DEF SearchInv, SearchShape, Asks
<1>4. asked \in RequestType
  BY <1>2, <1>3 DEF RequestType
<1>5. open' \in Asks /\ question' = question /\ dropped' = dropped
  BY <1>3 DEF AskChat
<1>6. SearchShape'
  BY <1>1, <1>4, <1>5 DEF SearchInv, SearchShape
<1>7. /\ request'.path = path /\ request'.stage \in {"analyze", "search"} /\ request'.option = option
      /\ request'.open = open /\ request'.asks \notin Fields
      /\ path \in {"ticket", "agent"} => request'.stage = "analyze"
  BY <1>1, OtherNames DEF Analysing
<1>8. /\ request.stage = "idle"
      /\ option # NoOption => question \in Fields /\ option \in Labels[question]
      /\ option = NoOption \/ path \notin Forgetting => open' = open
  BY DEF AskChat
<1>9. QuestionIsOpen'
  BY <1>5, <1>7, <1>8 DEF SearchInv, QuestionIsOpen, Replacing
<1> QED BY <1>6, <1>7, <1>9 DEF SearchInv, OptionIsFilter

\* What an analysis can end in: filters on known values, and at most one question.
LEMMA ResultsType ==
  ASSUME NEW extracted \in SUBSET Extracted, NEW result \in Results(extracted) \union {FallbackResult}
  PROVE  result \in [filters : SUBSET Filters, asks : Asks]
<1>1. FallbackResult \in [filters : SUBSET Filters, asks : Asks]
  BY DEF FallbackResult, Filters, Asks
<1>2. Resolved(extracted) \subseteq Filters
  BY DEF Resolved, Extracted, Filters, Other
<1>3. Unknown(extracted) \subseteq Asks /\ "none" \in Asks
  BY DEF Unknown, Asks
<1> QED BY <1>1, <1>2, <1>3 DEF Results

\* The option takes the place of every filter on the field it answers.
LEMMA ApplyChoiceFilters ==
  ASSUME request \in RequestType, NEW result \in [filters : SUBSET Filters, asks : Asks]
  PROVE  /\ ApplyChoice(result) \in [filters : SUBSET Filters, asks : Asks]
         /\ request.open \in Fields /\ request.option \in Labels[request.open] =>
              {f \in ApplyChoice(result).filters : f[1] = request.open} = {<<request.open, request.option>>}
<1>1. CASE request.open \in Fields /\ request.option \in Labels[request.open]
  <2>1. <<request.open, request.option>> \in Filters
    BY <1>1 DEF Filters, KnownValues
  <2>2. ApplyChoice(result) = [filters |-> {f \in result.filters : f[1] # request.open}
                                 \union {<<request.open, request.option>>}, asks |-> "none"]
    BY <1>1 DEF ApplyChoice
  <2> QED BY <1>1, <2>1, <2>2 DEF Asks
<1>2. CASE ~(request.open \in Fields /\ request.option \in Labels[request.open])
  BY <1>2 DEF ApplyChoice
<1> QED BY <1>1, <1>2

LEMMA AnalyseInv ==
  ASSUME SearchInv, NEW result \in [filters : SUBSET Filters, asks : Asks], Analyse(result)
  PROVE  SearchInv'
<1> DEFINE taken == Taken(result)
<1>1. /\ taken \in [filters : SUBSET Filters, asks : Asks]
      /\ request.path \notin Choosing => taken.asks = "none"
      /\ request.path \in Choosing /\ request.open \in Fields /\ request.option \in Labels[request.open] =>
           {f \in taken.filters : f[1] = request.open} = {<<request.open, request.option>>}
  BY ApplyChoiceFilters DEF Taken, Asks, SearchInv, SearchShape
<1> HIDE DEF taken
<1>2. /\ request' = [request EXCEPT !.filters = taken.filters, !.asks = taken.asks,
                                    !.stage = AfterAnalysis(request.path)]
      /\ open' = IF request.path = "pipeline" THEN taken.asks ELSE open
      /\ request.stage = "analyze" /\ UNCHANGED <<question, dropped>>
  BY DEF Analyse, taken
<1>3. request.path \in Analysing /\ request \in RequestType /\ open \in Asks
  BY <1>2 DEF SearchInv, SearchShape
<1>4. /\ request'.path = request.path /\ request'.option = request.option /\ request'.open = request.open
      /\ request'.filters = taken.filters /\ request'.asks = taken.asks
      /\ request'.stage \in {"lookup", "search", "recorded"}
      /\ request'.stage = "recorded" <=> request.path = "pipeline"
      /\ request' \in RequestType /\ open' \in Asks
  BY <1>1, <1>2, <1>3 DEF RequestType, AfterAnalysis, Analysing
<1>5. SearchShape'
  BY <1>1, <1>2, <1>3, <1>4 DEF SearchInv, SearchShape
<1>6. QuestionIsOpen'
  BY <1>2, <1>4 DEF SearchInv, QuestionIsOpen, Replacing
<1>7. OptionIsFilter'
  BY <1>1, <1>2, <1>4 DEF SearchInv, QuestionIsOpen, OptionIsFilter, Choosing
<1> QED BY <1>5, <1>6, <1>7 DEF SearchInv

\* A request that goes on without an analysis asks nothing.
LEMMA AnalyserSkippedInv == ASSUME SearchInv, AnalyserSkipped PROVE SearchInv'
<1>1. /\ request.stage = "analyze" /\ request.path \in {"tenant", "pipeline"}
      /\ request' = [request EXCEPT !.stage = "search"]
      /\ UNCHANGED <<open, question, dropped>>
  BY DEF AnalyserSkipped
<1>2. /\ request' \in RequestType /\ request'.stage = "search"
      /\ request'.path = request.path /\ request'.option = request.option
      /\ request'.open = request.open /\ request'.asks = request.asks
  BY <1>1 DEF SearchInv, SearchShape, RequestType
<1>3. SearchShape'
  BY <1>1, <1>2 DEF SearchInv, SearchShape
<1>4. QuestionIsOpen'
  BY <1>1, <1>2 DEF SearchInv, QuestionIsOpen, Replacing
<1> QED BY <1>1, <1>2, <1>3, <1>4 DEF SearchInv, OptionIsFilter

\* None of the filters added later is on a field that a question can be about.
LEMMA AddedFilters ==
  ASSUME NEW f \in {Own, OwnProduct, Chosen, Found}
  PROVE  f[1] \notin Fields /\ f \in Filters
<1>1. f[1] \in {"own", "product", "sourceId"}
  BY DEF Own, OwnProduct, Chosen, Found
<1>2. f \in Filters
  BY DEF Filters
<1> QED BY <1>1, <1>2, OtherNames

LEMMA SearchFreshdeskInv ==
  ASSUME SearchInv, NEW found \in BOOLEAN, SearchFreshdesk(found)
  PROVE  SearchInv'
<1>1. /\ request'.path = request.path /\ request'.option = request.option /\ request'.open = request.open
      /\ request'.asks = request.asks /\ request'.stage = "search"
      /\ request'.filters \in {request.filters, request.filters \union {Found}}
      /\ request' \in RequestType
  BY AddedFilters DEF SearchFreshdesk, SearchInv, SearchShape, RequestType
<1>2. request.stage = "lookup" /\ UNCHANGED <<open, question, dropped>>
  BY DEF SearchFreshdesk
<1>3. SearchShape'
  BY <1>1, <1>2 DEF SearchInv, SearchShape
<1>4. QuestionIsOpen'
  BY <1>1, <1>2 DEF SearchInv, QuestionIsOpen, Replacing
<1>5. OptionIsFilter'
  BY <1>1, <1>2, AddedFilters DEF SearchInv, QuestionIsOpen, OptionIsFilter
<1> QED BY <1>3, <1>4, <1>5 DEF SearchInv

LEMMA HandlerAnswersInv ==
  ASSUME SearchInv,
         \/ CommonAnswers \/ TenantAnswers \/ StreamAnswers
         \/ TicketsAnswer \/ AgentAnswers \/ PipelineAnswersChat
  PROVE  SearchInv'
<1>1. \A f \in request.fixed : f[1] \notin Fields /\ f \in Filters
  BY AddedFilters DEF SearchInv, SearchShape, RequestType
<1>2. PICK filters \in SUBSET Filters :
        /\ request' = [request EXCEPT !.stage = "record", !.filters = filters]
        /\ request.path \in {"ticket", "agent"} =>
             filters \in {request.filters, request.fixed \union request.filters}
  BY <1>1 DEF CommonAnswers, TenantAnswers, StreamAnswers, TicketsAnswer, AgentAnswers,
              PipelineAnswersChat, HandlerAnswers, SearchInv, SearchShape, RequestType
<1>3. request.stage \in {"search", "recorded"} /\ UNCHANGED <<open, question, dropped>>
  BY DEF CommonAnswers, TenantAnswers, StreamAnswers, TicketsAnswer, AgentAnswers,
         PipelineAnswersChat, HandlerAnswers
<1>4. /\ request'.path = request.path /\ request'.option = request.option /\ request'.open = request.open
      /\ request'.asks = request.asks /\ request'.stage = "record" /\ request'.filters = filters
      /\ request' \in RequestType
  BY <1>2 DEF SearchInv, SearchShape, RequestType
<1>5. SearchShape'
  BY <1>3, <1>4 DEF SearchInv, SearchShape
<1>6. QuestionIsOpen'
  BY <1>3, <1>4 DEF SearchInv, QuestionIsOpen, Replacing
<1>7. request.path \in {"ticket", "agent"} => request.stage = "search"
  BY <1>3 DEF SearchInv, SearchShape
<1>8. OptionIsFilter'
  BY <1>1, <1>2, <1>3, <1>4, <1>7 DEF SearchInv, QuestionIsOpen, OptionIsFilter
<1> QED BY <1>5, <1>6, <1>8 DEF SearchInv

\* A request that failed has either left the question open, or dropped it.
LEMMA RequestFailsInv == ASSUME SearchInv, RequestFails PROVE SearchInv'
<1>1. open' \in Asks /\ question' \in Asks /\ dropped' \in BOOLEAN /\ request' = Idle
  BY DEF RequestFails, SearchInv, SearchShape
<1>2. question' \in Fields /\ ~dropped' => open' = question'
  BY DEF RequestFails, SearchInv, QuestionIsOpen, Replacing
<1> QED BY <1>1, <1>2, IdleInv

LEMMA RecordAndAnswerInv == ASSUME SearchInv, RecordAndAnswer PROVE SearchInv'
<1>1. open' \in Asks /\ question' \in Asks /\ dropped' \in BOOLEAN /\ request' = Idle
  BY DEF RecordAndAnswer, SearchInv, SearchShape, RequestType
<1>2. question' \in Fields => open' = question'
  BY OtherNames DEF RecordAndAnswer, SearchInv, SearchShape, QuestionIsOpen, RequestType, Paths, Choosing
<1> QED BY <1>1, <1>2, IdleInv

LEMMA SearchStepInv == SearchInv /\ [SearchNext]_searchVars => SearchInv'
<1> SUFFICES ASSUME SearchInv, [SearchNext]_searchVars PROVE SearchInv'
  OBVIOUS
<1>1. CASE UNCHANGED searchVars
  BY <1>1 DEF searchVars, SearchInv, SearchShape, QuestionIsOpen, OptionIsFilter, Replacing
<1>2. CASE \E path \in Paths, option \in Options, chosen \in BOOLEAN : AskChat(path, option, chosen)
  BY <1>2, AskChatInv
<1>3. CASE \E extracted \in SUBSET Extracted : \E result \in Results(extracted) : Analyse(result)
  BY <1>3, ResultsType, AnalyseInv
<1>4. CASE Analyse(FallbackResult)
  <2>1. {} \in SUBSET Extracted
    OBVIOUS
  <2> QED BY <1>4, <2>1, ResultsType, AnalyseInv
<1>5. CASE \E found \in BOOLEAN : SearchFreshdesk(found)
  BY <1>5, SearchFreshdeskInv
<1>6. CASE \/ CommonAnswers \/ TenantAnswers \/ StreamAnswers
         \/ TicketsAnswer \/ AgentAnswers \/ PipelineAnswersChat
  BY <1>6, HandlerAnswersInv
<1>7. CASE RequestFails \/ RecordAndAnswer \/ AnalyserSkipped
  BY <1>7, RequestFailsInv, RecordAndAnswerInv, AnalyserSkippedInv
<1> QED BY <1>1, <1>2, <1>3, <1>4, <1>5, <1>6, <1>7 DEF SearchNext, Options

LEMMA SearchInvImplies == SearchInv => SearchTypeOK /\ ChosenOptionIsUsed
<1> SUFFICES ASSUME SearchInv PROVE SearchTypeOK /\ ChosenOptionIsUsed
  OBVIOUS
<1>1. request.fixed \subseteq Filters
  BY AddedFilters DEF SearchInv, SearchShape, RequestType
<1>2. SearchTypeOK
  BY <1>1 DEF SearchInv, SearchShape, RequestType, SearchTypeOK, Options
<1> QED BY <1>2 DEF SearchInv, OptionIsFilter, ChosenOptionIsUsed

(* The session and the request keep their types, filters their values      *)
(* (QueryFilterAnalyzer, ChatUsecase).                                     *)
THEOREM SearchTypeCorrect == SearchSpec => []SearchTypeOK
BY SearchInitInv, SearchStepInv, SearchInvImplies, PTL DEF SearchSpec

(* For any fields and labels: the option a user answers with, on the       *)
(* ticket handler or an agent, is what is searched for, unless a request   *)
(* failed after the question was forgotten or replaced                     *)
(* (_apply_clarification_choice, handle_legacy_chat, record_analyzer_result).*)
THEOREM SearchUsesChosenOption == SearchSpec => []ChosenOptionIsUsed
BY SearchInitInv, SearchStepInv, SearchInvImplies, PTL DEF SearchSpec

-----------------------------------------------------------------------------
LEMMA ListInitInv == ListInit => ListTypeOK
BY DEF ListInit, ListTypeOK

LEMMA ListStep == ListTypeOK /\ [ListNext]_listVars => ListTypeOK'
<1> SUFFICES ASSUME ListTypeOK, [ListNext]_listVars PROVE ListTypeOK'
  OBVIOUS
<1>1. ASSUME NEW p \in Products, AddDocument(p) \/ DeleteDocument(p) PROVE ListTypeOK'
  <2>1. rows \in [Products -> 0..MaxRows] /\ rows[p] \in 0..MaxRows
    BY DEF ListTypeOK
  <2>2. \/ rows' = [rows EXCEPT ![p] = rows[p] + 1] /\ rows[p] + 1 \in 0..MaxRows
        \/ rows' = [rows EXCEPT ![p] = rows[p] - 1] /\ rows[p] - 1 \in 0..MaxRows
    BY <1>1, <2>1, ProductListAssumption DEF AddDocument, DeleteDocument
  <2>3. rows' \in [Products -> 0..MaxRows]
    BY <2>1, <2>2
  <2> QED BY <1>1, <2>3 DEF AddDocument, DeleteDocument, ListTypeOK
<1>2. CASE StartList
  BY <1>2 DEF StartList, ListTypeOK, Present
<1>3. CASE ReadRange
  BY <1>3, ProductListAssumption DEF ReadRange, ListTypeOK, NextOffset, ProductsAt, Present
<1>4. CASE ReadFails
  BY <1>4 DEF ReadFails, ListTypeOK
<1>5. CASE UNCHANGED listVars
  BY <1>5 DEF listVars, ListTypeOK
<1> QED BY <1>1, <1>2, <1>3, <1>4, <1>5 DEF ListNext

(* The rows of the table and the progress of a listing keep their types.   *)
THEOREM ListTypeCorrect == ListSpec => []ListTypeOK
<1> QED BY ListInitInv, ListStep, PTL DEF ListSpec

\* The row after the last of p.
EndRow(p) == FirstRow(p) + rows[p]

(* While the list is read, a product that has had documents throughout was *)
(* seen or has documents after the offset.                                 *)
SteadyAreAhead ==
  listing.stage = "reading" =>
    \A p \in steady : rows[p] > 0 /\ (p \in listing.seen \/ EndRow(p) > listing.offset)

ListInv == ListTypeOK /\ SteadyAreAhead /\ SteadyAreListed

LEMMA ProductSets ==
  ASSUME NEW table \in [Products -> 0..MaxRows], NEW S \in SUBSET Products
  PROVE  IsFiniteSet(S) /\ MaxRows \in Nat /\ \A q \in S : table[q] \in 0..MaxRows
BY ProductListAssumption, FS_Subset

\* The rows of p come after those of smaller products, and are not the last.
LEMMA RowsInOrder ==
  ASSUME NEW table \in [Products -> 0..MaxRows], NEW p \in Products
  PROVE  /\ Total(table, {q \in Products : q < p}) \in Nat /\ table[p] \in Nat
         /\ Total(table, Products) \in Nat
         /\ Total(table, {q \in Products : q < p}) + table[p] \in Nat
         /\ Total(table, {q \in Products : q < p}) + table[p] <= Total(table, Products)
<1> DEFINE B == {q \in Products : q < p}
           U == B \union {p}
<1>1. p \in Nat /\ p \notin B /\ p \in U /\ U \ {p} = B
  BY ProductListAssumption
<1>2. B \in SUBSET Products /\ U \in SUBSET Products
  OBVIOUS
<1> HIDE DEF B, U
<1>3. Total(table, B) \in Nat /\ Total(table, U) \in Nat /\ Total(table, Products) \in Nat
  BY <1>2, ProductSets, SumCounts
<1>4. Total(table, U) = table[p] + Total(table, U \ {p}) /\ table[p] \in Nat
  BY <1>1, <1>2, ProductSets, TotalSplit
<1>5. Total(table, U) <= Total(table, Products)
  <2>1. \A q \in U : table[q] <= table[q]
    BY <1>2, ProductListAssumption
  <2> QED BY <1>2, <2>1, ProductSets, TotalMonotone
<1>6. PICK b, u, a, t \in Nat : /\ b = Total(table, B) /\ u = Total(table, U)
                                /\ a = Total(table, Products) /\ t = table[p]
  BY <1>3, <1>4
<1>7. u = t + b /\ u <= a
  BY <1>1, <1>4, <1>5, <1>6
<1>8. b + t <= a /\ b + t \in Nat
  BY <1>7
<1> QED BY <1>6, <1>8 DEF B

\* A document more before p moves its rows on, one of p makes them more.
LEMMA RowsMoveOn ==
  ASSUME NEW table \in [Products -> 0..MaxRows], NEW next \in [Products -> 0..MaxRows],
         \A q \in Products : table[q] <= next[q], NEW p \in Products
  PROVE  Total(table, {q \in Products : q < p}) + table[p] <= Total(next, {q \in Products : q < p}) + next[p]
<1> DEFINE B == {q \in Products : q < p}
<1>1. B \in SUBSET Products
  OBVIOUS
<1> HIDE DEF B
<1>2. Total(table, B) <= Total(next, B)
  BY <1>1, ProductSets, TotalMonotone
<1>3. Total(table, B) \in Nat /\ Total(next, B) \in Nat
  BY <1>1, ProductSets, SumCounts
<1>4. table[p] \in Nat /\ next[p] \in Nat /\ table[p] <= next[p]
  BY ProductListAssumption
<1>5. Total(table, B) + table[p] <= Total(next, B) + next[p]
  BY <1>2, <1>3, <1>4
<1> QED BY <1>5 DEF B

LEMMA RowsAreTotals ==
  /\ RowsOf(Products) = Total(rows, Products)
  /\ \A p \in Products : EndRow(p) = Total(rows, {q \in Products : q < p}) + rows[p]
  /\ \A p \in Products : FirstRow(p) = Total(rows, {q \in Products : q < p})
BY DEF RowsOf, FirstRow, EndRow, Total

LEMMA RowsAreTotalsNext ==
  /\ RowsOf(Products)' = Total(rows', Products)
  /\ \A p \in Products : EndRow(p)' = Total(rows', {q \in Products : q < p}) + rows'[p]
  /\ \A p \in Products : FirstRow(p)' = Total(rows', {q \in Products : q < p})
<1>1. (RowsOf(Products) = Total(rows, Products))'
  BY RowsAreTotals, PTL
<1>2. (\A p \in Products : EndRow(p) = Total(rows, {q \in Products : q < p}) + rows[p])'
  BY RowsAreTotals, PTL
<1>3. (\A p \in Products : FirstRow(p) = Total(rows, {q \in Products : q < p}))'
  BY RowsAreTotals, PTL
<1> QED BY <1>1, <1>2, <1>3

\* What the types say of the rows in every state.
LEMMA RowsTyped ==
  ASSUME ListTypeOK, NEW p \in Products
  PROVE  /\ FirstRow(p) \in Nat /\ rows[p] \in Nat /\ RowsOf(Products) \in Nat
         /\ EndRow(p) = FirstRow(p) + rows[p] /\ EndRow(p) <= RowsOf(Products)
<1>1. rows \in [Products -> 0..MaxRows]
  BY DEF ListTypeOK
<1> QED BY <1>1, RowsInOrder, RowsAreTotals

\* A document that is added moves no product back.
LEMMA AddDocumentInv ==
  ASSUME ListInv, ListTypeOK', NEW p \in Products, AddDocument(p)
  PROVE  ListInv'
<1>1. UNCHANGED <<listing, steady>> /\ rows' = [rows EXCEPT ![p] = rows[p] + 1]
  BY DEF AddDocument
<1>2. rows \in [Products -> 0..MaxRows] /\ rows' \in [Products -> 0..MaxRows] /\ steady \subseteq Products
      /\ listing.offset \in Nat
  BY DEF ListInv, ListTypeOK
<1>3. \A q \in Products : rows[q] \in Nat /\ rows'[q] \in Nat /\ rows[q] <= rows'[q]
  BY <1>1, <1>2, ProductListAssumption
<1>4. ASSUME listing.stage = "reading", NEW q \in steady
      PROVE  rows'[q] > 0 /\ (q \in listing.seen \/ EndRow(q)' > listing.offset)
  <2>1. rows[q] > 0 /\ (q \in listing.seen \/ EndRow(q) > listing.offset)
    BY <1>4 DEF ListInv, SteadyAreAhead
  <2>2. q \in Products
    BY <1>2
  <2>3. Total(rows, {r \in Products : r < q}) + rows[q] <= Total(rows', {r \in Products : r < q}) + rows'[q]
    BY <1>2, <1>3, <2>2, RowsMoveOn
  <2>4. EndRow(q) <= EndRow(q)'
    BY <2>2, <2>3, RowsAreTotals, RowsAreTotalsNext
  <2>5. PICK e, f, o \in Nat : e = EndRow(q) /\ f = EndRow(q)' /\ o = listing.offset
    <3>1. Total(rows, {r \in Products : r < q}) + rows[q] \in Nat
      BY <1>2, <2>2, RowsInOrder
    <3>2. Total(rows', {r \in Products : r < q}) + rows'[q] \in Nat
      BY <1>2, <2>2, RowsInOrder
    <3>3. EndRow(q) \in Nat /\ EndRow(q)' \in Nat
      BY <2>2, <3>1, <3>2, RowsAreTotals, RowsAreTotalsNext
    <3> QED BY <1>2, <3>3
  <2>6. e > o => f > o
    BY <2>4, <2>5
  <2>7. rows'[q] > 0
    BY <1>3, <2>1, <2>2
  <2> QED BY <2>1, <2>5, <2>6, <2>7
<1>5. SteadyAreAhead'
  BY <1>1, <1>4 DEF SteadyAreAhead
<1>6. SteadyAreListed'
  BY <1>1 DEF ListInv, SteadyAreListed
<1> QED BY <1>5, <1>6 DEF ListInv

\* Whatever still lies ahead of a page is in it, or ahead of the next one.
LEMMA ReadRangeInv ==
  ASSUME ListInv, ListTypeOK', ReadRange
  PROVE  ListInv'
<1>1. /\ UNCHANGED <<rows, steady>> /\ listing.stage = "reading"
      /\ listing'.seen = listing.seen \union ProductsAt(listing.offset)
      /\ listing'.stage = (IF RowsAfter(listing.offset) < RangeSize THEN "listed" ELSE "reading")
      /\ listing'.offset = NextOffset(listing.offset)
  BY DEF ReadRange
<1>2. listing.offset \in Nat /\ steady \subseteq Products /\ RangeSize \in Nat \ {0}
  BY ProductListAssumption DEF ListInv, ListTypeOK
<1>3. ASSUME NEW p \in steady, p \notin listing'.seen
      PROVE  EndRow(p) > listing.offset + RangeSize /\ listing'.stage = "reading"
  <2>1. p \in Products /\ rows[p] > 0 /\ EndRow(p) > listing.offset
    BY <1>1, <1>2, <1>3 DEF ListInv, SteadyAreAhead
  <2>2. PICK f, r, e, a, o, n \in Nat :
          /\ f = FirstRow(p) /\ r = rows[p] /\ e = EndRow(p) /\ a = RowsOf(Products)
          /\ o = listing.offset /\ n = RangeSize
    BY <1>2, <2>1, RowsTyped DEF ListInv
  <2>3. e = f + r /\ e <= a /\ r > 0 /\ e > o
    BY <2>1, <2>2, RowsTyped DEF ListInv
  <2>4. ~(f < o + n)
    <3>1. p \notin ProductsAt(listing.offset)
      BY <1>1, <1>3
    <3> QED BY <2>1, <2>2, <2>3, <3>1 DEF ProductsAt, Present
  <2>5. e > o + n /\ ~(a - o < n) /\ a > o
    BY <2>2, <2>3, <2>4
  <2>6. ~(RowsAfter(listing.offset) < RangeSize)
    BY <2>2, <2>5 DEF RowsAfter
  <2> QED BY <1>1, <2>2, <2>5, <2>6
<1>4. SteadyAreAhead'
  <2> SUFFICES ASSUME NEW p \in steady
               PROVE  rows[p] > 0 /\ (p \in listing'.seen \/ EndRow(p) > listing'.offset)
    <3>1. \A p \in Products : EndRow(p)' = EndRow(p)
      BY <1>1, RowsAreTotals, RowsAreTotalsNext
    <3> QED BY <1>1, <1>2, <3>1 DEF SteadyAreAhead
  <2> QED BY <1>1, <1>3 DEF ListInv, SteadyAreAhead, NextOffset
<1>5. SteadyAreListed'
  BY <1>1, <1>3 DEF SteadyAreListed
<1> QED BY <1>4, <1>5 DEF ListInv

LEMMA ListInvInit == ListInit => ListInv
BY DEF ListInit, ListInv, ListTypeOK, SteadyAreAhead, SteadyAreListed

LEMMA ListInvStep == ListInv /\ ListTypeOK' /\ [ListNext]_listVars => ListInv'
<1> SUFFICES ASSUME ListInv, ListTypeOK', [ListNext]_listVars PROVE ListInv'
  OBVIOUS
<1>1. CASE \E p \in Products : AddDocument(p)
  BY <1>1, AddDocumentInv
<1>2. CASE \E p \in Products : DeleteDocument(p)
  BY <1>2 DEF DeleteDocument, ListInv, SteadyAreAhead, SteadyAreListed
<1>3. CASE StartList
  <2>1. ASSUME NEW p \in Present PROVE rows[p] > 0 /\ EndRow(p) > 0
    <3>1. p \in Products /\ rows[p] > 0
      BY <2>1 DEF Present
    <3>2. PICK f, r \in Nat : f = FirstRow(p) /\ r = rows[p] /\ EndRow(p) = f + r
      BY <3>1, RowsTyped DEF ListInv
    <3>3. r > 0 => f + r > 0
      OBVIOUS
    <3> QED BY <3>1, <3>2, <3>3
  <2>2. listing'.stage = "reading" /\ listing'.offset = 0 /\ steady' = Present /\ UNCHANGED rows
    BY <1>3 DEF StartList
  <2>3. \A p \in Products : EndRow(p)' = EndRow(p)
    BY <2>2, RowsAreTotals, RowsAreTotalsNext
  <2>4. Present \subseteq Products
    BY DEF Present
  <2>5. SteadyAreAhead'
    BY <2>1, <2>2, <2>3, <2>4 DEF SteadyAreAhead
  <2> QED BY <2>2, <2>5 DEF ListInv, SteadyAreListed
<1>4. CASE ReadRange
  BY <1>4, ReadRangeInv
<1>5. CASE ReadFails
  BY <1>5 DEF ReadFails, ListInv, ListTypeOK, SteadyAreAhead, SteadyAreListed
<1>6. CASE UNCHANGED listVars
  <2>1. \A p \in Products : EndRow(p)' = EndRow(p)
    BY <1>6, RowsAreTotals, RowsAreTotalsNext DEF listVars
  <2>2. UNCHANGED <<rows, listing, steady>>
    BY <1>6 DEF listVars
  <2>3. steady \subseteq Products
    BY DEF ListInv, ListTypeOK
  <2>4. SteadyAreAhead' /\ SteadyAreListed'
    BY <2>1, <2>2, <2>3 DEF ListInv, SteadyAreAhead, SteadyAreListed
  <2> QED BY <2>4 DEF ListInv
<1> QED BY <1>1, <1>2, <1>3, <1>4, <1>5, <1>6 DEF ListNext

(* A product with documents throughout a listing is on it (list_products), *)
(* for any number of products and documents, any size of a page, and       *)
(* however many documents are added between the pages.                     *)
THEOREM ListSteadyAreListed == ListSpec => []SteadyAreListed
<1>1. ListInit => ListInv
  BY ListInvInit
<1>2. ListInv /\ [ListNext]_listVars => ListInv'
  <2>1. ListInv => ListTypeOK
    BY DEF ListInv
  <2> QED BY <2>1, ListStep, ListInvStep
<1>3. ListInv => SteadyAreListed
  BY DEF ListInv
<1> QED BY <1>1, <1>2, <1>3, PTL DEF ListSpec

-----------------------------------------------------------------------------
\* A step of the composition is a step of each service, or leaves it alone.
LEMMA PartsStep ==
  ASSUME [Next]_vars
  PROVE  /\ [LearningNext]_learningVars /\ [MentorNext]_mentorVars /\ [QuizNext]_quizVars
         /\ [AnalysisNext]_analysisVars /\ [CachesNext]_cachesVars /\ [FallbacksNext]_fallbackVars
         /\ [AdminNext]_adminVars /\ [LabelsNext]_labelVars /\ [ReuploadNext]_reuploadVars
         /\ [ListNext]_listVars /\ [SearchNext]_searchVars /\ [KnowledgeNext]_knowledgeVars
         /\ UNCHANGED part
<1>1. CASE UNCHANGED vars
  BY <1>1 DEF vars
<1>2. CASE LearningPart \/ MentorPart \/ QuizPart \/ AnalysisPart
  BY <1>2 DEF LearningPart, MentorPart, QuizPart, AnalysisPart, Active
<1>3. CASE CachesPart \/ FallbacksPart \/ AdminPart \/ LabelsPart
  BY <1>3 DEF CachesPart, FallbacksPart, AdminPart, LabelsPart, Active
<1>4. CASE ReuploadPart \/ ProductsPart \/ SearchPart \/ KnowledgePart
  BY <1>4 DEF ReuploadPart, ProductsPart, SearchPart, KnowledgePart, Active
<1> QED BY <1>1, <1>2, <1>3, <1>4 DEF Next

(* A behaviour of the composition is one of every service, in its turn or *)
(* waiting for ever: what is proved of a service holds in the composition  *)
(* that TLC runs.                                                          *)
THEOREM ServicesCompose ==
  Spec => /\ LearningSpec /\ MentorSpec /\ QuizSpec /\ AnalysisSpec /\ CachesSpec /\ FallbacksSpec
          /\ AdminSpec /\ LabelsSpec /\ ReuploadSpec /\ ListSpec /\ SearchSpec /\ KnowledgeSpec
<1>1. Init => /\ LearningInit /\ MentorInit /\ QuizInit /\ AnalysisInit /\ CachesInit /\ FallbacksInit
              /\ AdminInit /\ LabelsInit /\ ReuploadInit /\ ListInit /\ SearchInit /\ KnowledgeInit
  BY DEF Init
<1>2. [Next]_vars =>
         /\ [LearningNext]_learningVars /\ [MentorNext]_mentorVars /\ [QuizNext]_quizVars
         /\ [AnalysisNext]_analysisVars /\ [CachesNext]_cachesVars /\ [FallbacksNext]_fallbackVars
         /\ [AdminNext]_adminVars /\ [LabelsNext]_labelVars /\ [ReuploadNext]_reuploadVars
         /\ [ListNext]_listVars /\ [SearchNext]_searchVars /\ [KnowledgeNext]_knowledgeVars
  BY PartsStep
<1> QED
  BY <1>1, <1>2, PTL DEF Spec, LearningSpec, MentorSpec, QuizSpec, AnalysisSpec, CachesSpec, FallbacksSpec,
     AdminSpec, LabelsSpec, ReuploadSpec, ListSpec, SearchSpec, KnowledgeSpec

(* Every service keeps its types, whichever has its turn.                  *)
THEOREM ServicesTypeCorrect == Spec => []TypeOK
<1>1. Init => part \in Parts
  BY DEF Init
<1>2. part \in Parts /\ [Next]_vars => (part \in Parts)'
  BY PartsStep
<1>3. /\ part \in Parts
      /\ LearningTypeOK /\ MentorTypeOK /\ QuizTypeOK /\ AnalysisTypeOK /\ CachesTypeOK /\ FallbacksTypeOK
      /\ AdminTypeOK /\ LabelsTypeOK /\ ReuploadTypeOK /\ ListTypeOK /\ SearchTypeOK /\ KnowledgeTypeOK
      => TypeOK
  BY Zenon DEF TypeOK, Parts
<1> QED
  BY <1>1, <1>2, <1>3, ServicesCompose, LearningTypeCorrect, MentorTypeCorrect, QuizTypeCorrect, AnalysisTypeCorrect,
     CachesTypeCorrect, FallbacksTypeCorrect, AdminTypeCorrect, LabelsTypeCorrect, ReuploadTypeCorrect,
     ListTypeCorrect, SearchTypeCorrect, KnowledgeTypeCorrect, PTL DEF Spec

(* All that the run of the services checks, for every value of its         *)
(* constants.                                                              *)
THEOREM ServicesSafe ==
  Spec => /\ [](TriesBacked /\ LatestTurnsInOrder /\ FullMarks /\ RowsTellTheOutcome /\ ExportedOnce)
          /\ [](CachedListIsRecent /\ KeptListHasOwnChanges /\ FailoverEarned /\ DuplicatesAreLostAnswers)
          /\ [](RefusedOnlyWhileRunning /\ KnownIsLabelled /\ StoredBehindCursor /\ SteadyAreListed)
          /\ [](ChosenOptionIsUsed /\ NotFoundIsGone)
          /\ ProgressSurvives /\ AnswersKeepContext
BY ServicesCompose, LearningTriesBacked, LearningProgressSurvives, MentorLatestTurns, MentorKeepsContext,
   QuizFullMarks, AnalysisRowsTellTheOutcome, AnalysisExportedOnce, CachesListIsRecent, CachesListHasOwnChanges,
   FallbacksFailoverEarned, FallbacksDuplicatesLost, AdminRefusesRightly, LabelsKnownIsLabelled,
   ReuploadStoredBehindCursor, ListSteadyAreListed, SearchUsesChosenOption, KnowledgeNotFoundIsGone, PTL

=============================================================================
