-------------------------------- MODULE Caches --------------------------------
(***************************************************************************)
(* Answers kept for a while: the list of File Search stores of             *)
(* app/services/gemini_file_search.py, in memory, and the ticket fields of *)
(* a tenant of app/services/tenant_ticket_fields_cache.py, in Supabase.    *)
(*                                                                         *)
(* A request that finds no fresh answer fetches one and stores it when the *)
(* fetch is over; nothing keeps two requests from fetching at once, nor a  *)
(* change at the source from happening meanwhile.                          *)
(***************************************************************************)
EXTENDS Naturals

CONSTANTS
  Callers,    \* requests
  Ttl,        \* CACHE_TTL_SECONDS, and the ttl of TenantTicketFieldsCache
  MaxClock,   \* bound: ticks of the clock
  MaxChanges  \* bound: changes at each source

ASSUME CachesAssumption == Ttl \in Nat /\ MaxClock \in Nat /\ MaxChanges \in Nat

VARIABLES
  clock,
  source,   \* per cache: the number of changes at Google or Freshdesk
  entry,    \* per cache: the answer kept
  caller,   \* per caller: where it is, and what it has read
  dirty     \* history: changes that a fetch under way, or a lost answer, can hide

cachesVars == <<clock, source, entry, caller, dirty>>

\* stores: get_file_search_stores; fields: get_or_refresh_freshdesk_ticket_fields
CacheKinds == {"stores", "fields"}
Times == 0..MaxClock
NoEntry == [kept |-> FALSE, value |-> 0, readAt |-> 0, stamp |-> 0]
NewCaller == [stage |-> "idle", kind |-> "stores", value |-> 0, readAt |-> 0, start |-> 0, cached |-> FALSE]
CallerStages == {"idle", "fetching", "read", "changing", "changed", "served", "over"}

CachesTypeOK ==
  /\ clock \in Times
  /\ source \in [CacheKinds -> 0..MaxChanges]
  /\ entry \in [CacheKinds -> [kept : BOOLEAN, value : 0..MaxChanges, readAt : Times, stamp : Times]]
  /\ caller \in [Callers -> [stage : CallerStages, kind : CacheKinds, value : 0..MaxChanges,
                             readAt : Times, start : Times, cached : BOOLEAN]]
  /\ dirty \in BOOLEAN

CachesInit ==
  /\ clock = 0
  /\ source = [k \in CacheKinds |-> 0]
  /\ entry = [k \in CacheKinds |-> NoEntry]
  /\ caller = [c \in Callers |-> NewCaller]
  /\ dirty = FALSE

\* A list of stores is kept for less than Ttl, ticket fields for Ttl at most.
IsFresh(k) ==
  /\ entry[k].kept
  /\ IF k = "stores" THEN clock - entry[k].stamp < Ttl ELSE clock - entry[k].stamp <= Ttl

Tick ==
  /\ clock < MaxClock /\ clock' = clock + 1
  /\ UNCHANGED <<source, entry, caller, dirty>>

-----------------------------------------------------------------------------
(* The answer is kept and fresh.                                           *)
ServeCached(c, k) ==
  /\ caller[c].stage = "idle" /\ IsFresh(k)
  /\ caller' = [caller EXCEPT ![c] = [stage |-> "served", kind |-> k, value |-> entry[k].value,
                                      readAt |-> entry[k].readAt, start |-> clock, cached |-> TRUE]]
  /\ UNCHANGED <<clock, source, entry, dirty>>

(* It is not; or it is about ticket fields and the row could not be read,  *)
(* the tenant not resolved, or a refresh forced.                           *)
BeginFetch(c, k) ==
  /\ caller[c].stage = "idle" /\ (k = "fields" \/ ~IsFresh(k))
  /\ caller' = [caller EXCEPT ![c] = [stage |-> "fetching", kind |-> k, value |-> 0, readAt |-> 0,
                                      start |-> clock, cached |-> FALSE]]
  /\ UNCHANGED <<clock, source, entry, dirty>>

(* The source answers.  Of a list in pages, the first page counts.         *)
SourceAnswers(c) ==
  /\ caller[c].stage = "fetching"
  /\ caller' = [caller EXCEPT ![c].stage = "read", ![c].value = source[caller[c].kind], ![c].readAt = clock]
  /\ UNCHANGED <<clock, source, entry, dirty>>

FetchFails(c) ==
  /\ caller[c].stage \in {"fetching", "read"}
  /\ caller' = [caller EXCEPT ![c].stage = "over"]
  /\ UNCHANGED <<clock, source, entry, dirty>>

StoreAnswer_StampedLate(c, written) ==
  /\ caller[c].stage = "read" /\ (caller[c].kind = "stores" => written)
  /\ entry' = IF written THEN [entry EXCEPT ![caller[c].kind] =
                [kept |-> TRUE, value |-> caller[c].value, readAt |-> caller[c].readAt, stamp |-> clock]] ELSE entry
  /\ caller' = [caller EXCEPT ![c].stage = "served"]
  /\ UNCHANGED <<clock, source, dirty>>

(* The last page is there.  A list is stamped with the time its request    *)
(* began, ticket fields with the time they are written; that write may     *)
(* fail, and is left out for an unknown tenant.                            *)
StoreAnswer(c, written) ==
  /\ caller[c].stage = "read" /\ (caller[c].kind = "stores" => written)
  /\ entry' = IF written THEN [entry EXCEPT ![caller[c].kind] =
                [kept |-> TRUE, value |-> caller[c].value, readAt |-> caller[c].readAt,
                 stamp |-> IF caller[c].kind = "stores" THEN caller[c].start ELSE clock]] ELSE entry
  /\ caller' = [caller EXCEPT ![c].stage = "served"]
  /\ UNCHANGED <<clock, source, dirty>>

-----------------------------------------------------------------------------
(* A store is created, or deleted once its documents were seen to be gone. *)
BeginChange(c) ==
  /\ caller[c].stage = "idle" /\ source["stores"] < MaxChanges
  /\ caller' = [caller EXCEPT ![c].stage = "changing"]
  /\ UNCHANGED <<clock, source, entry, dirty>>

Fetching(k) == \E c \in Callers : caller[c].stage \in {"fetching", "read"} /\ caller[c].kind = k

(* Google does it; the answer may not arrive, and then nothing is          *)
(* invalidated.                                                            *)
SourceChanges(c, answered) ==
  /\ caller[c].stage = "changing" /\ source["stores"] < MaxChanges
  /\ source' = [source EXCEPT !["stores"] = @ + 1]
  /\ caller' = [caller EXCEPT ![c].stage = IF answered THEN "changed" ELSE "over", ![c].value = source'["stores"]]
  /\ dirty' = (dirty \/ ~answered \/ Fetching("stores"))
  /\ UNCHANGED <<clock, entry>>

Invalidate_Forgotten(c) ==
  /\ caller[c].stage = "changed"
  /\ caller' = [caller EXCEPT ![c].stage = "over"]
  /\ UNCHANGED <<clock, source, entry, dirty>>

Invalidate(c) ==
  /\ caller[c].stage = "changed"
  /\ entry' = [entry EXCEPT !["stores"] = NoEntry]
  /\ caller' = [caller EXCEPT ![c].stage = "over"]
  /\ UNCHANGED <<clock, source, dirty>>

(* Someone changes the fields in Freshdesk, or stores without this server. *)
ChangeElsewhere(k) ==
  /\ source[k] < MaxChanges
  /\ source' = [source EXCEPT ![k] = @ + 1]
  /\ dirty' = (dirty \/ k = "stores")
  /\ UNCHANGED <<clock, entry, caller>>

CachesRestart ==
  /\ entry' = [entry EXCEPT !["stores"] = NoEntry]
  /\ caller' = [c \in Callers |-> IF caller[c].stage = "idle" THEN caller[c]
                                  ELSE [caller[c] EXCEPT !.stage = "over"]]
  /\ dirty' = (dirty \/ \E c \in Callers : caller[c].stage = "changing")
  /\ UNCHANGED <<clock, source>>

CachesNext ==
  \/ Tick
  \/ \E c \in Callers :
       \/ \E k \in CacheKinds : ServeCached(c, k) \/ BeginFetch(c, k)
       \/ SourceAnswers(c) \/ FetchFails(c)
       \/ \E written \in BOOLEAN : StoreAnswer(c, written)
       \/ BeginChange(c) \/ Invalidate(c)
       \/ \E answered \in BOOLEAN : SourceChanges(c, answered)
  \/ \E k \in CacheKinds : ChangeElsewhere(k)
  \/ CachesRestart

CachesSpec == CachesInit /\ [][CachesNext]_cachesVars

-----------------------------------------------------------------------------
(* However long a listing took, a list of stores served from the cache was *)
(* read from Google less than Ttl ago (its stamp is taken before the first *)
(* request), so a change made elsewhere is missed no longer than that.     *)
CachedListIsRecent ==
  \A c \in Callers :
    caller[c].stage = "served" /\ caller[c].cached /\ caller[c].kind = "stores"
      => caller[c].start - caller[c].readAt < Ttl

(* Changes made through this server are seen at once: once the answer to a *)
(* change is out, the list that is kept has it, unless a listing was under *)
(* way when it was made, its answer was lost, or it was made elsewhere.    *)
KeptListHasOwnChanges ==
  ~dirty /\ entry["stores"].kept /\ ~(\E c \in Callers : caller[c].stage = "changed")
    => entry["stores"].value = source["stores"]

=============================================================================
