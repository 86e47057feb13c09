----------------------------- MODULE TicketPages -----------------------------
(***************************************************************************)
(* FreshdeskIngestionService.fetch_tickets_generator of                    *)
(* app/services/ingestion_service.py: PageConc pages are requested at a    *)
(* time, a pool of workers per page attaches the conversations of its      *)
(* tickets, and the pages are yielded in order to the consumer,            *)
(* SyncService._sync_tickets_batch.                                        *)
(*                                                                         *)
(* The pages of a group are named by their place in it, 1 .. PageConc.     *)
(* The help desk's tickets do not change while they are fetched.           *)
(***************************************************************************)
EXTENDS Naturals, Sequences

CONSTANTS
  NPages, PerPage, LastSize,  \* the tickets of the help desk, as in TicketStream
  PageConc,                   \* page_concurrency
  Workers                     \* conversation_concurrency

ASSUME SizeAssumption ==
  /\ NPages \in Nat /\ PerPage \in Nat \ {0}
  /\ LastSize \in 1 .. PerPage
ASSUME ConcurrencyAssumption == PageConc \in Nat \ {0} /\ Workers \in Nat \ {0}

VARIABLES
  pc,         \* where the generator stands
  page,       \* first page of the group
  answer,     \* what the request of each page of the group came back with
  todo,       \* pages of the group that are still to be yielded
  cursor,     \* per page: tickets taken by the workers
  at,         \* per page and worker: the ticket it is fetching
  results,    \* per page and ticket: its record
  out,        \* history: the batches yielded
  failed      \* history: pages whose request failed

vars == <<pc, page, answer, todo, cursor, at, results, out, failed>>
poolVars == <<cursor, at, results>>

Group == 1 .. PageConc
PageSize(p) == IF p < NPages THEN PerPage ELSE IF p = NPages THEN LastSize ELSE 0
Size(i) == PageSize(page + i - 1)

\* where a worker stands besides fetching ticket 1, 2, ...
NotStarted == 0
Returned == PerPage + 1

TypeOK ==
  /\ pc \in {"pages", "conversations", "yielding", "done"}
  /\ page \in 1 .. NPages + PageConc
  /\ answer \in [Group -> {"asked", "failed", "tickets"}]
  /\ todo \subseteq Group
  /\ cursor \in [Group -> 0 .. PerPage]
  /\ at \in [Group -> [1 .. Workers -> 0 .. PerPage + 1]]
  /\ results \in [Group -> [1 .. PerPage -> {"none", "conversations", "empty"}]]
  /\ failed \subseteq 1 .. NPages + 2 * PageConc

Init ==
  /\ pc = "pages"
  /\ page = 1
  /\ answer = [i \in Group |-> "asked"]
  /\ todo = {}
  /\ cursor = [i \in Group |-> 0]
  /\ at = [i \in Group |-> [w \in 1 .. Workers |-> Returned]]
  /\ results = [i \in Group |-> [n \in 1 .. PerPage |-> "none"]]
  /\ out = <<>>
  /\ failed = {}

-----------------------------------------------------------------------------
(* Fetching the pages of a group *)

PageArrives(i) ==
  /\ pc = "pages" /\ answer[i] = "asked"
  /\ answer' = [answer EXCEPT ![i] = "tickets"]
  /\ UNCHANGED <<pc, page, todo, poolVars, out, failed>>

PageFails(i) ==
  /\ pc = "pages" /\ answer[i] = "asked"
  /\ answer' = [answer EXCEPT ![i] = "failed"]
  /\ failed' = failed \union {page + i - 1}
  /\ UNCHANGED <<pc, page, todo, poolVars, out>>

\* valid_pages_data: the pages that came with tickets
Valid == {i \in Group : answer[i] = "tickets" /\ Size(i) > 0}

\* the size of the worker pool: max(1, min(concurrency, len(tickets)))
PoolSize(i) == IF Workers < Size(i) THEN Workers ELSE Size(i)

\* gather returned: a group without a valid page ends the generator, any
\* other gets its worker pools.
GroupFetched ==
  /\ pc = "pages"
  /\ \A i \in Group : answer[i] # "asked"
  /\ pc' = IF Valid = {} THEN "done" ELSE "conversations"
  /\ todo' = Valid
  /\ cursor' = [i \in Group |-> 0]
  /\ at' = [i \in Group |-> [w \in 1 .. Workers |->
              IF i \in Valid /\ w <= PoolSize(i) THEN NotStarted ELSE Returned]]
  /\ results' = [i \in Group |-> [n \in 1 .. PerPage |-> "none"]]
  /\ UNCHANGED <<page, answer, out, failed>>

-----------------------------------------------------------------------------
(* The worker pools of _attach_conversations *)

Claim_OffByOne(i, w) ==
  IF cursor[i] > Size(i)
  THEN at' = [at EXCEPT ![i][w] = Returned] /\ UNCHANGED cursor
  ELSE /\ at' = [at EXCEPT ![i][w] = cursor[i] + 1]
       /\ cursor' = [cursor EXCEPT ![i] = @ + 1]
Claim_NotCounted(i, w) ==
  /\ at' = [at EXCEPT ![i][w] = IF cursor[i] >= Size(i) THEN Returned ELSE cursor[i] + 1]
  /\ UNCHANGED cursor

\* A worker takes the next ticket of its page, or returns.
Claim(i, w) ==
  IF cursor[i] >= Size(i)
  THEN /\ at' = [at EXCEPT ![i][w] = Returned]
       /\ UNCHANGED cursor
  ELSE /\ at' = [at EXCEPT ![i][w] = cursor[i] + 1]
       /\ cursor' = [cursor EXCEPT ![i] = @ + 1]

StartWorker(i, w) ==
  /\ pc = "conversations" /\ at[i][w] = NotStarted
  /\ Claim(i, w)
  /\ UNCHANGED <<pc, page, answer, todo, results, out, failed>>

\* The conversations of a ticket arrive, or their request fails; the worker
\* records it and goes on to the next ticket without suspending.
FinishTicket(i, w) ==
  /\ pc = "conversations" /\ at[i][w] \in 1 .. PerPage
  /\ \E r \in {"conversations", "empty"} :
       results' = [results EXCEPT ![i][at[i][w]] = r]
  /\ Claim(i, w)
  /\ UNCHANGED <<pc, page, answer, todo, out, failed>>

PoolsReturned == \A i \in Group, w \in 1 .. Workers : at[i][w] = Returned

\* gather over the pools returned
Attached ==
  /\ pc = "conversations"
  /\ PoolsReturned
  /\ pc' = "yielding"
  /\ UNCHANGED <<page, answer, todo, poolVars, out, failed>>

-----------------------------------------------------------------------------
(* Yielding *)

NextTodo_AnyOrder(i) == i \in todo
NextTodo(i) == i \in todo /\ \A j \in todo : i <= j

\* [r for r in results if r is not None], each still with its ticket
Records(i) ==
  [n \in {m \in 1 .. Size(i) : results[i][m] # "none"} |-> results[i][n]]

YieldPage(i) ==
  /\ pc = "yielding" /\ NextTodo(i)
  /\ out' = Append(out, [page |-> page + i - 1, records |-> Records(i)])
  /\ todo' = todo \ {i}
  /\ UNCHANGED <<pc, page, answer, poolVars, failed>>

ShouldStop_OnFailure == \E i \in Group : answer[i] = "failed" \/ Size(i) < PerPage
\* A page that is not full, or is empty, is the last one.
ShouldStop == \E i \in Group : answer[i] = "tickets" /\ Size(i) < PerPage

\* The consumer asks for more after the last page of the group: the generator
\* returns, or requests the next group.
AdvanceGroup ==
  /\ pc = "yielding" /\ todo = {}
  /\ IF ShouldStop
     THEN /\ pc' = "done"
          /\ UNCHANGED <<page, answer>>
     ELSE /\ pc' = "pages"
          /\ page' = page + PageConc
          /\ answer' = [i \in Group |-> "asked"]
  /\ UNCHANGED <<todo, poolVars, out, failed>>

Exhausted == pc = "done" /\ UNCHANGED vars

Step ==
  \/ \E i \in Group : PageArrives(i) \/ PageFails(i) \/ YieldPage(i)
  \/ GroupFetched
  \/ \E i \in Group, w \in 1 .. Workers : StartWorker(i, w) \/ FinishTicket(i, w)
  \/ Attached \/ AdvanceGroup

Next == Step \/ Exhausted

\* Requests end, by an answer or a timeout, and the consumer keeps iterating.
Spec == Init /\ [][Next]_vars /\ WF_vars(Step)

-----------------------------------------------------------------------------
(* Properties *)

\* A page missing from what was yielded is one whose own request failed, or
\* lies behind a group of which every request failed: the generator takes such
\* a group for the end of the tickets.
MissingPagesFailed ==
  pc = "done" =>
    \A p \in 1 .. NPages :
      \/ \E n \in DOMAIN out : out[n].page = p
      \/ p \in failed
      \/ page + PageConc <= p /\ \A i \in Group : page + i - 1 \in failed

\* No two workers fetch the same ticket, and every ticket before the cursor
\* has its record or is being fetched: a worker that gives up leaves a record.
TicketsClaimedOnce ==
  pc = "conversations" =>
    \A i \in todo :
      /\ \A v, w \in 1 .. Workers : at[i][v] = at[i][w] /\ at[i][v] \in 1 .. PerPage => v = w
      /\ \A n \in 1 .. cursor[i] :
           results[i][n] = "none" <=> \E w \in 1 .. Workers : at[i][w] = n

\* What the consumer relies on: TicketStream, with "done" as its end.
Stream == INSTANCE TicketStream WITH ended <- (pc = "done")
StreamSpec == Stream!Spec
=============================================================================
