-------------------------- MODULE TicketPagesProofs --------------------------
(***************************************************************************)
(* Proofs about TicketPages for any number of pages, tickets and workers:  *)
(* the worker pools lose no ticket, a page is only missing because         *)
(* requests failed, and the generator implements TicketStream.             *)
(***************************************************************************)
EXTENDS TicketPages, WellFoundedInduction, TLAPS

USE SizeAssumption, ConcurrencyAssumption

\* The pool of a page: its workers are at different tickets up to the cursor,
\* every ticket up to it has its record or a worker, no ticket behind it has a
\* record, and the first worker returns only when the tickets are used up.
PoolInv(i) ==
  /\ cursor[i] <= Size(i)
  /\ \A w \in 1 .. Workers : at[i][w] \in 1 .. PerPage => at[i][w] <= cursor[i]
  /\ \A v, w \in 1 .. Workers : at[i][v] = at[i][w] /\ at[i][v] \in 1 .. PerPage => v = w
  /\ \A n \in 1 .. PerPage :
       n <= cursor[i] => (results[i][n] = "none" <=> \E w \in 1 .. Workers : at[i][w] = n)
  /\ \A n \in 1 .. PerPage : n > cursor[i] => results[i][n] = "none"
  /\ at[i][1] = Returned => cursor[i] = Size(i)

AttachInv ==
  /\ pc = "conversations" => \A i \in todo : PoolInv(i)
  /\ pc = "yielding" => \A i \in todo : \A n \in 1 .. Size(i) : results[i][n] # "none"

\* a batch as TicketStream has it
Batch == UNION {[page : {p}, records : Stream!Record(p)] : p \in 1 .. NPages}

\* What is still to be yielded exists and lies behind what was yielded.
OrderInv ==
  /\ out \in Seq(Batch)
  /\ pc \in {"conversations", "yielding"} =>
       page <= NPages /\ \A i \in todo : page + i - 1 <= NPages
  /\ pc \in {"pages", "conversations"} => Stream!LastDelivered < page
  /\ pc = "yielding" =>
       /\ Stream!LastDelivered < page + PageConc
       /\ \A i \in todo : Stream!LastDelivered < page + i - 1

Yielded(p) == \E n \in DOMAIN out : out[n].page = p

\* Every page was yielded, failed, or is still to come.
CoverInv ==
  /\ \A p \in 1 .. NPages : p < page => Yielded(p) \/ p \in failed
  /\ \A i \in Group : answer[i] = "failed" => page + i - 1 \in failed
  /\ pc \in {"conversations", "yielding"} =>
       \A i \in Group : page + i - 1 <= NPages =>
         i \in todo \/ Yielded(page + i - 1) \/ page + i - 1 \in failed

IInv ==
  /\ TypeOK
  /\ AttachInv
  /\ OrderInv
  /\ CoverInv
  /\ MissingPagesFailed

LEMMA SizeBounds ==
  ASSUME TypeOK, NEW i \in Group
  PROVE  /\ Size(i) \in 0 .. PerPage
         /\ page + i - 1 \in 1 .. NPages + 2 * PageConc
         /\ Size(i) > 0 => page + i - 1 <= NPages
         /\ page + i - 1 <= NPages => Size(i) > 0
         /\ Size(i) < PerPage => page + i - 1 >= NPages
         /\ Size(i) = Stream!PageSize(page + i - 1)
<1>1. page \in 1 .. NPages + PageConc /\ i \in 1 .. PageConc
  BY DEF TypeOK, Group
<1>. QED
  BY <1>1 DEF Size, PageSize, Stream!PageSize

LEMMA InitInv == Init => IInv
<1>. SUFFICES ASSUME Init PROVE IInv
  OBVIOUS
<1>1. TypeOK
  BY DEF Init, TypeOK, Returned
<1>2. AttachInv
  BY DEF Init, AttachInv
<1>3. OrderInv
  BY DEF Init, OrderInv, Stream!LastDelivered
<1>4. CoverInv /\ MissingPagesFailed
  BY DEF Init, CoverInv, MissingPagesFailed
<1>. QED
  BY <1>1, <1>2, <1>3, <1>4 DEF IInv

LEMMA ClaimType ==
  ASSUME TypeOK, NEW i \in Group, NEW w \in 1 .. Workers, Claim(i, w)
  PROVE  /\ cursor' \in [Group -> 0 .. PerPage]
         /\ at' \in [Group -> [1 .. Workers -> 0 .. PerPage + 1]]
<1>1. Size(i) \in 0 .. PerPage
  BY SizeBounds
<1>2. cursor[i] \in 0 .. PerPage /\ at[i] \in [1 .. Workers -> 0 .. PerPage + 1]
  BY DEF TypeOK
<1>3. \A v \in 0 .. PerPage + 1 :
        [at EXCEPT ![i][w] = v] \in [Group -> [1 .. Workers -> 0 .. PerPage + 1]]
  BY <1>2 DEF TypeOK
<1>4. CASE cursor[i] >= Size(i)
  <2>1. at' = [at EXCEPT ![i][w] = Returned] /\ cursor' = cursor
    BY <1>4 DEF Claim
  <2>2. Returned \in 0 .. PerPage + 1
    BY DEF Returned
  <2>. QED
    BY <1>3, <2>1, <2>2 DEF TypeOK
<1>5. CASE ~(cursor[i] >= Size(i))
  <2>1. at' = [at EXCEPT ![i][w] = cursor[i] + 1] /\ cursor' = [cursor EXCEPT ![i] = @ + 1]
    BY <1>5 DEF Claim
  <2>2. cursor[i] + 1 \in 0 .. PerPage
    BY <1>1, <1>2, <1>5
  <2>3. cursor[i] + 1 \in 0 .. PerPage + 1
    BY <2>2
  <2>. QED
    BY <1>3, <2>1, <2>2, <2>3 DEF TypeOK
<1>. QED
  BY <1>4, <1>5

LEMMA TypeStep == IInv /\ [Next]_vars => TypeOK'
<1>. SUFFICES ASSUME IInv, [Next]_vars PROVE TypeOK'
  OBVIOUS
<1>0. TypeOK /\ OrderInv
  BY DEF IInv
<1>1. ASSUME NEW i \in Group, PageArrives(i) PROVE TypeOK'
  BY <1>0, <1>1 DEF TypeOK, PageArrives, poolVars
<1>2. ASSUME NEW i \in Group, PageFails(i) PROVE TypeOK'
  BY <1>0, <1>2, SizeBounds DEF TypeOK, PageFails, poolVars
<1>3. CASE GroupFetched
  BY <1>0, <1>3 DEF TypeOK, GroupFetched, Valid, NotStarted, Returned
<1>4. ASSUME NEW i \in Group, NEW w \in 1 .. Workers, StartWorker(i, w) PROVE TypeOK'
  BY <1>0, <1>4, ClaimType DEF TypeOK, StartWorker
<1>5. ASSUME NEW i \in Group, NEW w \in 1 .. Workers, FinishTicket(i, w) PROVE TypeOK'
  <2>1. results' \in [Group -> [1 .. PerPage -> {"none", "conversations", "empty"}]]
    BY <1>0, <1>5 DEF TypeOK, FinishTicket
  <2>. QED
    BY <1>0, <1>5, <2>1, ClaimType DEF TypeOK, FinishTicket
<1>6. CASE Attached
  BY <1>0, <1>6 DEF TypeOK, Attached, poolVars
<1>7. ASSUME NEW i \in Group, YieldPage(i) PROVE TypeOK'
  BY <1>0, <1>7 DEF TypeOK, YieldPage, poolVars
<1>8. CASE AdvanceGroup
  BY <1>0, <1>8 DEF TypeOK, OrderInv, AdvanceGroup, poolVars
<1>9. CASE UNCHANGED vars
  BY <1>0, <1>9 DEF TypeOK, vars
<1>. QED
  BY <1>1, <1>2, <1>3, <1>4, <1>5, <1>6, <1>7, <1>8, <1>9 DEF Next, Step, Exhausted

\* What a worker's step does to the pool of its page, whether it starts or has
\* just recorded a ticket.
LEMMA PoolClaim ==
  ASSUME TypeOK, TypeOK', NEW i \in Group, NEW w \in 1 .. Workers, PoolInv(i), Claim(i, w),
         page' = page, at[i][w] # Returned,
         at[i][w] \in 1 .. PerPage => results'[i][at[i][w]] # "none",
         \A n \in 1 .. PerPage : n # at[i][w] => results'[i][n] = results[i][n]
  PROVE  PoolInv(i)'
<1>1. /\ cursor[i] \in 0 .. PerPage /\ at[i] \in [1 .. Workers -> 0 .. PerPage + 1]
      /\ Size(i) \in 0 .. PerPage /\ Size(i)' = Size(i)
  BY SizeBounds DEF TypeOK, Size
<1>2. CASE cursor[i] >= Size(i)
  <2>1. /\ cursor'[i] = cursor[i] /\ cursor[i] = Size(i)
        /\ at'[i] = [at[i] EXCEPT ![w] = Returned]
    BY <1>1, <1>2 DEF Claim, PoolInv, TypeOK
  <2>2. /\ at'[i][w] = Returned
        /\ \A v \in 1 .. Workers : v # w => at'[i][v] = at[i][v]
    BY <1>1, <2>1
  <2>3. cursor'[i] <= Size(i)'
    BY <1>1, <2>1
  <2>4. \A v \in 1 .. Workers : at'[i][v] \in 1 .. PerPage => at'[i][v] <= cursor'[i]
    BY <1>1, <2>1, <2>2 DEF PoolInv, Returned
  <2>5. \A u, v \in 1 .. Workers :
          at'[i][u] = at'[i][v] /\ at'[i][u] \in 1 .. PerPage => u = v
    BY <1>1, <2>1, <2>2 DEF PoolInv, Returned
  <2>6. ASSUME NEW n \in 1 .. PerPage, n <= cursor'[i]
        PROVE  results'[i][n] = "none" <=> \E v \in 1 .. Workers : at'[i][v] = n
    <3>1. CASE n = at[i][w]
      BY <1>1, <2>1, <2>2, <2>6, <3>1 DEF PoolInv, Returned
    <3>2. CASE n # at[i][w]
      <4>1. (\E v \in 1 .. Workers : at'[i][v] = n) <=> \E v \in 1 .. Workers : at[i][v] = n
        BY <2>2, <3>2 DEF Returned
      <4>. QED
        BY <2>1, <2>6, <3>2, <4>1 DEF PoolInv
    <3>. QED
      BY <3>1, <3>2
  <2>7. \A n \in 1 .. PerPage : n > cursor'[i] => results'[i][n] = "none"
    <3>. SUFFICES ASSUME NEW n \in 1 .. PerPage, n > cursor[i]
                  PROVE  results'[i][n] = "none"
      BY <1>1, <2>1
    <3>1. n # at[i][w]
      BY <1>1 DEF PoolInv
    <3>. QED
      BY <3>1 DEF PoolInv
  <2>8. at'[i][1] = Returned => cursor'[i] = Size(i)'
    BY <1>1, <2>1, <2>2 DEF PoolInv, Returned
  <2>. QED
    BY <2>3, <2>4, <2>5, <2>6, <2>7, <2>8 DEF PoolInv
<1>3. CASE ~(cursor[i] >= Size(i))
  <2>1. /\ cursor'[i] = cursor[i] + 1 /\ cursor[i] < Size(i)
        /\ at'[i] = [at[i] EXCEPT ![w] = cursor[i] + 1]
    BY <1>1, <1>3 DEF Claim, PoolInv, TypeOK
  <2>2. /\ at'[i][w] = cursor[i] + 1
        /\ \A v \in 1 .. Workers : v # w => at'[i][v] = at[i][v]
    BY <1>1, <2>1
  <2>9. \A v \in 1 .. Workers : at[i][v] # cursor[i] + 1
    <3>1. \A v \in 1 .. Workers : at[i][v] \in 1 .. PerPage => at[i][v] <= cursor[i]
      BY DEF PoolInv
    <3>2. cursor[i] + 1 \in 1 .. PerPage /\ ~(cursor[i] + 1 <= cursor[i])
      BY <1>1, <2>1
    <3>. QED
      BY <3>1, <3>2
  <2>3. cursor'[i] <= Size(i)'
    BY <1>1, <2>1
  <2>4. \A v \in 1 .. Workers : at'[i][v] \in 1 .. PerPage => at'[i][v] <= cursor'[i]
    BY <1>1, <2>1, <2>2 DEF PoolInv, Returned
  <2>5. \A u, v \in 1 .. Workers :
          at'[i][u] = at'[i][v] /\ at'[i][u] \in 1 .. PerPage => u = v
    <3>1. \A v \in 1 .. Workers : v # w => at'[i][v] # at'[i][w]
      BY <2>2, <2>9
    <3>2. \A u, v \in 1 .. Workers :
            at[i][u] = at[i][v] /\ at[i][u] \in 1 .. PerPage => u = v
      BY DEF PoolInv
    <3>. QED
      BY <2>2, <3>1, <3>2
  <2>6. ASSUME NEW n \in 1 .. PerPage, n <= cursor'[i]
        PROVE  results'[i][n] = "none" <=> \E v \in 1 .. Workers : at'[i][v] = n
    <3>1. CASE n = at[i][w]
      <4>1. results'[i][n] # "none"
        BY <3>1
      <4>2. at'[i][w] # n
        BY <2>2, <2>9, <3>1
      <4>3. \A v \in 1 .. Workers : at[i][v] = n => v = w
        BY <3>1 DEF PoolInv
      <4>. QED
        BY <2>2, <4>1, <4>2, <4>3
    <3>2. CASE n # at[i][w] /\ n <= cursor[i]
      <4>1. (\E v \in 1 .. Workers : at'[i][v] = n) <=> \E v \in 1 .. Workers : at[i][v] = n
        <5>1. at'[i][w] # n /\ at[i][w] # n
          BY <1>1, <2>2, <3>2
        <5>. QED
          BY <2>2, <5>1
      <4>. QED
        BY <3>2, <4>1 DEF PoolInv
    <3>3. CASE n = cursor[i] + 1
      <4>1. n # at[i][w] /\ n > cursor[i]
        BY <1>1, <2>9, <3>3
      <4>2. results'[i][n] = "none"
        <5>1. results'[i][n] = results[i][n]
          BY <4>1
        <5>. QED
          BY <4>1, <5>1 DEF PoolInv
      <4>3. at'[i][w] = n
        BY <2>2, <3>3
      <4>. QED
        BY <4>2, <4>3
    <3>4. n <= cursor[i] \/ n = cursor[i] + 1
      BY <1>1, <2>1, <2>6
    <3>. QED
      BY <3>1, <3>2, <3>3, <3>4
  <2>7. \A n \in 1 .. PerPage : n > cursor'[i] => results'[i][n] = "none"
    <3>. SUFFICES ASSUME NEW n \in 1 .. PerPage, n > cursor[i]
                  PROVE  results'[i][n] = "none"
      BY <1>1, <2>1
    <3>1. n # at[i][w]
      BY <1>1 DEF PoolInv
    <3>. QED
      BY <3>1 DEF PoolInv
  <2>8. at'[i][1] = Returned => cursor'[i] = Size(i)'
    BY <1>1, <2>1, <2>2 DEF PoolInv, Returned
  <2>. QED
    BY <2>3, <2>4, <2>5, <2>6, <2>7, <2>8 DEF PoolInv
<1>. QED
  BY <1>2, <1>3

LEMMA PoolStays ==
  ASSUME NEW j, PoolInv(j), cursor'[j] = cursor[j], at'[j] = at[j],
         results'[j] = results[j], page' = page
  PROVE  PoolInv(j)'
BY DEF PoolInv, Size

LEMMA AttachStep == IInv /\ [Next]_vars => AttachInv'
<1>. SUFFICES ASSUME IInv, [Next]_vars PROVE AttachInv'
  OBVIOUS
<1>0. TypeOK /\ TypeOK' /\ AttachInv
  BY TypeStep DEF IInv
<1>1. ASSUME NEW i \in Group, PageArrives(i) PROVE AttachInv'
  BY <1>0, <1>1 DEF AttachInv, PageArrives
<1>2. ASSUME NEW i \in Group, PageFails(i) PROVE AttachInv'
  BY <1>0, <1>2 DEF AttachInv, PageFails
<1>3. CASE GroupFetched
  <2>. SUFFICES ASSUME NEW i \in todo' PROVE PoolInv(i)'
    BY <1>3 DEF AttachInv, GroupFetched
  <2>1. i \in Group /\ i \in Valid /\ Size(i) \in 1 .. PerPage /\ Size(i)' = Size(i)
    BY <1>0, <1>3, SizeBounds DEF GroupFetched, Valid, Size
  <2>2. /\ cursor'[i] = 0
        /\ \A n \in 1 .. PerPage : results'[i][n] = "none"
    BY <1>3, <2>1 DEF GroupFetched
  <2>3. \A w \in 1 .. Workers : at'[i][w] \in {NotStarted, Returned}
    BY <1>3, <2>1 DEF GroupFetched
  <2>4. at'[i][1] = NotStarted
    BY <1>3, <2>1 DEF GroupFetched, PoolSize
  <2>. QED
    BY <2>1, <2>2, <2>3, <2>4 DEF PoolInv, NotStarted, Returned
<1>4. ASSUME NEW i \in Group, NEW w \in 1 .. Workers, StartWorker(i, w) PROVE AttachInv'
  <2>. SUFFICES ASSUME NEW j \in todo PROVE PoolInv(j)'
    BY <1>4 DEF AttachInv, StartWorker
  <2>1. j \in Group /\ PoolInv(j) /\ page' = page /\ results' = results
    BY <1>0, <1>4 DEF TypeOK, AttachInv, StartWorker
  <2>2. CASE j = i
    BY <1>0, <1>4, <2>1, <2>2, PoolClaim DEF StartWorker, NotStarted, Returned
  <2>3. CASE j # i
    <3>1. cursor'[j] = cursor[j] /\ at'[j] = at[j]
      BY <1>0, <1>4, <2>1, <2>3 DEF TypeOK, StartWorker, Claim
    <3>. QED
      BY <2>1, <3>1, PoolStays
  <2>. QED
    BY <2>2, <2>3
<1>5. ASSUME NEW i \in Group, NEW w \in 1 .. Workers, FinishTicket(i, w) PROVE AttachInv'
  <2>. SUFFICES ASSUME NEW j \in todo PROVE PoolInv(j)'
    BY <1>5 DEF AttachInv, FinishTicket
  <2>1. j \in Group /\ PoolInv(j) /\ page' = page
    BY <1>0, <1>5 DEF TypeOK, AttachInv, FinishTicket
  <2>2. PICK r \in {"conversations", "empty"} : results' = [results EXCEPT ![i][at[i][w]] = r]
    BY <1>5 DEF FinishTicket
  <2>3. CASE j = i
    <3>1. at[i][w] \in 1 .. PerPage /\ at[i][w] # Returned /\ Claim(i, w)
      BY <1>5 DEF FinishTicket, Returned
    <3>2. results'[i] = [results[i] EXCEPT ![at[i][w]] = r]
      BY <1>0, <2>2 DEF TypeOK
    <3>3. results[i] \in [1 .. PerPage -> {"none", "conversations", "empty"}]
      BY <1>0 DEF TypeOK
    <3>4. results'[i][at[i][w]] # "none"
      BY <3>1, <3>2, <3>3
    <3>5. \A n \in 1 .. PerPage : n # at[i][w] => results'[i][n] = results[i][n]
      BY <3>2, <3>3
    <3>. QED
      BY <1>0, <2>1, <2>3, <3>1, <3>4, <3>5, PoolClaim
  <2>4. CASE j # i
    <3>1. cursor'[j] = cursor[j] /\ at'[j] = at[j]
      BY <1>0, <1>5, <2>1, <2>4 DEF TypeOK, FinishTicket, Claim
    <3>2. results'[j] = results[j]
      BY <1>0, <2>1, <2>2, <2>4 DEF TypeOK
    <3>. QED
      BY <2>1, <3>1, <3>2, PoolStays
  <2>. QED
    BY <2>3, <2>4
<1>6. CASE Attached
  <2>. SUFFICES ASSUME NEW i \in todo, NEW n \in 1 .. Size(i) PROVE results[i][n] # "none"
    BY <1>6 DEF AttachInv, Attached, poolVars, Size
  <2>1. i \in Group /\ PoolInv(i)
    BY <1>0, <1>6 DEF TypeOK, AttachInv, Attached
  <2>2. \A w \in 1 .. Workers : at[i][w] = PerPage + 1
    BY <1>6, <2>1 DEF Attached, PoolsReturned, Returned
  <2>3. cursor[i] = Size(i) /\ Size(i) \in 0 .. PerPage
    BY <1>0, <2>1, <2>2, SizeBounds DEF PoolInv, Returned
  <2>. QED
    BY <2>1, <2>2, <2>3 DEF PoolInv
<1>7. ASSUME NEW i \in Group, YieldPage(i) PROVE AttachInv'
  BY <1>0, <1>7 DEF AttachInv, YieldPage, poolVars, Size
<1>8. CASE AdvanceGroup
  BY <1>0, <1>8 DEF AttachInv, AdvanceGroup
<1>9. CASE UNCHANGED vars
  BY <1>0, <1>9 DEF AttachInv, vars, PoolInv, Size
<1>. QED
  BY <1>1, <1>2, <1>3, <1>4, <1>5, <1>6, <1>7, <1>8, <1>9 DEF Next, Step, Exhausted

\* A yielded batch is whole and lies behind the batches before it.
LEMMA YieldedBatch ==
  ASSUME IInv, NEW i \in Group, YieldPage(i)
  PROVE  /\ Records(i) \in Stream!Record(page + i - 1)
         /\ page + i - 1 \in Stream!LastDelivered + 1 .. NPages
         /\ out' \in Seq(Batch)
         /\ Stream!LastDelivered' = page + i - 1
         /\ \A p \in 1 .. NPages : Yielded(p) => Yielded(p)'
         /\ \E n \in DOMAIN out' : out'[n].page = page + i - 1
<1>. DEFINE b == [page |-> page + i - 1, records |-> Records(i)]
<1>0. TypeOK /\ AttachInv /\ OrderInv
  BY DEF IInv
<1>1. /\ i \in todo /\ pc = "yielding" /\ out' = Append(out, b)
  BY DEF YieldPage, NextTodo
<1>2. Size(i) \in 0 .. PerPage /\ Size(i) = Stream!PageSize(page + i - 1)
  BY <1>0, SizeBounds
<1>3. \A n \in 1 .. Size(i) : results[i][n] \in {"conversations", "empty"}
  BY <1>0, <1>1, <1>2 DEF TypeOK, AttachInv
<1>4. Records(i) = [n \in 1 .. Size(i) |-> results[i][n]]
  BY <1>3 DEF Records
<1>5. Records(i) \in Stream!Record(page + i - 1)
  BY <1>2, <1>3, <1>4 DEF Stream!Record
<1>6. Stream!LastDelivered \in 0 .. NPages
  <2>1. out # <<>> => out[Len(out)] \in Batch
    BY <1>0 DEF OrderInv
  <2>2. \A x \in Batch : x.page \in 1 .. NPages
    BY DEF Batch
  <2>. QED
    BY <2>1, <2>2 DEF Stream!LastDelivered
<1>7. page + i - 1 \in Stream!LastDelivered + 1 .. NPages
  BY <1>0, <1>1, <1>6 DEF OrderInv, TypeOK, Group
<1>8. b \in Batch
  BY <1>5, <1>6, <1>7 DEF Batch
<1>9. out' \in Seq(Batch) /\ Len(out') = Len(out) + 1 /\ out'[Len(out')] = b
  BY <1>0, <1>1, <1>8 DEF OrderInv
<1>10. Stream!LastDelivered' = page + i - 1
  BY <1>9 DEF Stream!LastDelivered
<1>11. \A n \in DOMAIN out : n \in DOMAIN out' /\ out'[n] = out[n]
  BY <1>0, <1>1, <1>8 DEF OrderInv
<1>12. Len(out') \in DOMAIN out'
  BY <1>9
<1>13. \A p \in 1 .. NPages : Yielded(p) => Yielded(p)'
  BY <1>11 DEF Yielded
<1>14. out'[Len(out')].page = page + i - 1
  BY <1>9
<1>. QED
  BY <1>5, <1>7, <1>9, <1>10, <1>12, <1>13, <1>14

LEMMA LastDeliveredType == OrderInv => Stream!LastDelivered \in 0 .. NPages
<1>. SUFFICES ASSUME OrderInv PROVE Stream!LastDelivered \in 0 .. NPages
  OBVIOUS
<1>1. out # <<>> => out[Len(out)] \in Batch
  BY DEF OrderInv
<1>2. \A x \in Batch : x.page \in 1 .. NPages
  BY DEF Batch
<1>. QED
  BY <1>1, <1>2 DEF Stream!LastDelivered

LEMMA OrderStep == IInv /\ [Next]_vars => OrderInv'
<1>. SUFFICES ASSUME IInv, [Next]_vars PROVE OrderInv'
  OBVIOUS
<1>0. TypeOK /\ OrderInv /\ Stream!LastDelivered \in 0 .. NPages
  BY LastDeliveredType DEF IInv
<1>. USE DEF Stream!LastDelivered
<1>1. ASSUME NEW i \in Group, PageArrives(i) PROVE OrderInv'
  BY <1>0, <1>1 DEF OrderInv, PageArrives
<1>2. ASSUME NEW i \in Group, PageFails(i) PROVE OrderInv'
  BY <1>0, <1>2 DEF OrderInv, PageFails
<1>3. CASE GroupFetched
  <2>1. \A i \in Valid : i \in 1 .. PageConc /\ page + i - 1 <= NPages
    BY <1>0, SizeBounds DEF Valid, Group
  <2>2. \A i \in Valid : page <= NPages
    BY <1>0, <2>1 DEF TypeOK
  <2>3. /\ pc = "pages" /\ page' = page /\ out' = out /\ todo' = Valid
        /\ pc' = IF Valid = {} THEN "done" ELSE "conversations"
    BY <1>3 DEF GroupFetched
  <2>. QED
    BY <1>0, <2>1, <2>2, <2>3 DEF OrderInv
<1>4. ASSUME NEW i \in Group, NEW w \in 1 .. Workers, StartWorker(i, w) PROVE OrderInv'
  BY <1>0, <1>4 DEF OrderInv, StartWorker
<1>5. ASSUME NEW i \in Group, NEW w \in 1 .. Workers, FinishTicket(i, w) PROVE OrderInv'
  BY <1>0, <1>5 DEF OrderInv, FinishTicket
<1>6. CASE Attached
  <2>1. (\A i \in todo : i \in 1 .. PageConc) /\ page \in Nat /\ PageConc \in Nat \ {0}
    BY <1>0, ConcurrencyAssumption, SizeAssumption DEF TypeOK, Group
  <2>2. pc = "conversations" /\ pc' = "yielding" /\ UNCHANGED <<page, todo, out>>
    BY <1>6 DEF Attached
  <2>. QED
    BY <1>0, <2>1, <2>2, SizeAssumption DEF OrderInv
<1>7. ASSUME NEW i \in Group, YieldPage(i) PROVE OrderInv'
  <2>1. \A j \in todo' : j \in todo /\ j \in 1 .. PageConc /\ i < j
    BY <1>0, <1>7 DEF TypeOK, Group, YieldPage, NextTodo
  <2>2. /\ pc = "yielding" /\ page' = page /\ pc' = pc
    BY <1>7 DEF YieldPage
  <2>3. out' \in Seq(Batch) /\ Stream!LastDelivered' = page + i - 1
    BY <1>7, YieldedBatch
  <2>4. i \in 1 .. PageConc /\ page \in Nat
    BY <1>0 DEF Group, TypeOK
  <2>. QED
    BY <1>0, <2>1, <2>2, <2>3, <2>4 DEF OrderInv
<1>8. CASE AdvanceGroup
  BY <1>0, <1>8 DEF OrderInv, AdvanceGroup, TypeOK
<1>9. CASE UNCHANGED vars
  BY <1>0, <1>9 DEF OrderInv, vars
<1>. QED
  BY <1>1, <1>2, <1>3, <1>4, <1>5, <1>6, <1>7, <1>8, <1>9 DEF Next, Step, Exhausted

LEMMA CoverStep == IInv /\ [Next]_vars => CoverInv' /\ MissingPagesFailed'
<1>. SUFFICES ASSUME IInv, [Next]_vars PROVE CoverInv' /\ MissingPagesFailed'
  OBVIOUS
<1>0. TypeOK /\ CoverInv /\ MissingPagesFailed /\ OrderInv
  BY DEF IInv
<1>1. ASSUME NEW i \in Group, PageArrives(i) PROVE CoverInv' /\ MissingPagesFailed'
  BY <1>0, <1>1 DEF TypeOK, CoverInv, MissingPagesFailed, Yielded, PageArrives
<1>2. ASSUME NEW i \in Group, PageFails(i) PROVE CoverInv' /\ MissingPagesFailed'
  BY <1>0, <1>2 DEF TypeOK, CoverInv, MissingPagesFailed, Yielded, PageFails
<1>3. CASE GroupFetched
  <2>0. /\ pc = "pages" /\ page' = page /\ out' = out /\ todo' = Valid
        /\ failed' = failed /\ answer' = answer
        /\ pc' = IF Valid = {} THEN "done" ELSE "conversations"
    BY <1>3 DEF GroupFetched
  <2>1. \A i \in Group : answer[i] \in {"failed", "tickets"}
    BY <1>0, <1>3 DEF TypeOK, GroupFetched
  <2>2. \A i \in Group : page + i - 1 <= NPages => i \in Valid \/ page + i - 1 \in failed
    BY <1>0, <2>1, SizeBounds DEF Valid, CoverInv
  <2>3. CoverInv'
    BY <1>0, <2>0, <2>2 DEF CoverInv, Yielded
  <2>4. CASE Valid = {}
    <3>. SUFFICES ASSUME NEW p \in 1 .. NPages, ~Yielded(p), p \notin failed
                  PROVE  /\ page + PageConc <= p
                         /\ \A i \in Group : page + i - 1 \in failed
      BY <2>0, <2>3 DEF MissingPagesFailed, Yielded
    <3>1. p >= page
      BY <1>0 DEF CoverInv, TypeOK
    <3>2. page + PageConc <= p
      <4>. SUFFICES ASSUME p < page + PageConc PROVE FALSE
        BY <1>0 DEF TypeOK
      <4>1. p - page + 1 \in Group /\ page + (p - page + 1) - 1 = p
        BY <1>0, <3>1 DEF TypeOK, Group
      <4>. QED
        BY <2>2, <2>4, <4>1
    <3>3. \A i \in Group : page + i - 1 <= NPages
      BY <1>0, <3>2 DEF TypeOK, Group
    <3>. QED
      BY <2>2, <2>4, <3>2, <3>3
  <2>. QED
    BY <2>0, <2>3, <2>4 DEF MissingPagesFailed
<1>4. ASSUME NEW i \in Group, NEW w \in 1 .. Workers, StartWorker(i, w)
      PROVE  CoverInv' /\ MissingPagesFailed'
  BY <1>0, <1>4 DEF CoverInv, MissingPagesFailed, Yielded, StartWorker
<1>5. ASSUME NEW i \in Group, NEW w \in 1 .. Workers, FinishTicket(i, w)
      PROVE  CoverInv' /\ MissingPagesFailed'
  BY <1>0, <1>5 DEF CoverInv, MissingPagesFailed, Yielded, FinishTicket
<1>6. CASE Attached
  BY <1>0, <1>6 DEF CoverInv, MissingPagesFailed, Yielded, Attached
<1>7. ASSUME NEW i \in Group, YieldPage(i) PROVE CoverInv' /\ MissingPagesFailed'
  <2>1. /\ pc = "yielding" /\ pc' = pc /\ page' = page /\ answer' = answer
        /\ failed' = failed /\ todo' = todo \ {i}
    BY <1>7 DEF YieldPage, poolVars
  <2>2. /\ \A p \in 1 .. NPages : Yielded(p) => Yielded(p)'
        /\ Yielded(page + i - 1)'
    BY <1>7, <2>1, YieldedBatch DEF Yielded
  <2>3. \A j \in Group : page + j - 1 \in Nat \ {0}
    BY <1>0 DEF Group, TypeOK
  <2>. QED
    BY <1>0, <2>1, <2>2, <2>3 DEF CoverInv, MissingPagesFailed
<1>8. CASE AdvanceGroup
  <2>1. /\ pc = "yielding" /\ todo = {} /\ out' = out /\ failed' = failed
    BY <1>8 DEF AdvanceGroup
  <2>2. ASSUME NEW p \in 1 .. NPages, p < page + PageConc PROVE Yielded(p) \/ p \in failed
    <3>1. CASE p < page
      BY <1>0, <3>1 DEF CoverInv
    <3>2. CASE p >= page
      <4>1. p - page + 1 \in Group /\ page + (p - page + 1) - 1 = p
        BY <1>0, <2>2, <3>2 DEF TypeOK, Group
      <4>. QED
        BY <1>0, <2>1, <4>1 DEF CoverInv
    <3>. QED
      BY <1>0, <3>1, <3>2 DEF TypeOK
  <2>3. CASE ShouldStop
    <3>1. PICK i \in Group : Size(i) < PerPage
      BY <2>3 DEF ShouldStop
    <3>2. NPages < page + PageConc
      <4>1. page + i - 1 >= NPages
        BY <1>0, <3>1, SizeBounds
      <4>2. i \in 1 .. PageConc /\ page \in Nat
        BY <1>0 DEF TypeOK, Group
      <4>. QED
        BY <4>1, <4>2
    <3>3. \A p \in 1 .. NPages : Yielded(p) \/ p \in failed
      BY <1>0, <2>2, <3>2 DEF TypeOK
    <3>4. pc' = "done" /\ page' = page /\ answer' = answer
      BY <1>8, <2>3 DEF AdvanceGroup
    <3>. QED
      BY <1>0, <2>1, <3>3, <3>4 DEF CoverInv, MissingPagesFailed, Yielded
  <2>4. CASE ~ShouldStop
    <3>1. /\ pc' = "pages" /\ page' = page + PageConc
          /\ \A i \in Group : answer'[i] = "asked"
      BY <1>8, <2>4 DEF AdvanceGroup
    <3>. QED
      BY <2>1, <2>2, <3>1 DEF CoverInv, MissingPagesFailed, Yielded
  <2>. QED
    BY <2>3, <2>4
<1>9. CASE UNCHANGED vars
  BY <1>0, <1>9 DEF CoverInv, MissingPagesFailed, Yielded, vars
<1>. QED
  BY <1>1, <1>2, <1>3, <1>4, <1>5, <1>6, <1>7, <1>8, <1>9 DEF Next, Step, Exhausted

THEOREM Invariance == Spec => []IInv
<1>1. IInv /\ [Next]_vars => IInv'
  BY TypeStep, AttachStep, OrderStep, CoverStep DEF IInv
<1>. QED
  BY <1>1, InitInv, PTL DEF Spec

\* Whatever fails, a page is missing only if its own request failed or a whole
\* group of requests before it did.
THEOREM OnlyFailedPagesMissing == Spec => []MissingPagesFailed
<1>1. IInv => MissingPagesFailed
  BY DEF IInv
<1>. QED
  BY <1>1, Invariance, PTL

\* The workers of a page share its tickets without overlap or omission, for
\* any number of workers and tickets.
THEOREM PoolClaimsOnce == Spec => []TicketsClaimedOnce
<1>1. IInv => TicketsClaimedOnce
  <2>. SUFFICES ASSUME IInv, pc = "conversations", NEW i \in todo
                PROVE  /\ \A v, w \in 1 .. Workers :
                            at[i][v] = at[i][w] /\ at[i][v] \in 1 .. PerPage => v = w
                       /\ \A n \in 1 .. cursor[i] :
                            results[i][n] = "none" <=> \E w \in 1 .. Workers : at[i][w] = n
    BY DEF TicketsClaimedOnce
  <2>1. PoolInv(i) /\ cursor[i] \in 0 .. PerPage
    BY DEF IInv, AttachInv, TypeOK
  <2>. QED
    BY <2>1 DEF PoolInv
<1>. QED
  BY <1>1, Invariance, PTL

\* The generator implements TicketStream: it starts as the stream does, and each
\* of its steps delivers a whole later page, ends the stream or leaves it alone.
THEOREM ImplementsStream ==
  Spec => Stream!Init /\ [][Stream!Next]_<<out, pc = "done">>
<1>1. Init => Stream!Init
  BY DEF Init, Stream!Init
<1>2. IInv /\ [Next]_vars => [Stream!Next]_<<out, pc = "done">>
  <2>. SUFFICES ASSUME IInv, [Next]_vars PROVE [Stream!Next]_<<out, pc = "done">>
    OBVIOUS
  <2>1. ASSUME NEW i \in Group, YieldPage(i) PROVE Stream!Next
    <3>1. /\ pc = "yielding" /\ pc' = pc
          /\ out' = Append(out, [page |-> page + i - 1, records |-> Records(i)])
      BY <2>1 DEF YieldPage
    <3>2. /\ Records(i) \in Stream!Record(page + i - 1)
          /\ page + i - 1 \in Stream!LastDelivered + 1 .. NPages
      BY <2>1, YieldedBatch
    <3>3. Stream!Deliver
      BY <3>1, <3>2 DEF Stream!Deliver
    <3>. QED
      BY <3>3 DEF Stream!Next
  <2>2. CASE GroupFetched
    BY <2>2 DEF GroupFetched, Stream!Next, Stream!End
  <2>3. CASE AdvanceGroup
    BY <2>3 DEF AdvanceGroup, Stream!Next, Stream!End
  <2>4. CASE out' = out /\ pc = "done" /\ pc' = "done"
    BY <2>4
  <2>5. CASE out' = out /\ pc # "done" /\ pc' # "done"
    BY <2>5
  <2>. QED
    BY <2>1, <2>2, <2>3, <2>4, <2>5
    DEF Next, Step, Exhausted, vars, PageArrives, PageFails, StartWorker, FinishTicket, Attached
<1>. QED
  BY <1>1, <1>2, Invariance, PTL DEF Spec

\* The generator's pages, workers and records keep their types, for any number
\* of pages, tickets and workers.
THEOREM TypeCorrect == Spec => []TypeOK
<1>1. IInv => TypeOK
  BY DEF IInv
<1>. QED
  BY <1>1, Invariance, PTL

-----------------------------------------------------------------------------
(* What the liveness of the stream rests on: the generator only goes on, and *)
(* until it is done there is a step it can take.                             *)

\* What one group has before it, besides what it is doing
Remaining ==
  CASE pc = "pages" -> 3
    [] pc = "conversations" -> 2
    [] pc = "yielding" -> 1
    [] OTHER -> 0

Asked == {i \in Group : answer[i] = "asked"}

\* A step goes to a later group (of which TypeOK allows finitely many), or on
\* in its group, or on in what it does there: fewer pages are asked for, a
\* worker is at a later ticket and none at an earlier one, fewer pages wait to
\* be yielded.
StepsForward ==
  \/ page' > page
  \/ page' = page /\ Remaining' < Remaining
  \/ /\ page' = page /\ pc' = pc
     /\ \/ pc = "pages" /\ Asked' \subseteq Asked /\ Asked' # Asked
        \/ /\ pc = "conversations" /\ at' # at
           /\ \A i \in Group, w \in 1 .. Workers : at[i][w] <= at'[i][w]
        \/ pc = "yielding" /\ todo' \subseteq todo /\ todo' # todo

\* No step of the generator undoes another or leaves it where it was.
GeneratorAdvances == [][StepsForward]_vars

\* The guard of one of the steps holds.
CanStep ==
  \/ pc = "pages" /\ \E i \in Group : answer[i] = "asked"
  \/ pc = "pages" /\ \A i \in Group : answer[i] # "asked"
  \/ pc = "conversations" /\ \E i \in Group, w \in 1 .. Workers : at[i][w] \in 0 .. PerPage
  \/ pc = "conversations" /\ PoolsReturned
  \/ pc = "yielding" /\ todo = {}
  \/ pc = "yielding" /\ \E i \in Group : NextTodo(i)

\* The generator and its workers never wait for each other in a circle.
NoWorkerStuck == pc # "done" => CanStep

\* Only pages with tickets have workers.
PoolsHaveTickets ==
  pc = "conversations" =>
    \A i \in Group : i \notin todo => \A w \in 1 .. Workers : at[i][w] = Returned

LEMMA FirstTodo ==
  ASSUME TypeOK, todo # {}
  PROVE  \E i \in Group : NextTodo(i)
<1>1. todo \subseteq Nat
  BY DEF TypeOK, Group
<1>0. \A m, n \in Nat : <<m, n>> \in OpToRel(<, Nat) <=> m < n
  BY DEF OpToRel
<1>2. PICK i \in todo : \A j \in todo : ~(<<j, i>> \in OpToRel(<, Nat))
  BY <1>1, NatLessThanWellFounded, WFMin
<1>3. \A j \in todo : ~(j < i)
  BY <1>0, <1>1, <1>2
<1>4. \A j \in todo : i <= j
  BY <1>1, <1>3
<1>. QED
  BY <1>4 DEF NextTodo, TypeOK

\* A worker that claims is afterwards at a later ticket, or has returned.
LEMMA ClaimAdvances ==
  ASSUME TypeOK, NEW i \in Group, NEW w \in 1 .. Workers, Claim(i, w),
         at[i][w] # Returned, at[i][w] <= cursor[i]
  PROVE  /\ at' # at
         /\ \A j \in Group, v \in 1 .. Workers :
              at[j][v] <= at'[j][v] /\ (j # i => at'[j][v] = at[j][v])
<1>1. /\ at \in [Group -> [1 .. Workers -> 0 .. PerPage + 1]]
      /\ cursor[i] \in 0 .. PerPage /\ at[i][w] \in 0 .. PerPage + 1
  BY DEF TypeOK
<1>2. PICK n \in {cursor[i] + 1, Returned} : at' = [at EXCEPT ![i][w] = n]
  BY DEF Claim
<1>3. n > at[i][w]
  BY <1>1, <1>2 DEF Returned
<1>4. at'[i][w] = n
  BY <1>1, <1>2
<1>5. ASSUME NEW j \in Group, NEW v \in 1 .. Workers, j # i \/ v # w
      PROVE  at'[j][v] = at[j][v]
  BY <1>1, <1>2, <1>5
<1>6. at' # at
  BY <1>1, <1>3, <1>4
<1>7. ASSUME NEW j \in Group, NEW v \in 1 .. Workers
      PROVE  at[j][v] <= at'[j][v]
  <2>1. at[j][v] \in Nat
    BY <1>1
  <2>2. CASE j = i /\ v = w
    BY <1>1, <1>2, <1>3, <1>4, <2>2 DEF Returned
  <2>3. CASE j # i \/ v # w
    BY <1>5, <2>1, <2>3
  <2>. QED
    BY <2>2, <2>3
<1>. QED
  BY <1>5, <1>6, <1>7

LEMMA PoolsStep == IInv /\ PoolsHaveTickets /\ [Next]_vars => PoolsHaveTickets'
<1>. SUFFICES ASSUME IInv, PoolsHaveTickets, [Next]_vars PROVE PoolsHaveTickets'
  OBVIOUS
<1>0. TypeOK
  BY DEF IInv
<1>1. CASE GroupFetched
  BY <1>0, <1>1 DEF PoolsHaveTickets, GroupFetched
<1>2. ASSUME NEW i \in Group, NEW w \in 1 .. Workers, StartWorker(i, w) \/ FinishTicket(i, w)
      PROVE  PoolsHaveTickets'
  <2>1. /\ pc = "conversations" /\ Claim(i, w) /\ UNCHANGED <<pc, todo>>
        /\ at[i][w] # Returned
    BY <1>2 DEF StartWorker, FinishTicket, NotStarted, Returned
  <2>2. i \in todo
    BY <2>1 DEF PoolsHaveTickets
  <2>3. \A j \in Group, v \in 1 .. Workers : j # i => at'[j][v] = at[j][v]
    BY <1>0, <2>1 DEF Claim, TypeOK
  <2>. QED
    BY <2>1, <2>2, <2>3 DEF PoolsHaveTickets
<1>3. CASE UNCHANGED <<pc, todo, at>>
  BY <1>3 DEF PoolsHaveTickets
<1>4. CASE pc' # "conversations"
  BY <1>4 DEF PoolsHaveTickets
<1>. QED
  BY <1>1, <1>2, <1>3, <1>4
  DEF Next, Step, Exhausted, vars, poolVars, PageArrives, PageFails, YieldPage, Attached, AdvanceGroup

\* The generator only goes on, whatever fails: with NoneStuck the safety half
\* of the liveness of the stream.
THEOREM StreamGetsOn == Spec => GeneratorAdvances
<1>1. ASSUME IInv, PoolsHaveTickets, Step PROVE StepsForward
  <2>0. TypeOK /\ page \in Nat
    BY <1>1 DEF IInv, TypeOK
  <2>1. ASSUME NEW i \in Group, PageArrives(i) \/ PageFails(i) PROVE StepsForward
    <3>1. /\ pc = "pages" /\ pc' = pc /\ page' = page
          /\ answer[i] = "asked" /\ answer'[i] # "asked"
          /\ \A j \in Group \ {i} : answer'[j] = answer[j]
      BY <2>0, <2>1 DEF PageArrives, PageFails, TypeOK
    <3>2. i \in Asked /\ i \notin Asked' /\ Asked' \subseteq Asked
      BY <3>1 DEF Asked
    <3>. QED
      BY <3>1, <3>2 DEF StepsForward
  <2>2. ASSUME NEW i \in Group, YieldPage(i) PROVE StepsForward
    BY <2>2 DEF YieldPage, NextTodo, StepsForward
  <2>3. CASE GroupFetched
    <3>1. page' = page /\ pc = "pages" /\ pc' \in {"done", "conversations"}
      BY <2>3 DEF GroupFetched
    <3>2. Remaining = 3 /\ Remaining' \in {0, 2}
      BY <3>1 DEF Remaining
    <3>. QED
      BY <3>1, <3>2 DEF StepsForward
  <2>4. ASSUME NEW i \in Group, NEW w \in 1 .. Workers, StartWorker(i, w) \/ FinishTicket(i, w)
        PROVE  StepsForward
    <3>1. /\ pc = "conversations" /\ pc' = pc /\ page' = page /\ Claim(i, w)
          /\ at[i][w] # Returned
          /\ at[i][w] = 0 \/ at[i][w] \in 1 .. PerPage
      BY <2>4 DEF StartWorker, FinishTicket, NotStarted, Returned
    <3>2. i \in todo
      BY <1>1, <3>1 DEF PoolsHaveTickets
    <3>3. PoolInv(i)
      BY <1>1, <3>1, <3>2 DEF IInv, AttachInv
    <3>4. at[i][w] <= cursor[i]
      BY <2>0, <3>1, <3>3 DEF PoolInv, TypeOK
    <3>5. at' # at /\ \A j \in Group, v \in 1 .. Workers : at[j][v] <= at'[j][v]
      BY <2>0, <3>1, <3>4, ClaimAdvances
    <3>. QED
      BY <3>1, <3>5 DEF StepsForward
  <2>5. CASE Attached
    <3>1. page' = page /\ pc = "conversations" /\ pc' = "yielding"
      BY <2>5 DEF Attached
    <3>2. Remaining = 2 /\ Remaining' = 1
      BY <3>1 DEF Remaining
    <3>. QED
      BY <3>1, <3>2 DEF StepsForward
  <2>6. CASE AdvanceGroup
    <3>1. CASE ShouldStop
      <4>1. page' = page /\ pc = "yielding" /\ pc' = "done"
        BY <2>6, <3>1 DEF AdvanceGroup
      <4>2. Remaining = 1 /\ Remaining' = 0
        BY <4>1 DEF Remaining
      <4>. QED
        BY <4>1, <4>2 DEF StepsForward
    <3>2. CASE ~ShouldStop
      <4>1. page' = page + PageConc
        BY <2>6, <3>2 DEF AdvanceGroup
      <4>. QED
        BY <2>0, <4>1 DEF StepsForward
    <3>. QED
      BY <3>1, <3>2
  <2>. QED
    BY <1>1, <2>1, <2>2, <2>3, <2>4, <2>5, <2>6 DEF Step
<1>2. IInv /\ PoolsHaveTickets /\ [Next]_vars => [StepsForward]_vars
  BY <1>1 DEF Next, Exhausted
<1>3. Init => PoolsHaveTickets
  BY DEF Init, PoolsHaveTickets
<1>. QED
  BY <1>2, <1>3, PoolsStep, Invariance, PTL DEF Spec, GeneratorAdvances

\* Before it is done the generator can always take a step.
THEOREM NoneStuck == Spec => []NoWorkerStuck
<1>1. TypeOK => NoWorkerStuck
  <2>. SUFFICES ASSUME TypeOK, pc # "done" PROVE CanStep
    BY DEF NoWorkerStuck
  <2>1. CASE pc = "pages"
    BY <2>1 DEF CanStep
  <2>2. CASE pc = "conversations"
    <3>1. ASSUME ~PoolsReturned PROVE CanStep
      <4>1. PICK i \in Group, w \in 1 .. Workers : at[i][w] # Returned
        BY <3>1 DEF PoolsReturned
      <4>2. at[i][w] \in 0 .. PerPage + 1
        BY DEF TypeOK
      <4>3. at[i][w] \in 0 .. PerPage
        BY <4>1, <4>2 DEF Returned
      <4>. QED
        BY <2>2, <4>3 DEF CanStep
    <3>. QED
      BY <2>2, <3>1 DEF CanStep
  <2>3. CASE pc = "yielding"
    BY <2>3, FirstTodo DEF CanStep
  <2>. QED
    BY <2>1, <2>2, <2>3 DEF TypeOK
<1>. QED
  BY <1>1, TypeCorrect, PTL
=============================================================================
