------------------------ MODULE ImportAccountingProofs ------------------------
(***************************************************************************)
(* Theorems about ImportAccounting, for any number of shares, events,      *)
(* actors and concurrent requests, and any calendar Day.                   *)
(***************************************************************************)
EXTENDS ImportAccounting, FiniteSetTheorems, TLAPS

(***************************************************************************)
(* Types.                                                                  *)
(***************************************************************************)

LEMMA DayFacts ==
  /\ 0 \in Times /\ Times \subseteq Nat
  /\ \A t \in Times : Day(t) \in Days
  /\ Days \subseteq Nat
  /\ NoDay \notin Days
BY DayAssumption DEF Times, Days

\* What a request in flight whose digest is taken looks like.
LEMMA RequestFacts ==
  ASSUME ImportTypeOK, NEW r \in Requests, request[r] # NoRequest
  PROVE  /\ request[r] \in RequestState
         /\ request[r].share \in ShareIds /\ request[r].event \in Events
         /\ request[r].actor \in Actors /\ request[r].now \in Times
         /\ request[r].now \in Nat
         /\ Day(request[r].now) \in Days
         /\ request[r].day # NoDay =>
              /\ request[r].day \in Days
              /\ ActorKey(request[r]) \in Actors \X Days \X ShareIds
<1>1. request[r] \in RequestState
  BY DEF ImportTypeOK
<1>2. /\ request[r].share \in ShareIds /\ request[r].event \in Events
      /\ request[r].actor \in Actors /\ request[r].now \in Times
      /\ request[r].day \in Days \cup {NoDay}
  BY <1>1 DEF RequestState
<1> QED
  BY <1>1, <1>2, DayFacts DEF ActorKey

\* Every step is one of these, as far as the tables and the log are concerned.
Quiet == /\ UNCHANGED <<tables, batches, log>>
         /\ clock' \in Times /\ clock <= clock'

CountFor(p) == /\ Batch(p)
               /\ batches' = batches + 1
               /\ UNCHANGED <<clock, shares>>

LEMMA StepCases ==
  ASSUME ImportTypeOK, [ImportNext]_importVars
  PROVE  \/ Quiet
         \/ \E r \in Requests :
              request[r] # NoRequest /\ request[r].day # NoDay /\ CountFor(request[r])
         \/ \E s \in ShareIds : Publish(s, "public") \/ Publish(s, "unlisted")
         \/ \E s \in ShareIds : DeleteShare(s) \/ Takedown(s)
         \/ \E now \in Nat : now <= clock /\ Prune(now)
<1>t. clock \in Nat /\ clock \in Times
  BY DayFacts DEF ImportTypeOK
<1>1. CASE UNCHANGED importVars
  BY <1>1, <1>t DEF importVars, Quiet
<1>2. CASE ImportNext
  <2>1. ASSUME NEW r \in Requests,
               (\E e \in Events, a \in Actors, s \in ShareIds : Arrive(r, e, a, s))
                 \/ Digest(r) \/ BatchAborts(r) \/ Fail(r)
        PROVE  Quiet
    BY <2>1, <1>t DEF Arrive, Digest, BatchAborts, Fail, Quiet
  <2>2. ASSUME NEW r \in Requests, CountImport(r)
        PROVE  request[r] # NoRequest /\ request[r].day # NoDay /\ CountFor(request[r])
    BY <2>2 DEF CountImport, CountFor
  <2>3. CASE Tick
    <3>1. clock + 1 \in Times /\ clock <= clock + 1
      BY <2>3, <1>t, DayAssumption DEF Tick, Times
    <3> QED
      BY <2>3, <3>1 DEF Tick, Quiet
  <2>4. ASSUME NEW now \in 0 .. clock, Prune(now)
        PROVE  now \in Nat /\ now <= clock
    BY <1>t
  <2> QED
    BY <1>2, <2>1, <2>2, <2>3, <2>4 DEF ImportNext
<1> QED
  BY <1>1, <1>2

LEMMA TypeStep == ImportTypeOK /\ [ImportNext]_importVars => ImportTypeOK'
<1> SUFFICES ASSUME ImportTypeOK, [ImportNext]_importVars
             PROVE  ImportTypeOK'
  OBVIOUS
<1>t. clock \in Nat /\ clock \in Times /\ MaxTime \in Nat
  BY DayFacts, DayAssumption DEF ImportTypeOK
<1>1. CASE UNCHANGED importVars
  BY <1>1 DEF importVars, tables, ImportTypeOK
<1>2. ASSUME NEW r \in Requests, NEW e \in Events, NEW a \in Actors, NEW s \in ShareIds,
             Arrive(r, e, a, s)
      PROVE  ImportTypeOK'
  <2>1. [event |-> e, actor |-> a, share |-> s, now |-> clock, day |-> NoDay,
         attempt |-> 0] \in RequestState
    BY <1>t, LifetimeAssumption DEF RequestState
  <2> QED
    BY <1>2, <2>1 DEF Arrive, tables, ImportTypeOK
<1>3. ASSUME NEW r \in Requests, Digest(r)
      PROVE  ImportTypeOK'
  <2>1. [request[r] EXCEPT !.day = Day(clock)] \in RequestState
    BY <1>3, <1>t, DayFacts, RequestFacts DEF Digest, RequestState
  <2> QED
    BY <1>3, <2>1 DEF Digest, tables, ImportTypeOK
<1>4. ASSUME NEW r \in Requests, Finish(r) \/ (request[r] # NoRequest /\ Retry(r))
      PROVE  request' \in [Requests -> RequestState \cup {NoRequest}]
  <2>1. CASE Finish(r)
    BY <2>1 DEF Finish, ImportTypeOK
  <2>2. CASE request[r] # NoRequest /\ Retry(r)
    <3>1. request[r].attempt \in 0 .. MaxAttempts - 1
      BY <2>2, RequestFacts DEF RequestState
    <3>2. request[r].attempt + 1 \in 0 .. MaxAttempts - 1
      BY <2>2, <3>1, LifetimeAssumption DEF Retry
    <3>3. [request[r] EXCEPT !.attempt = @ + 1] \in RequestState
      BY <2>2, <3>2, RequestFacts DEF RequestState
    <3> QED
      BY <2>2, <3>3 DEF Retry, ImportTypeOK
  <2> QED
    BY <1>4, <2>1, <2>2
<1>5. ASSUME NEW r \in Requests, CountImport(r)
      PROVE  ImportTypeOK'
  <2> DEFINE p == request[r]
  <2>1. /\ p \in RequestState /\ p.day \in Days /\ p.share \in ShareIds
        /\ p.event \in Events /\ p.actor \in Actors /\ p.now \in Times /\ p.now \in Nat
        /\ Day(p.now) \in Days
        /\ ActorKey(p) \in Actors \X Days \X ShareIds
    BY <1>5, RequestFacts DEF CountImport
  <2>2. Minted(p) \in ReceiptRow
    BY <2>1, LifetimeAssumption DEF Minted, ReceiptRow
  <2>3. /\ eventReceipts' \in [Events -> ReceiptRow \cup {NoReceipt}]
        /\ actorReceipts' \in [Actors \X Days \X ShareIds -> ReceiptRow \cup {NoReceipt}]
    <3>1. Batch(p)
      BY <1>5 DEF CountImport
    <3>2. \A x \in ReceiptRow \cup {NoReceipt} :
            Kept(x, p.now) \in ReceiptRow \cup {NoReceipt}
      BY DEF Kept
    <3>3. /\ eventReceipts \in [Events -> ReceiptRow \cup {NoReceipt}]
          /\ actorReceipts \in [Actors \X Days \X ShareIds -> ReceiptRow \cup {NoReceipt}]
      BY DEF ImportTypeOK
    <3> HIDE DEF p
    <3> QED
      BY <2>1, <2>2, <3>1, <3>2, <3>3 DEF Batch
  <2>4. /\ daily' \in [ShareIds -> [Days -> Nat]]
        /\ lifetime' \in [ShareIds -> Nat]
    <3>1. Batch(p)
      BY <1>5 DEF CountImport
    <3>2. lifetime \in [ShareIds -> Nat] /\ daily \in [ShareIds -> [Days -> Nat]]
      BY DEF ImportTypeOK
    <3> HIDE DEF p
    <3>3. daily' = daily \/ daily' = [daily EXCEPT ![p.share][Day(p.now)] = @ + 1]
      BY <3>1 DEF Batch
    <3>4. lifetime' = lifetime \/ lifetime' = [lifetime EXCEPT ![p.share] = @ + 1]
      BY <3>1 DEF Batch
    <3>5. lifetime' \in [ShareIds -> Nat]
      BY <2>1, <3>2, <3>4
    <3>6. [daily[p.share] EXCEPT ![Day(p.now)] = @ + 1] \in [Days -> Nat]
      BY <2>1, <3>2
    <3>7. daily' \in [ShareIds -> [Days -> Nat]]
      BY <2>1, <3>2, <3>3, <3>6
    <3> QED
      BY <3>5, <3>7
  <2>5. log' \subseteq Entry
    <3>1. [id |-> batches, event |-> p.event, actor |-> p.actor, share |-> p.share,
           now |-> p.now, day |-> p.day, at |-> clock] \in Entry
      BY <2>1, <1>t DEF Entry, ImportTypeOK
    <3>2. log \subseteq Entry
      BY DEF ImportTypeOK
    <3> QED
      BY <1>5, <3>1, <3>2 DEF CountImport, Batch
  <2>6. request' \in [Requests -> RequestState \cup {NoRequest}]
    BY <1>4, <1>5 DEF CountImport
  <2> QED
    BY <1>5, <2>3, <2>4, <2>5, <2>6 DEF CountImport, ImportTypeOK
<1>6. ASSUME NEW r \in Requests, BatchAborts(r) \/ Fail(r)
      PROVE  ImportTypeOK'
  <2>1. request' \in [Requests -> RequestState \cup {NoRequest}]
    BY <1>4, <1>6 DEF BatchAborts, Fail
  <2> QED
    BY <1>6, <2>1 DEF BatchAborts, Fail, tables, ImportTypeOK
<1>7. ASSUME NEW s \in ShareIds, Publish(s, "public") \/ Publish(s, "unlisted")
      PROVE  ImportTypeOK'
  BY <1>7 DEF Publish, Stand, Standings, ImportTypeOK
<1>8. ASSUME NEW s \in ShareIds, PurgeReceipts(s)
      PROVE  /\ eventReceipts' \in [Events -> ReceiptRow \cup {NoReceipt}]
             /\ actorReceipts' \in [Actors \X Days \X ShareIds -> ReceiptRow \cup {NoReceipt}]
  BY <1>8 DEF PurgeReceipts, ImportTypeOK
<1>9. ASSUME NEW s \in ShareIds, PurgeDaily(s)
      PROVE  daily' \in [ShareIds -> [Days -> Nat]]
  BY <1>9 DEF PurgeDaily, ImportTypeOK
<1>10. ASSUME NEW s \in ShareIds, RemoveRow(s)
       PROVE  /\ shares' \in [ShareIds -> Standings]
              /\ lifetime' \in [ShareIds -> Nat]
  BY <1>10 DEF RemoveRow, Stand, Standings, ImportTypeOK
<1>11. ASSUME NEW s \in ShareIds, DeleteShare(s)
       PROVE  ImportTypeOK'
  BY <1>8, <1>9, <1>10, <1>11 DEF DeleteShare, ImportTypeOK
<1>12. ASSUME NEW s \in ShareIds, Takedown(s)
       PROVE  ImportTypeOK'
  BY <1>8, <1>9, <1>10, <1>12 DEF Takedown, Stand, Standings, ImportTypeOK
<1>13. ASSUME NEW now \in 0 .. clock, Prune(now)
       PROVE  ImportTypeOK'
  <2>1. daily' \in [ShareIds -> [Days -> Nat]]
    BY <1>13 DEF Prune, ImportTypeOK
  <2>2. /\ eventReceipts' \in [Events -> ReceiptRow \cup {NoReceipt}]
        /\ actorReceipts' \in [Actors \X Days \X ShareIds -> ReceiptRow \cup {NoReceipt}]
    BY <1>13 DEF Prune, Kept, ImportTypeOK
  <2> QED
    BY <1>13, <2>1, <2>2 DEF Prune, ImportTypeOK
<1>14. CASE Tick
  <2>1. clock + 1 \in Times
    BY <1>14, <1>t DEF Tick, Times
  <2> QED
    BY <1>14, <2>1 DEF Tick, tables, ImportTypeOK
<1> QED
  BY <1>1, <1>2, <1>3, <1>5, <1>6, <1>7, <1>11, <1>12, <1>13, <1>14 DEF ImportNext

LEMMA InitType == ImportInit => ImportTypeOK
BY DayFacts DEF ImportInit, ImportTypeOK, Standings, Entry

\* Tables, requests and histories are well formed in every reachable state.
THEOREM ImportTypeCorrect == ImportSpec => []ImportTypeOK
<1> QED
  BY InitType, TypeStep, PTL DEF ImportSpec

(***************************************************************************)
(* When requests and counted notifications read the clock.                 *)
(***************************************************************************)

\* The digest's day was read between lo and hi.
DayRead(day, lo, hi) == \E t \in Times : lo <= t /\ t <= hi /\ Day(t) = day

InTime(p) == /\ p.now <= clock /\ clock <= p.now + RequestLifetime
             /\ p.day # NoDay => DayRead(p.day, p.now, clock)

RequestsInTime == \A r \in Requests : request[r] # NoRequest => InTime(request[r])

EntryInTime(e) == /\ e.id < batches /\ e.at <= clock
                  /\ e.at <= e.now + RequestLifetime
                  /\ DayRead(e.day, e.now, e.at)

LogInTime == \A e \in log : EntryInTime(e)

TimeInv == ImportTypeOK /\ RequestsInTime /\ LogInTime

LEMMA RequestsStep ==
  ASSUME TimeInv, [ImportNext]_importVars
  PROVE  RequestsInTime'
<1>t. clock \in Nat /\ clock \in Times /\ RequestLifetime \in Nat
  BY DayFacts, LifetimeAssumption DEF TimeInv, ImportTypeOK
<1>f. request \in [Requests -> RequestState \cup {NoRequest}]
  BY DEF TimeInv, ImportTypeOK
<1> SUFFICES ASSUME NEW r \in Requests, request'[r] # NoRequest
             PROVE  InTime(request[r])'
  BY DEF RequestsInTime
<1> DEFINE p == request[r]
           q == request'[r]
\* A request that keeps its intake and its day stays in time with the clock.
<1>1. ASSUME p # NoRequest, q.now = p.now, q.day = p.day, clock' = clock
      PROVE  InTime(request[r])'
  <2>1. InTime(p)
    BY <1>1 DEF TimeInv, RequestsInTime
  <2> QED
    BY <1>1, <2>1 DEF InTime, DayRead
<1>2. CASE UNCHANGED importVars
  BY <1>1, <1>2 DEF importVars
<1>3. ASSUME NEW i \in Requests, NEW e \in Events, NEW a \in Actors, NEW s \in ShareIds,
             Arrive(i, e, a, s)
      PROVE  InTime(request[r])'
  <2>1. CASE r = i
    <3>1. /\ q = [event |-> e, actor |-> a, share |-> s, now |-> clock, day |-> NoDay,
                  attempt |-> 0]
          /\ clock' = clock
      BY <1>3, <1>f, <2>1 DEF Arrive
    <3> QED
      BY <1>t, <3>1 DEF InTime
  <2>2. CASE r # i
    BY <1>1, <1>3, <1>f, <2>2 DEF Arrive
  <2> QED
    BY <2>1, <2>2
<1>4. ASSUME NEW i \in Requests, Digest(i)
      PROVE  InTime(request[r])'
  <2>1. CASE r = i
    <3>1. /\ p # NoRequest /\ p \in RequestState
          /\ q = [p EXCEPT !.day = Day(clock)] /\ clock' = clock
      BY <1>4, <1>f, <2>1 DEF Digest
    <3>2. q.now = p.now /\ q.day = Day(clock)
      BY <3>1 DEF RequestState
    <3>3. InTime(p)
      BY <3>1 DEF TimeInv, RequestsInTime
    <3>4. DayRead(q.day, p.now, clock)
      BY <1>t, <3>2, <3>3 DEF InTime, DayRead
    <3> QED
      BY <3>1, <3>2, <3>3, <3>4 DEF InTime, DayRead
  <2>2. CASE r # i
    BY <1>1, <1>4, <1>f, <2>2 DEF Digest
  <2> QED
    BY <2>1, <2>2
<1>5. ASSUME NEW i \in Requests, CountImport(i) \/ BatchAborts(i) \/ Fail(i)
      PROVE  InTime(request[r])'
  <2>1. /\ request[i] # NoRequest /\ clock' = clock
        /\ Finish(i) \/ Retry(i)
    BY <1>5 DEF CountImport, BatchAborts, Fail
  <2>2. CASE r = i
    <3>1. p # NoRequest /\ p \in RequestState /\ q = [p EXCEPT !.attempt = @ + 1]
      BY <1>f, <2>1, <2>2 DEF Finish, Retry
    <3>2. q.now = p.now /\ q.day = p.day
      BY <3>1 DEF RequestState
    <3> QED
      BY <1>1, <2>1, <3>1, <3>2
  <2>3. CASE r # i
    <3>1. q = p
      BY <1>f, <2>1, <2>3 DEF Finish, Retry
    <3> QED
      BY <1>1, <2>1, <3>1
  <2> QED
    BY <2>2, <2>3
<1>6. ASSUME NEW s \in ShareIds,
             Publish(s, "public") \/ Publish(s, "unlisted") \/ DeleteShare(s) \/ Takedown(s)
      PROVE  InTime(request[r])'
  BY <1>1, <1>6 DEF Publish, DeleteShare, Takedown
<1>7. ASSUME NEW now \in 0 .. clock, Prune(now)
      PROVE  InTime(request[r])'
  BY <1>1, <1>7 DEF Prune
<1>8. CASE Tick
  <2>1. q = p /\ clock' = clock + 1 /\ clock < p.now + RequestLifetime
    BY <1>8 DEF Tick
  <2>2. p \in RequestState /\ p # NoRequest
    BY <1>f, <2>1
  <2>3. p.now \in Nat
    BY <2>2, DayFacts DEF RequestState
  <2>4. InTime(p)
    BY <2>2 DEF TimeInv, RequestsInTime
  <2>5. p.now <= clock + 1 /\ clock + 1 <= p.now + RequestLifetime
    BY <1>t, <2>1, <2>3, <2>4 DEF InTime
  <2>6. p.day # NoDay => DayRead(p.day, p.now, clock + 1)
    <3> SUFFICES ASSUME p.day # NoDay PROVE DayRead(p.day, p.now, clock + 1)
      OBVIOUS
    <3>1. PICK t \in Times : p.now <= t /\ t <= clock /\ Day(t) = p.day
      BY <2>4 DEF InTime, DayRead
    <3>2. t \in Nat
      BY DayFacts
    <3>3. t <= clock + 1
      BY <1>t, <3>1, <3>2
    <3> QED
      BY <3>1, <3>3 DEF DayRead
  <2> QED
    BY <2>1, <2>5, <2>6 DEF InTime, DayRead
<1> QED
  BY <1>2, <1>3, <1>4, <1>5, <1>6, <1>7, <1>8 DEF ImportNext

\* The entry of a batch that counts, and what is so when it does.
EntryOf(p) == [id |-> batches, event |-> p.event, actor |-> p.actor,
               share |-> p.share, now |-> p.now, day |-> p.day, at |-> clock]

LEMMA LogCases ==
  ASSUME ImportTypeOK, [ImportNext]_importVars
  PROVE  \/ log' = log
         \/ \E r \in Requests :
              /\ request[r] # NoRequest /\ request[r].day # NoDay
              /\ CountFor(request[r]) /\ Counts(request[r])
              /\ log' = log \cup {EntryOf(request[r])}
<1>1. ASSUME NEW r \in Requests, CountFor(request[r]), log' # log
      PROVE  /\ Counts(request[r])
             /\ log' = log \cup {EntryOf(request[r])}
  <2> DEFINE p == request[r]
  <2>1. CountFor(p) /\ log' # log
    BY <1>1
  <2> HIDE DEF p
  <2>2. Counts(p) /\ log' = log \cup {EntryOf(p)}
    BY <2>1 DEF CountFor, Batch, EntryOf
  <2> QED
    BY <2>2 DEF p
<1>2. ASSUME NEW s \in ShareIds,
             Publish(s, "public") \/ Publish(s, "unlisted") \/ DeleteShare(s) \/ Takedown(s)
      PROVE  log' = log
  BY <1>2 DEF Publish, DeleteShare, Takedown
<1>3. ASSUME NEW now \in Nat, Prune(now)
      PROVE  log' = log
  BY <1>3 DEF Prune
<1>4. Quiet => log' = log
  BY DEF Quiet
<1> QED
  BY <1>1, <1>2, <1>3, <1>4, StepCases

LEMMA ClockMoves ==
  ASSUME ImportTypeOK, [ImportNext]_importVars
  PROVE  /\ clock \in Nat /\ clock' \in Nat /\ clock <= clock'
         /\ batches \in Nat /\ batches' \in Nat /\ batches <= batches'
<1>1. clock \in Nat /\ batches \in Nat
  BY DayFacts DEF ImportTypeOK
<1>2. ASSUME NEW r \in Requests, CountFor(request[r])
      PROVE  clock' = clock /\ batches' = batches + 1
  BY <1>2 DEF CountFor
<1>3. ASSUME NEW s \in ShareIds,
             Publish(s, "public") \/ Publish(s, "unlisted") \/ DeleteShare(s) \/ Takedown(s)
      PROVE  clock' = clock /\ batches' = batches
  BY <1>3 DEF Publish, DeleteShare, Takedown
<1>4. ASSUME NEW now \in Nat, Prune(now)
      PROVE  clock' = clock /\ batches' = batches
  BY <1>4 DEF Prune
<1>5. Quiet => clock' \in Nat /\ clock <= clock' /\ batches' = batches
  BY DayFacts DEF Quiet
<1> QED
  BY <1>1, <1>2, <1>3, <1>4, <1>5, StepCases

LEMMA LogStep ==
  ASSUME TimeInv, [ImportNext]_importVars
  PROVE  LogInTime'
<1> USE DEF TimeInv
<1>1. /\ clock \in Nat /\ clock' \in Nat /\ clock <= clock'
      /\ batches \in Nat /\ batches' \in Nat /\ batches <= batches'
  BY ClockMoves
<1>2. ASSUME NEW e \in log
      PROVE  EntryInTime(e)'
  <2>1. EntryInTime(e) /\ e \in Entry
    BY DEF LogInTime, ImportTypeOK
  <2>2. e.id \in Nat /\ e.at \in Nat
    BY <2>1, DayFacts DEF Entry
  <2> QED
    BY <1>1, <2>1, <2>2 DEF EntryInTime, DayRead
<1>3. CASE log' = log
  BY <1>2, <1>3 DEF LogInTime
<1>4. ASSUME NEW r \in Requests, request[r] # NoRequest, request[r].day # NoDay,
             CountFor(request[r]), log' = log \cup {EntryOf(request[r])}
      PROVE  LogInTime'
  <2> DEFINE p == request[r]
  <2>0. PICK f : f = EntryOf(p)
    OBVIOUS
  <2>1. /\ InTime(p) /\ p.day # NoDay
        /\ clock' = clock /\ batches' = batches + 1
    BY <1>4 DEF RequestsInTime, CountFor
  <2>2. f.id = batches /\ f.now = p.now /\ f.day = p.day /\ f.at = clock
    BY <2>0 DEF EntryOf
  <2>3. EntryInTime(f)'
    BY <1>1, <2>1, <2>2 DEF EntryInTime, InTime, DayRead
  <2> QED
    BY <1>2, <1>4, <2>0, <2>3 DEF LogInTime
<1> QED
  BY <1>3, <1>4, LogCases

LEMMA InitTime == ImportInit => TimeInv
BY InitType DEF ImportInit, TimeInv, RequestsInTime, LogInTime

LEMMA TimeStep == TimeInv /\ [ImportNext]_importVars => TimeInv'
BY TypeStep, RequestsStep, LogStep DEF TimeInv

(***************************************************************************)
(* Receipts.                                                               *)
(***************************************************************************)

ActorKeys == Actors \X Days \X ShareIds

Removed(s) == shares[s] \in {"purged", "gone"}

\* The receipts that an entry of the log left behind.
LeftBy(e) == [share |-> e.share, expires |-> e.now + ReceiptTtl]

KeyOf(e) == <<e.actor, e.day, e.share>>

Due(e) == ~Removed(e.share) /\ clock < e.now + ReceiptTtl

\* While they are due, they stand.
EventHeld == \A e \in log : Due(e) => eventReceipts[e.event] = LeftBy(e)
ActorHeld == \A e \in log : Due(e) => actorReceipts[KeyOf(e)] = LeftBy(e)

HeldInv == TimeInv /\ EventHeld /\ ActorHeld

LEMMA EntryFacts ==
  ASSUME ImportTypeOK, NEW e \in log
  PROVE  /\ e \in Entry /\ e.id \in Nat /\ e.event \in Events /\ e.actor \in Actors
         /\ e.share \in ShareIds /\ e.day \in Days
         /\ e.now \in Times /\ e.now \in Nat /\ e.at \in Nat
         /\ e.now + ReceiptTtl \in Nat /\ KeyOf(e) \in ActorKeys
         /\ LeftBy(e) \in ReceiptRow
<1>1. e \in Entry
  BY DEF ImportTypeOK
<1>2. /\ e.id \in Nat /\ e.event \in Events /\ e.actor \in Actors
      /\ e.share \in ShareIds /\ e.day \in Days
      /\ e.now \in Times /\ e.now \in Nat /\ e.at \in Nat
  BY <1>1, DayFacts DEF Entry
<1>3. e.now + ReceiptTtl \in Nat
  BY <1>2, LifetimeAssumption
<1> QED
  BY <1>1, <1>2, <1>3 DEF KeyOf, ActorKeys, LeftBy, ReceiptRow

\* A removed publication stays removed.
LEMMA RemovedStays ==
  ASSUME ImportTypeOK, [ImportNext]_importVars, NEW s \in ShareIds
  PROVE  /\ Removed(s) => Removed(s)'
         /\ shares[s] = "gone" => shares'[s] = "gone"
<1>f. shares \in [ShareIds -> Standings]
  BY DEF ImportTypeOK
<1>1. CASE shares' = shares
  BY <1>1 DEF Removed
<1>2. ASSUME NEW i \in ShareIds, Publish(i, "public") \/ Publish(i, "unlisted")
      PROVE  (Removed(s) => Removed(s)') /\ (shares[s] = "gone" => shares'[s] = "gone")
  BY <1>2, <1>f DEF Publish, Stand, Removed
<1>3. ASSUME NEW i \in ShareIds, DeleteShare(i) \/ Takedown(i)
      PROVE  (Removed(s) => Removed(s)') /\ (shares[s] = "gone" => shares'[s] = "gone")
  BY <1>3, <1>f DEF DeleteShare, Takedown, RemoveRow, Stand, Removed
<1>4. Quiet => shares' = shares
  BY DEF Quiet, tables
<1>5. \A r \in Requests : CountFor(request[r]) => shares' = shares
  BY DEF CountFor
<1>6. \A now \in Nat : Prune(now) => shares' = shares
  BY DEF Prune
<1> QED
  BY <1>1, <1>2, <1>3, <1>4, <1>5, <1>6, StepCases

\* A receipt that has not run out survives every step but the removal of its
\* publication: a batch clears, and the cleanup prunes, by a time not after
\* the clock.
LEMMA ReceiptStands ==
  ASSUME TimeInv, [ImportNext]_importVars,
         NEW s \in ShareIds, ~Removed(s)', NEW x \in Nat, clock < x
  PROVE  LET receipt == [share |-> s, expires |-> x]
         IN  /\ \A e \in Events :
                  eventReceipts[e] = receipt => eventReceipts'[e] = receipt
             /\ \A k \in ActorKeys :
                  actorReceipts[k] = receipt => actorReceipts'[k] = receipt
<1>0. PICK receipt : receipt = [share |-> s, expires |-> x]
  OBVIOUS
<1> DEFINE Stands ==
             /\ \A e \in Events :
                  eventReceipts[e] = receipt => eventReceipts'[e] = receipt
             /\ \A k \in ActorKeys :
                  actorReceipts[k] = receipt => actorReceipts'[k] = receipt
<1> SUFFICES Stands
  BY <1>0
<1>1. receipt # NoReceipt /\ receipt.share = s /\ receipt.expires = x
  BY <1>0, NullAssumption DEF ReceiptRow
<1>t. clock \in Nat
  BY DayFacts DEF TimeInv, ImportTypeOK
<1>f. /\ eventReceipts \in [Events -> ReceiptRow \cup {NoReceipt}]
      /\ actorReceipts \in [ActorKeys -> ReceiptRow \cup {NoReceipt}]
      /\ shares \in [ShareIds -> Standings]
  BY DEF TimeInv, ImportTypeOK, ActorKeys
<1>l. \A now \in Nat : now <= clock => Live(receipt, now) /\ Kept(receipt, now) = receipt
  BY <1>1, <1>t DEF Live, Kept
<1>2. ASSUME UNCHANGED <<eventReceipts, actorReceipts>>
      PROVE  Stands
  BY <1>2
<1>3. ASSUME NEW r \in Requests, request[r] # NoRequest, request[r].day # NoDay,
             CountFor(request[r])
      PROVE  Stands
  <2>0. PICK p : p = request[r]
    OBVIOUS
  <2>1. /\ p.now \in Nat /\ p.now <= clock /\ p.event \in Events
        /\ ActorKey(p) \in ActorKeys
    BY <1>3, <2>0, RequestFacts DEF TimeInv, RequestsInTime, InTime, ActorKeys
  <2>2. Batch(p)
    BY <1>3, <2>0 DEF CountFor
  <2>3. Live(receipt, p.now) /\ Kept(receipt, p.now) = receipt
    BY <1>l, <2>1
  <2>4. ASSUME NEW e \in Events, eventReceipts[e] = receipt
        PROVE  eventReceipts'[e] = receipt
    BY <1>f, <2>1, <2>2, <2>3, <2>4 DEF Batch, Counts
  <2>5. ASSUME NEW k \in ActorKeys, actorReceipts[k] = receipt
        PROVE  actorReceipts'[k] = receipt
    BY <1>f, <2>1, <2>2, <2>3, <2>5 DEF Batch, Admits
  <2> QED
    BY <2>4, <2>5
<1>4. ASSUME NEW i \in ShareIds, PurgeReceipts(i), Removed(i)'
      PROVE  Stands
  <2>1. i # s
    BY <1>4
  <2> QED
    BY <1>1, <1>4, <2>1 DEF PurgeReceipts, ActorKeys
<1>5. ASSUME NEW i \in ShareIds, DeleteShare(i) \/ Takedown(i)
      PROVE  Stands
  <2>1. \/ UNCHANGED <<eventReceipts, actorReceipts>>
        \/ PurgeReceipts(i) /\ Removed(i)'
    BY <1>5, <1>f DEF DeleteShare, Takedown, RemoveRow, Stand, Removed
  <2> QED
    BY <1>2, <1>4, <2>1
<1>6. ASSUME NEW now \in Nat, now <= clock, Prune(now)
      PROVE  Stands
  BY <1>l, <1>6 DEF Prune, ActorKeys
<1>7. ASSUME NEW i \in ShareIds, Publish(i, "public") \/ Publish(i, "unlisted")
      PROVE  Stands
  BY <1>2, <1>7 DEF Publish
<1>8. Quiet => Stands
  BY <1>2 DEF Quiet, tables
<1> HIDE DEF Stands
<1> QED
  BY <1>3, <1>5, <1>6, <1>7, <1>8, StepCases DEF TimeInv

\* A batch that counts finds neither receipt and leaves both.
LEMMA CountLeaves ==
  ASSUME TimeInv, NEW r \in Requests, request[r] # NoRequest, request[r].day # NoDay,
         CountFor(request[r]), Counts(request[r])
  PROVE  LET e == EntryOf(request[r])
         IN  /\ e.share \in ShareIds /\ shares[e.share] = "public"
             /\ e.id = batches /\ e.at = clock /\ e.event \in Events
             /\ e.now \in Nat /\ e.now <= clock
             /\ e.share = request[r].share /\ e.now = request[r].now
             /\ ~Live(eventReceipts[e.event], e.now)
             /\ ~Live(actorReceipts[KeyOf(e)], e.now)
             /\ eventReceipts'[e.event] = LeftBy(e)
             /\ actorReceipts'[KeyOf(e)] = LeftBy(e)
             /\ DayRead(e.day, e.now, clock)
             /\ clock <= e.now + RequestLifetime
<1>0. PICK p : p = request[r]
  OBVIOUS
<1>1. /\ p.now \in Nat /\ p.event \in Events /\ p.share \in ShareIds
      /\ ActorKey(p) \in ActorKeys
  BY <1>0, RequestFacts DEF TimeInv, ActorKeys
<1>2. Batch(p) /\ Counts(p)
  BY <1>0 DEF CountFor
<1>3. /\ eventReceipts \in [Events -> ReceiptRow \cup {NoReceipt}]
      /\ actorReceipts \in [ActorKeys -> ReceiptRow \cup {NoReceipt}]
  BY DEF TimeInv, ImportTypeOK, ActorKeys
<1>4. /\ eventReceipts'[p.event] = Minted(p)
      /\ actorReceipts'[ActorKey(p)] = Minted(p)
  BY <1>1, <1>2, <1>3 DEF Batch, Counts
<1>5. InTime(p)
  BY <1>0 DEF TimeInv, RequestsInTime
<1>6. PICK e : e = EntryOf(p)
  OBVIOUS
<1>7. /\ e.id = batches /\ e.at = clock /\ e.event = p.event /\ e.now = p.now
      /\ e.share = p.share /\ e.day = p.day /\ e.actor = p.actor
  BY <1>6 DEF EntryOf
<1>8. LeftBy(e) = Minted(p) /\ KeyOf(e) = ActorKey(p)
  BY <1>7 DEF LeftBy, Minted, KeyOf, ActorKey
<1> QED
  BY <1>0, <1>1, <1>2, <1>4, <1>5, <1>6, <1>7, <1>8 DEF Counts, Admits, InTime

LEMMA HeldStep ==
  ASSUME HeldInv, [ImportNext]_importVars
  PROVE  EventHeld' /\ ActorHeld'
<1>t. TimeInv /\ ImportTypeOK
  BY DEF HeldInv, TimeInv
<1>1. ASSUME NEW e \in log, Due(e)'
      PROVE  eventReceipts'[e.event] = LeftBy(e) /\ actorReceipts'[KeyOf(e)] = LeftBy(e)
  <2>1. /\ e.share \in ShareIds /\ e.event \in Events /\ KeyOf(e) \in ActorKeys
        /\ e.now + ReceiptTtl \in Nat
    BY <1>t, EntryFacts
  <2>2. ~Removed(e.share)' /\ ~Removed(e.share)
    BY <1>1, <1>t, <2>1, RemovedStays DEF Due
  <2>3. clock < e.now + ReceiptTtl
    BY <1>1, <1>t, <2>1, ClockMoves DEF Due
  <2>4. eventReceipts[e.event] = LeftBy(e) /\ actorReceipts[KeyOf(e)] = LeftBy(e)
    BY <2>2, <2>3 DEF Due, HeldInv, EventHeld, ActorHeld
  <2> QED
    BY <1>t, <2>1, <2>2, <2>3, <2>4, ReceiptStands DEF LeftBy
<1>2. CASE log' = log
  BY <1>1, <1>2 DEF EventHeld, ActorHeld
<1>3. ASSUME NEW r \in Requests, request[r] # NoRequest, request[r].day # NoDay,
             CountFor(request[r]), Counts(request[r]),
             log' = log \cup {EntryOf(request[r])}
      PROVE  EventHeld' /\ ActorHeld'
  <2>0. PICK f : f = EntryOf(request[r])
    OBVIOUS
  <2>1. eventReceipts'[f.event] = LeftBy(f) /\ actorReceipts'[KeyOf(f)] = LeftBy(f)
    BY <1>3, <1>t, <2>0, CountLeaves
  <2>2. log' = log \cup {f}
    BY <1>3, <2>0
  <2> QED
    BY <1>1, <2>1, <2>2 DEF EventHeld, ActorHeld, LeftBy, KeyOf
<1> QED
  BY <1>2, <1>3, <1>t, LogCases

LEMMA InitHeld == ImportInit => HeldInv
BY InitTime DEF ImportInit, HeldInv, EventHeld, ActorHeld

LEMMA HeldInvStep == HeldInv /\ [ImportNext]_importVars => HeldInv'
BY HeldStep, TimeStep DEF HeldInv

(***************************************************************************)
(* What counts, counts once.                                               *)
(***************************************************************************)

\* A later entry of the same event finds the receipt of the first gone.
LEMMA EventOnceStep ==
  ASSUME HeldInv, EventCountsOnce, [ImportNext]_importVars
  PROVE  EventCountsOnce'
<1>t. TimeInv /\ ImportTypeOK
  BY DEF HeldInv, TimeInv
<1>1. ASSUME NEW e \in log, NEW f \in log, e.event = f.event, e.id < f.id
      PROVE  e.now + ReceiptTtl <= f.at \/ Removed(e.share)'
  BY <1>1, <1>t, EntryFacts, RemovedStays DEF EventCountsOnce, Removed
<1>2. CASE log' = log
  BY <1>1, <1>2 DEF EventCountsOnce, Removed
<1>3. ASSUME NEW r \in Requests, request[r] # NoRequest, request[r].day # NoDay,
             CountFor(request[r]), Counts(request[r]),
             log' = log \cup {EntryOf(request[r])}
      PROVE  EventCountsOnce'
  <2>0. PICK f : f = EntryOf(request[r])
    OBVIOUS
  <2>1. /\ f.id = batches /\ f.at = clock /\ f.now \in Nat /\ f.now <= clock
        /\ ~Live(eventReceipts[f.event], f.now)
    BY <1>3, <1>t, <2>0, CountLeaves
  <2>2. clock \in Nat /\ batches \in Nat
    BY <1>t, ClockMoves
  \* An event entered before is due no more, or its receipt would be live.
  <2>3. ASSUME NEW e \in log, e.event = f.event
        PROVE  e.now + ReceiptTtl <= f.at \/ Removed(e.share)'
    <3>1. /\ e.share \in ShareIds /\ e.now + ReceiptTtl \in Nat
          /\ LeftBy(e) \in ReceiptRow
      BY <1>t, EntryFacts
    <3>2. CASE Removed(e.share)
      BY <1>t, <3>1, <3>2, RemovedStays
    <3>3. CASE ~Removed(e.share) /\ clock < e.now + ReceiptTtl
      <4>1. eventReceipts[f.event] = LeftBy(e)
        BY <2>3, <3>3 DEF Due, HeldInv, EventHeld
      <4>2. Live(LeftBy(e), f.now)
        BY <2>1, <2>2, <3>1, <3>3, NullAssumption DEF Live, LeftBy
      <4> QED
        BY <2>1, <4>1, <4>2
    <3> QED
      BY <2>1, <2>2, <3>1, <3>2, <3>3
  <2>4. \A e \in log : ~(f.id < e.id)
    BY <1>t, <2>1, <2>2, EntryFacts DEF TimeInv, LogInTime, EntryInTime
  <2>5. ~(f.id < f.id)
    BY <2>1, <2>2
  <2>6. log' = log \cup {f}
    BY <1>3, <2>0
  <2> QED
    BY <1>1, <2>3, <2>4, <2>5, <2>6 DEF EventCountsOnce, Removed
<1> QED
  BY <1>2, <1>3, <1>t, LogCases

\* Two digests of one day were read so close together that the receipt of the
\* first outlives the request of the second.
LEMMA ActorOnceStep ==
  ASSUME HeldInv, ActorCountsOncePerDay, [ImportNext]_importVars
  PROVE  ActorCountsOncePerDay'
<1>t. TimeInv /\ ImportTypeOK
  BY DEF HeldInv, TimeInv
<1>1. CASE log' = log
  BY <1>1 DEF ActorCountsOncePerDay
<1>2. ASSUME NEW r \in Requests, request[r] # NoRequest, request[r].day # NoDay,
             CountFor(request[r]), Counts(request[r]),
             log' = log \cup {EntryOf(request[r])}
      PROVE  ActorCountsOncePerDay'
  <2>0. PICK f : f = EntryOf(request[r])
    OBVIOUS
  <2>1. /\ f.at = clock /\ f.now \in Nat /\ f.now <= clock
        /\ shares[f.share] = "public"
        /\ ~Live(actorReceipts[KeyOf(f)], f.now)
        /\ DayRead(f.day, f.now, clock)
        /\ clock <= f.now + RequestLifetime
    BY <1>2, <1>t, <2>0, CountLeaves
  <2>2. clock \in Nat /\ RequestLifetime \in Nat /\ ReceiptTtl \in Nat
    BY <1>t, ClockMoves, LifetimeAssumption
  <2>3. ASSUME NEW e \in log, e.actor = f.actor, e.share = f.share, e.day = f.day
        PROVE  FALSE
    <3>1. /\ e.now \in Nat /\ e.at \in Nat /\ e.now + ReceiptTtl \in Nat
          /\ LeftBy(e) \in ReceiptRow
      BY <1>t, EntryFacts
    <3>2. DayRead(e.day, e.now, e.at) /\ e.at <= e.now + RequestLifetime
      BY <1>t DEF TimeInv, LogInTime, EntryInTime
    <3>3. PICK t \in Times : e.now <= t /\ t <= e.at /\ Day(t) = e.day
      BY <3>2 DEF DayRead
    <3>4. PICK u \in Times : f.now <= u /\ u <= clock /\ Day(u) = f.day
      BY <2>1 DEF DayRead
    <3>5. u + 2 * RequestLifetime < t + ReceiptTtl
      BY <2>3, <3>3, <3>4, LifetimeAssumption
    <3>6. t \in Nat /\ u \in Nat
      BY DayFacts
    <3>7. clock < e.now + ReceiptTtl
      BY <2>1, <2>2, <3>1, <3>2, <3>3, <3>4, <3>5, <3>6
    <3>8. ~Removed(e.share)
      BY <2>1, <2>3 DEF Removed
    <3>9. actorReceipts[KeyOf(f)] = LeftBy(e)
      BY <2>3, <3>7, <3>8 DEF Due, HeldInv, ActorHeld, KeyOf
    <3>10. Live(LeftBy(e), f.now)
      BY <2>1, <2>2, <3>1, <3>7, NullAssumption DEF Live, LeftBy
    <3> QED
      BY <2>1, <3>9, <3>10
  <2>4. log' = log \cup {f}
    BY <1>2, <2>0
  <2> QED
    BY <2>3, <2>4 DEF ActorCountsOncePerDay
<1> QED
  BY <1>1, <1>2, <1>t, LogCases

OnceInv == HeldInv /\ EventCountsOnce /\ ActorCountsOncePerDay

LEMMA InitOnce == ImportInit => OnceInv
BY InitHeld DEF ImportInit, OnceInv, EventCountsOnce, ActorCountsOncePerDay

LEMMA OnceStep == OnceInv /\ [ImportNext]_importVars => OnceInv'
BY HeldInvStep, EventOnceStep, ActorOnceStep DEF OnceInv

\* One event counts at most once while its receipt is due, however often it
\* is sent, retried or overtaken, unless its publication was removed.
THEOREM EventCountsOnceCorrect == ImportSpec => []EventCountsOnce
<1>1. OnceInv => EventCountsOnce
  BY DEF OnceInv
<1> QED
  BY <1>1, InitOnce, OnceStep, PTL DEF ImportSpec

\* An actor counts at most once for a share under the digest of one day,
\* whatever events it sends and however its requests overlap midnight.
THEOREM ActorCountsOnceCorrect == ImportSpec => []ActorCountsOncePerDay
<1>1. OnceInv => ActorCountsOncePerDay
  BY DEF OnceInv
<1> QED
  BY <1>1, InitOnce, OnceStep, PTL DEF ImportSpec

(***************************************************************************)
(* The counters count the log.                                             *)
(***************************************************************************)

CountedFor(s)   == {e \in log : e.share = s}
CountedOn(s, d) == {e \in log : e.share = s /\ Day(e.now) = d}

LifetimeFits ==
  \A s \in ShareIds : shares[s] # "gone" => lifetime[s] = Cardinality(CountedFor(s))

Bucketed(s) == shares[s] \notin {"emptied", "purged", "gone"}

DailyFits ==
  \A s \in ShareIds, d \in Days :
    Bucketed(s) /\ Day(clock) < d + RetentionDays =>
      daily[s][d] = Cardinality(CountedOn(s, d))

CountInv == TimeInv /\ IsFiniteSet(log) /\ LifetimeFits /\ DailyFits

LEMMA FiniteStep ==
  ASSUME ImportTypeOK, IsFiniteSet(log), [ImportNext]_importVars
  PROVE  IsFiniteSet(log)'
BY LogCases, FS_AddElement

\* The entry of a batch that counts is new, and adds one where it belongs.
LEMMA NewEntry ==
  ASSUME TimeInv, IsFiniteSet(log), NEW f, f.id = batches, log' = log \cup {f},
         NEW s, NEW d
  PROVE  /\ Cardinality(CountedFor(s))' =
              IF f.share = s THEN Cardinality(CountedFor(s)) + 1
              ELSE Cardinality(CountedFor(s))
         /\ Cardinality(CountedOn(s, d))' =
              IF f.share = s /\ Day(f.now) = d THEN Cardinality(CountedOn(s, d)) + 1
              ELSE Cardinality(CountedOn(s, d))
<1>1. f \notin log
  <2>1. batches \in Nat
    BY DEF TimeInv, ImportTypeOK
  <2> QED
    BY <2>1 DEF TimeInv, LogInTime, EntryInTime
<1>2. IsFiniteSet(CountedFor(s)) /\ IsFiniteSet(CountedOn(s, d))
  BY FS_Subset DEF CountedFor, CountedOn
<1>3. f \notin CountedFor(s) /\ f \notin CountedOn(s, d)
  BY <1>1 DEF CountedFor, CountedOn
<1>4. /\ CountedFor(s)' = IF f.share = s THEN CountedFor(s) \cup {f} ELSE CountedFor(s)
      /\ CountedOn(s, d)' = IF f.share = s /\ Day(f.now) = d
                            THEN CountedOn(s, d) \cup {f} ELSE CountedOn(s, d)
  BY DEF CountedFor, CountedOn
<1>5. /\ Cardinality(CountedFor(s) \cup {f}) = Cardinality(CountedFor(s)) + 1
      /\ Cardinality(CountedOn(s, d) \cup {f}) = Cardinality(CountedOn(s, d)) + 1
  BY <1>2, <1>3, FS_AddElement
<1> QED
  BY <1>4, <1>5

\* What a batch does to the counters.
LEMMA CountersMove ==
  ASSUME TimeInv, IsFiniteSet(log), NEW r \in Requests, request[r] # NoRequest,
         request[r].day # NoDay, CountFor(request[r])
  PROVE  \/ UNCHANGED <<lifetime, daily, log>>
         \/ \E f :
              /\ f.id = batches /\ log' = log \cup {f}
              /\ f.share \in ShareIds /\ Day(f.now) \in Days
              /\ lifetime' = [lifetime EXCEPT ![f.share] = @ + 1]
              /\ daily' = [daily EXCEPT ![f.share][Day(f.now)] = @ + 1]
<1>0. PICK p : p = request[r]
  OBVIOUS
<1>1. p.share \in ShareIds /\ Day(p.now) \in Days
  BY <1>0, RequestFacts DEF TimeInv
<1>2. PICK f : f = EntryOf(p)
  OBVIOUS
<1>3. f.id = batches /\ f.share = p.share /\ f.now = p.now
  BY <1>2 DEF EntryOf
<1>4. Batch(p)
  BY <1>0 DEF CountFor
<1>5. CASE Counts(p)
  <2>1. /\ log' = log \cup {f}
        /\ lifetime' = [lifetime EXCEPT ![f.share] = @ + 1]
        /\ daily' = [daily EXCEPT ![f.share][Day(f.now)] = @ + 1]
    BY <1>2, <1>3, <1>4, <1>5 DEF Batch, EntryOf
  <2> QED
    BY <1>1, <1>3, <2>1
<1>6. CASE ~Counts(p)
  BY <1>4, <1>6 DEF Batch
<1> QED
  BY <1>5, <1>6

LEMMA LifetimeStep ==
  ASSUME CountInv, [ImportNext]_importVars
  PROVE  LifetimeFits'
<1>t. TimeInv /\ ImportTypeOK /\ IsFiniteSet(log)
  BY DEF CountInv, TimeInv
<1>f. lifetime \in [ShareIds -> Nat] /\ shares \in [ShareIds -> Standings]
  BY <1>t DEF ImportTypeOK
<1> SUFFICES ASSUME NEW s \in ShareIds, shares'[s] # "gone"
             PROVE  lifetime'[s] = Cardinality(CountedFor(s))'
  BY DEF LifetimeFits
<1>1. lifetime[s] = Cardinality(CountedFor(s))
  BY <1>t, RemovedStays DEF CountInv, LifetimeFits
<1>2. ASSUME log' = log, lifetime'[s] = lifetime[s]
      PROVE  lifetime'[s] = Cardinality(CountedFor(s))'
  BY <1>1, <1>2 DEF CountedFor
<1>3. ASSUME NEW r \in Requests, request[r] # NoRequest, request[r].day # NoDay,
             CountFor(request[r])
      PROVE  lifetime'[s] = Cardinality(CountedFor(s))'
  <2>1. CASE UNCHANGED <<lifetime, daily, log>>
    BY <1>2, <2>1
  <2>2. ASSUME NEW f, f.id = batches, log' = log \cup {f}, f.share \in ShareIds,
               lifetime' = [lifetime EXCEPT ![f.share] = @ + 1]
        PROVE  lifetime'[s] = Cardinality(CountedFor(s))'
    BY <1>1, <1>f, <1>t, <2>2, NewEntry
  <2> QED
    BY <1>3, <1>t, <2>1, <2>2, CountersMove
<1>4. ASSUME NEW i \in ShareIds,
             Publish(i, "public") \/ Publish(i, "unlisted") \/ DeleteShare(i) \/ Takedown(i)
      PROVE  lifetime'[s] = Cardinality(CountedFor(s))'
  <2>1. log' = log
    BY <1>4 DEF Publish, DeleteShare, Takedown
  <2>2. lifetime' = lifetime \/ RemoveRow(i)
    BY <1>4 DEF Publish, DeleteShare, Takedown
  <2>3. RemoveRow(i) => i # s
    BY <1>f DEF RemoveRow, Stand
  <2>4. lifetime'[s] = lifetime[s]
    BY <1>f, <2>2, <2>3 DEF RemoveRow
  <2> QED
    BY <1>2, <2>1, <2>4
<1>5. ASSUME NEW now \in Nat, Prune(now)
      PROVE  lifetime'[s] = Cardinality(CountedFor(s))'
  BY <1>2, <1>5 DEF Prune
<1>6. Quiet => lifetime'[s] = Cardinality(CountedFor(s))'
  BY <1>2 DEF Quiet, tables
<1> QED
  BY <1>3, <1>4, <1>5, <1>6, <1>t, StepCases

LEMMA DailyStep ==
  ASSUME CountInv, [ImportNext]_importVars
  PROVE  DailyFits'
<1>t. TimeInv /\ ImportTypeOK /\ IsFiniteSet(log) /\ ImportTypeOK'
  BY TypeStep DEF CountInv, TimeInv
<1>f. /\ daily \in [ShareIds -> [Days -> Nat]] /\ shares \in [ShareIds -> Standings]
      /\ clock \in Times /\ clock' \in Times /\ clock <= clock'
      /\ clock \in Nat /\ RetentionDays \in Nat
  BY <1>t, ClockMoves, LifetimeAssumption DEF ImportTypeOK
<1> SUFFICES ASSUME NEW s \in ShareIds, NEW d \in Days,
                    Bucketed(s)', Day(clock') < d + RetentionDays
             PROVE  daily'[s][d] = Cardinality(CountedOn(s, d))'
  BY DEF DailyFits
<1> DEFINE Fits == daily'[s][d] = Cardinality(CountedOn(s, d))'
<1>d. /\ d \in Nat /\ Day(clock) \in Nat /\ Day(clock') \in Nat
      /\ Day(clock) <= Day(clock') /\ Day(clock) < d + RetentionDays
  <2>1. /\ d \in Nat /\ Day(clock) \in Nat /\ Day(clock') \in Nat
        /\ Day(clock) <= Day(clock')
    BY <1>f, DayFacts, DayAssumption
  <2> QED
    BY <1>f, <2>1
\* Once out of its buckets, a publication never has them again.
<1>b. Bucketed(s)
  <2>1. ASSUME NEW i \in ShareIds,
               Publish(i, "public") \/ Publish(i, "unlisted") \/ DeleteShare(i) \/ Takedown(i)
        PROVE  Bucketed(s)
    BY <1>f, <2>1 DEF Publish, DeleteShare, Takedown, RemoveRow, Stand, Bucketed
  <2>2. shares' = shares => Bucketed(s)
    BY DEF Bucketed
  <2>3. /\ \A r \in Requests : CountFor(request[r]) => shares' = shares
        /\ \A now \in Nat : Prune(now) => shares' = shares
        /\ Quiet => shares' = shares
    BY DEF CountFor, Prune, Quiet, tables
  <2> QED
    BY <1>t, <2>1, <2>2, <2>3, StepCases
<1>1. daily[s][d] = Cardinality(CountedOn(s, d))
  BY <1>b, <1>d DEF CountInv, DailyFits
<1>2. ASSUME log' = log, daily'[s][d] = daily[s][d]
      PROVE  Fits
  BY <1>1, <1>2 DEF CountedOn
<1>3. ASSUME NEW r \in Requests, request[r] # NoRequest, request[r].day # NoDay,
             CountFor(request[r])
      PROVE  Fits
  <2>1. CASE UNCHANGED <<lifetime, daily, log>>
    BY <1>2, <2>1
  <2>2. ASSUME NEW f, f.id = batches, log' = log \cup {f}, f.share \in ShareIds,
               Day(f.now) \in Days,
               daily' = [daily EXCEPT ![f.share][Day(f.now)] = @ + 1]
        PROVE  Fits
    <3>1. daily'[s][d] = IF f.share = s /\ Day(f.now) = d
                         THEN daily[s][d] + 1 ELSE daily[s][d]
      BY <1>f, <2>2
    <3> QED
      BY <1>1, <1>t, <2>2, <3>1, NewEntry
  <2> QED
    BY <1>3, <1>t, <2>1, <2>2, CountersMove
<1>4. ASSUME NEW i \in ShareIds,
             Publish(i, "public") \/ Publish(i, "unlisted") \/ DeleteShare(i) \/ Takedown(i)
      PROVE  Fits
  <2>1. log' = log
    BY <1>4 DEF Publish, DeleteShare, Takedown
  <2>2. daily' = daily \/ (PurgeDaily(i) /\ ~Bucketed(i)')
    BY <1>4, <1>f DEF Publish, DeleteShare, Takedown, RemoveRow, Stand, Bucketed
  <2>3. PurgeDaily(i) /\ ~Bucketed(i)' => i # s
    OBVIOUS
  <2>4. daily'[s][d] = daily[s][d]
    BY <1>f, <2>2, <2>3 DEF PurgeDaily
  <2> QED
    BY <1>2, <2>1, <2>4
\* The cleanup's day is not after the clock's, so no bucket is due that a
\* ranking can look at.
<1>5. ASSUME NEW now \in Nat, now <= clock, Prune(now)
      PROVE  Fits
  <2>1. now \in Times
    BY <1>5, <1>f, DayAssumption DEF Times
  <2>2. Day(now) \in Nat /\ Day(now) <= Day(clock)
    BY <1>5, <1>f, <2>1, DayAssumption
  <2>3. ~BucketDue(d, now)
    BY <1>d, <1>f, <2>2 DEF BucketDue
  <2>4. daily'[s][d] = daily[s][d] /\ log' = log
    BY <1>5, <2>3 DEF Prune
  <2> QED
    BY <1>2, <2>4
<1>6. Quiet => Fits
  BY <1>2 DEF Quiet, tables
<1> HIDE DEF Fits
<1>7. Fits
  BY <1>3, <1>4, <1>5, <1>6, <1>t, StepCases
<1> QED
  BY <1>7 DEF Fits

LEMMA InitCount == ImportInit => CountInv
<1> SUFFICES ASSUME ImportInit PROVE CountInv
  OBVIOUS
<1>1. TimeInv /\ IsFiniteSet(log)
  BY InitTime, FS_EmptySet DEF ImportInit
<1>2. \A s, d : CountedFor(s) = {} /\ CountedOn(s, d) = {}
  BY DEF ImportInit, CountedFor, CountedOn
<1>3. LifetimeFits /\ DailyFits
  BY <1>2, FS_EmptySet DEF ImportInit, LifetimeFits, DailyFits
<1> QED
  BY <1>1, <1>3 DEF CountInv

LEMMA CountStep == CountInv /\ [ImportNext]_importVars => CountInv'
BY TimeStep, FiniteStep, LifetimeStep, DailyStep DEF CountInv, TimeInv

\* The lifetime counter is the number of notifications that counted.
THEOREM LifetimeIsExactCorrect == ImportSpec => []LifetimeIsExact
<1>1. CountInv => LifetimeIsExact
  BY DEF CountInv, LifetimeFits, LifetimeIsExact, Settled, CountedFor
<1> QED
  BY <1>1, InitCount, CountStep, PTL DEF ImportSpec

\* Retention never reaches into a day that a ranking can look at.
THEOREM WindowIsExactCorrect == ImportSpec => []WindowIsExact
<1>1. CountInv => WindowIsExact
  BY DEF CountInv, DailyFits, WindowIsExact, Settled, Bucketed, CountedOn
<1> QED
  BY <1>1, InitCount, CountStep, PTL DEF ImportSpec

(***************************************************************************)
(* Nothing is kept of what is gone.                                        *)
(***************************************************************************)

NoBuckets(s) == \A d \in Days : daily[s][d] = 0

NoReceipts(s) ==
  /\ \A e \in Events : eventReceipts[e] # NoReceipt => eventReceipts[e].share # s
  /\ \A k \in ActorKeys : actorReceipts[k] # NoReceipt => actorReceipts[k].share # s

\* What each stage of a takedown has made clean stays clean, since a batch
\* touches public publications only.
StagesClean ==
  \A s \in ShareIds :
    /\ shares[s] \in {"pending", "emptied", "purged", "gone"} => NoBuckets(s)
    /\ shares[s] \in {"pending", "purged", "gone"} => NoReceipts(s)
    /\ shares[s] \in {"pending", "gone"} => lifetime[s] = 0

CleanInv == TimeInv /\ StagesClean

LEMMA CleanStep ==
  ASSUME CleanInv, [ImportNext]_importVars
  PROVE  StagesClean'
<1>t. TimeInv /\ ImportTypeOK
  BY DEF CleanInv, TimeInv
<1>f. /\ daily \in [ShareIds -> [Days -> Nat]] /\ lifetime \in [ShareIds -> Nat]
      /\ shares \in [ShareIds -> Standings]
      /\ eventReceipts \in [Events -> ReceiptRow \cup {NoReceipt}]
      /\ actorReceipts \in [ActorKeys -> ReceiptRow \cup {NoReceipt}]
  BY <1>t DEF ImportTypeOK, ActorKeys
<1> DEFINE Clean(s) ==
             /\ shares[s] \in {"pending", "emptied", "purged", "gone"} => NoBuckets(s)
             /\ shares[s] \in {"pending", "purged", "gone"} => NoReceipts(s)
             /\ shares[s] \in {"pending", "gone"} => lifetime[s] = 0
<1>c. \A s \in ShareIds : Clean(s)
  BY DEF CleanInv, StagesClean
<1> SUFFICES ASSUME NEW s \in ShareIds
             PROVE  Clean(s)'
  BY DEF StagesClean
\* Receipts that are only cleared, and counters that stay or go to zero.
<1>1. ASSUME shares'[s] = shares[s], lifetime'[s] = lifetime[s],
             \A d \in Days : daily'[s][d] \in {0, daily[s][d]},
             \A e \in Events : eventReceipts'[e] \in {NoReceipt, eventReceipts[e]},
             \A k \in ActorKeys : actorReceipts'[k] \in {NoReceipt, actorReceipts[k]}
      PROVE  Clean(s)'
  BY <1>1, <1>c DEF NoBuckets, NoReceipts
<1>2. ASSUME NEW r \in Requests, request[r] # NoRequest, request[r].day # NoDay,
             CountFor(request[r])
      PROVE  Clean(s)'
  <2>0. PICK p : p = request[r]
    OBVIOUS
  <2>1. /\ p.share \in ShareIds /\ p.event \in Events /\ Day(p.now) \in Days
        /\ ActorKey(p) \in ActorKeys
    BY <1>2, <1>t, <2>0, RequestFacts DEF ActorKeys
  <2>2. Batch(p) /\ shares' = shares
    BY <1>2, <2>0 DEF CountFor
  <2>3. CASE ~Admits(p)
    <3>1. UNCHANGED <<daily, lifetime>>
      BY <2>2, <2>3 DEF Batch, Counts
    <3>2. /\ \A e \in Events : eventReceipts'[e] \in {NoReceipt, eventReceipts[e]}
          /\ \A k \in ActorKeys : actorReceipts'[k] \in {NoReceipt, actorReceipts[k]}
      BY <1>f, <2>1, <2>2, <2>3 DEF Batch, Counts, Kept
    <3> QED
      BY <1>1, <2>2, <3>1, <3>2
  <2>4. CASE Admits(p)
    <3>1. shares[p.share] = "public" /\ Minted(p).share = p.share
      BY <2>4 DEF Admits, Minted
    <3>2. CASE s = p.share
      BY <2>2, <3>1, <3>2
    <3>3. CASE s # p.share
      <4>1. daily'[s] = daily[s] /\ lifetime'[s] = lifetime[s]
        BY <1>f, <2>1, <2>2, <3>3 DEF Batch
      <4>2. \A e \in Events : \/ eventReceipts'[e] \in {NoReceipt, eventReceipts[e]}
                              \/ eventReceipts'[e].share # s
        BY <1>f, <2>1, <2>2, <3>1, <3>3 DEF Batch, Kept
      <4>3. \A k \in ActorKeys : \/ actorReceipts'[k] \in {NoReceipt, actorReceipts[k]}
                                 \/ actorReceipts'[k].share # s
        BY <1>f, <2>1, <2>2, <3>1, <3>3 DEF Batch, Kept
      <4> QED
        BY <1>c, <2>2, <4>1, <4>2, <4>3 DEF NoBuckets, NoReceipts
    <3> QED
      BY <3>2, <3>3
  <2> QED
    BY <2>3, <2>4
<1>3. ASSUME NEW i \in ShareIds, Publish(i, "public") \/ Publish(i, "unlisted")
      PROVE  Clean(s)'
  <2>1. CASE i = s
    BY <1>3, <1>f, <2>1 DEF Publish, Stand
  <2>2. CASE i # s
    <3>1. shares'[s] = shares[s] /\ UNCHANGED <<lifetime, daily, eventReceipts, actorReceipts>>
      BY <1>3, <1>f, <2>2 DEF Publish, Stand
    <3> QED
      BY <1>1, <3>1
  <2> QED
    BY <2>1, <2>2
<1>4. ASSUME NEW i \in ShareIds, PurgeReceipts(i)
      PROVE  /\ NoReceipts(i)'
             /\ \A e \in Events : eventReceipts'[e] \in {NoReceipt, eventReceipts[e]}
             /\ \A k \in ActorKeys : actorReceipts'[k] \in {NoReceipt, actorReceipts[k]}
  BY <1>4 DEF PurgeReceipts, NoReceipts, ActorKeys
<1>5. ASSUME NEW i \in ShareIds, PurgeDaily(i)
      PROVE  /\ NoBuckets(i)'
             /\ \A d \in Days : daily'[s][d] \in {0, daily[s][d]}
  BY <1>5, <1>f DEF PurgeDaily, NoBuckets
<1>6. ASSUME NEW i \in ShareIds, RemoveRow(i)
      PROVE  /\ lifetime'[i] = 0 /\ shares'[i] = "gone"
             /\ i # s => lifetime'[s] = lifetime[s] /\ shares'[s] = shares[s]
  BY <1>6, <1>f DEF RemoveRow, Stand
<1>7. ASSUME NEW i \in ShareIds, DeleteShare(i)
      PROVE  Clean(s)'
  <2>1. RemoveRow(i) /\ PurgeDaily(i) /\ PurgeReceipts(i)
    BY <1>7 DEF DeleteShare
  <2>2. CASE i = s
    BY <1>4, <1>5, <1>6, <2>1, <2>2
  <2>3. CASE i # s
    BY <1>1, <1>4, <1>5, <1>6, <2>1, <2>3
  <2> QED
    BY <2>2, <2>3
<1>8. ASSUME NEW i \in ShareIds, Takedown(i)
      PROVE  Clean(s)'
  <2>1. CASE /\ shares[i] \in {"pending", "public", "unlisted"}
             /\ Stand(i, "blocked")
             /\ UNCHANGED <<lifetime, daily, eventReceipts, actorReceipts>>
    <3>1. CASE i = s
      BY <1>f, <2>1, <3>1 DEF Stand
    <3>2. CASE i # s
      <4>1. shares'[s] = shares[s]
        BY <1>f, <2>1, <3>2 DEF Stand
      <4> QED
        BY <1>1, <2>1, <4>1
    <3> QED
      BY <3>1, <3>2
  <2>2. CASE /\ shares[i] = "blocked"
             /\ Stand(i, "emptied") /\ PurgeDaily(i)
             /\ UNCHANGED <<lifetime, eventReceipts, actorReceipts>>
    <3>1. shares'[i] = "emptied" /\ (i # s => shares'[s] = shares[s])
      BY <1>f, <2>2 DEF Stand
    <3>2. CASE i = s
      BY <1>5, <2>2, <3>1, <3>2
    <3>3. CASE i # s
      BY <1>1, <1>5, <2>2, <3>1, <3>3
    <3> QED
      BY <3>2, <3>3
  <2>3. CASE /\ shares[i] = "emptied"
             /\ Stand(i, "purged") /\ PurgeReceipts(i)
             /\ UNCHANGED <<lifetime, daily>>
    <3>1. shares'[i] = "purged" /\ (i # s => shares'[s] = shares[s])
      BY <1>f, <2>3 DEF Stand
    <3>2. CASE i = s
      <4>1. NoBuckets(s)'
        BY <1>c, <2>3, <3>2 DEF NoBuckets
      <4> QED
        BY <1>4, <2>3, <3>1, <3>2, <4>1
    <3>3. CASE i # s
      BY <1>1, <1>4, <2>3, <3>1, <3>3
    <3> QED
      BY <3>2, <3>3
  <2>4. CASE /\ shares[i] = "purged"
             /\ RemoveRow(i)
             /\ UNCHANGED <<daily, eventReceipts, actorReceipts>>
    <3>1. CASE i = s
      <4>1. NoBuckets(s)' /\ NoReceipts(s)'
        BY <1>c, <2>4, <3>1 DEF NoBuckets, NoReceipts
      <4> QED
        BY <1>6, <2>4, <3>1, <4>1
    <3>2. CASE i # s
      BY <1>1, <1>6, <2>4, <3>2
    <3> QED
      BY <3>1, <3>2
  <2> QED
    BY <1>8, <2>1, <2>2, <2>3, <2>4 DEF Takedown
<1>9. ASSUME NEW now \in Nat, Prune(now)
      PROVE  Clean(s)'
  <2>1. shares' = shares /\ lifetime' = lifetime
    BY <1>9 DEF Prune
  <2>2. /\ \A d \in Days : daily'[s][d] \in {0, daily[s][d]}
        /\ \A e \in Events : eventReceipts'[e] \in {NoReceipt, eventReceipts[e]}
        /\ \A k \in ActorKeys : actorReceipts'[k] \in {NoReceipt, actorReceipts[k]}
    BY <1>9 DEF Prune, Kept, ActorKeys
  <2> QED
    BY <1>1, <2>1, <2>2
<1>10. Quiet => Clean(s)'
  BY <1>1 DEF Quiet, tables
<1> HIDE DEF Clean
<1> QED
  BY <1>2, <1>3, <1>7, <1>8, <1>9, <1>10, <1>t, StepCases

LEMMA CleanInvStep == CleanInv /\ [ImportNext]_importVars => CleanInv'
BY CleanStep, TimeStep DEF CleanInv

LEMMA InitClean == ImportInit => CleanInv
BY InitTime DEF ImportInit, CleanInv, StagesClean, NoBuckets, NoReceipts, ActorKeys

\* Nothing is kept, or recorded again, of a publication that is gone.
THEOREM NothingKeptCorrect == ImportSpec => []NothingKeptOfGone
<1>1. CleanInv => NothingKeptOfGone
  BY DEF CleanInv, StagesClean, NothingKeptOfGone, NoBuckets, NoReceipts, ActorKeys
<1> QED
  BY <1>1, InitClean, CleanInvStep, PTL DEF ImportSpec
===============================================================================
