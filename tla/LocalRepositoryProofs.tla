------------------------- MODULE LocalRepositoryProofs -------------------------
(***************************************************************************)
(* What is acknowledged as committed stays stored, is applied once, and is *)
(* what the page was told, for every number of pages and whatever they ask *)
(* for: as long as no load of the state overlaps a load that must write.   *)
(***************************************************************************)
EXTENDS LocalRepository, WellFoundedInduction, TLAPS

(***************************************************************************)
(* The inductive invariant.                                                *)
(***************************************************************************)

LoadStages == {"state", "legacy", "repair", "repaired", "migrated"}
Saving == writer.at \in {"writing", "reconciling", "clearing"}
StateSet(r) == r.op = "set" /\ r.key = "state"

\* What storage holds as far as the worker has been told.
Base == IF writer.at = "writing" THEN writer.current ELSE disk

\* What a load that reads d has to write.
Old(d) == d = Absent \/ (Parsed(d) /\ NeedsRepair(d))

Exclusive(p) == mem = Absent /\ \A q \in Processes : q # p => load[q] = NotLoading

ShapeInv ==
  /\ IsSeq(io) /\ IsSeq(answers) /\ IsSeq(queue) /\ IsSeq(log)
  /\ \A i \in DOMAIN io : DOMAIN io[i] = {"who", "op", "key", "value"}
  /\ DOMAIN load = Processes /\ DOMAIN client = Clients
  /\ \A p \in Processes : /\ DOMAIN load[p] = {"at", "state"}
                          /\ load[p].at \in LoadStages \cup {"no", "done", "threw"}
                          /\ load[p].at = "no" => load[p] = NotLoading
  /\ DOMAIN writer = {"at", "command", "current", "candidate"}
  /\ writer.at \in {"idle", "starting", "hashing", "writing", "reconciling", "clearing"}
  /\ \A c \in Clients : /\ DOMAIN client[c] = {"at", "attempt", "read", "reply"}
                        /\ client[c].at \in {"idle", "reading", "read", "dispatched",
                                             "answered", "done"}
  /\ Parsed(disk) => IsState(disk)

\* p waits for the request r, which is not executed yet.
Asked(p, r) ==
  \/ load[p].at = "state" /\ r.op = "get" /\ r.key = "state"
  \/ load[p].at \in {"legacy", "repair"} /\ r.op = "get" /\ r.key = "legacy"
  \/ load[p].at = "repaired" /\ StateSet(r)
       /\ r.value = Repaired(load[p].state) /\ disk = load[p].state
  \/ load[p].at = "migrated" /\ StateSet(r) /\ r.value = NewState(legacy) /\ disk = Absent
  \/ p = Writer /\ writer.at = "writing" /\ StateSet(r)
       /\ r.value = writer.candidate /\ disk = writer.current
  \/ p = Writer /\ writer.at = "reconciling" /\ r.op = "get" /\ r.key = "transient"
  \/ p = Writer /\ writer.at = "clearing" /\ r.op = "set" /\ r.key = "transient"

\* p waits for the answer a, the i-th.
Told(p, a, i) ==
  \/ load[p].at = "state" /\ a.value = Base
  \/ load[p].at \in {"legacy", "repair"}
  \/ load[p].at = "repaired" /\ i = 1
       /\ disk = (IF a.ok THEN Repaired(load[p].state) ELSE load[p].state)
  \/ load[p].at = "migrated" /\ i = 1
       /\ disk = (IF a.ok THEN NewState(legacy) ELSE Absent)
  \/ p = Writer /\ writer.at = "writing" /\ i = Len(answers) /\ io = <<>>
       /\ disk = (IF a.ok THEN writer.candidate ELSE writer.current)
  \/ p = Writer /\ writer.at \in {"reconciling", "clearing"}

\* An orphan is what a stopped worker left: nobody has read anything since.
OrphanAt(i) ==
  /\ answers = <<>> /\ mem = Absent /\ writer.at \in {"idle", "starting"}
  /\ \A p \in Processes : load[p].at \in {"no", "state"}
  /\ \A j \in 1 .. i : io[j].who = Absent

FlightInv ==
  /\ \A i \in DOMAIN io : IF io[i].who = Absent THEN OrphanAt(i)
                          ELSE io[i].who \in Processes /\ Asked(io[i].who, io[i])
  /\ \A i \in DOMAIN answers : answers[i].who \in Processes /\ Told(answers[i].who, answers[i], i)
  /\ \A i, j \in DOMAIN io : io[i].who = io[j].who /\ io[i].who # Absent => i = j
  /\ \A i, j \in DOMAIN answers : answers[i].who = answers[j].who => i = j
  /\ \A i \in DOMAIN io, j \in DOMAIN answers : io[i].who # answers[j].who

\* One write of the state is on its way at a time, and it makes progress.
Follows(d, state) ==
  /\ IsState(state) /\ d # Unreadable
  /\ Parsed(d) => /\ d.revision < state.revision
                  /\ d.applied \subseteq state.applied
                  /\ d.parser <= state.parser

WriteInv ==
  /\ \A i, j \in DOMAIN io : StateSet(io[i]) /\ StateSet(io[j]) => i = j
  /\ \A i \in DOMAIN io : StateSet(io[i]) /\ io[i].who # Absent => i = Len(io)
  /\ \A i \in DOMAIN io : StateSet(io[i]) => Follows(disk, io[i].value)

LoadInv ==
  \A p \in Processes :
    /\ load[p].at = "legacy" => disk = Absent
    /\ load[p].at = "repair" => disk = load[p].state
    /\ load[p].at \in {"repair", "repaired"} =>
         IsState(load[p].state) /\ Parsed(load[p].state) /\ NeedsRepair(load[p].state)
    /\ load[p].at \in {"legacy", "repair"} => Exclusive(p)
    /\ load[p].at \in {"repaired", "migrated"} =>
         /\ mem = Absent /\ \A q \in Processes : q # p => load[q].at \in {"no", "state"}
         /\ \/ \E i \in DOMAIN io : io[i].who = p
            \/ \E i \in DOMAIN answers : answers[i].who = p
    /\ load[p].at \in LoadStages /\ Old(Base) => Exclusive(p)
    /\ load[p].at = "done" =>
         /\ Parsed(Base) /\ load[p].state.revision \in Nat
         /\ load[p].state.revision <= Base.revision
    /\ load[Writer].at = "done" => mem # Absent /\ load[Writer].state = mem
    /\ load[Writer].at # "no" => writer.at = "starting"
    /\ p \in Clients /\ load[p].at # "no" => client[p].at = "reading"

MemInv ==
  /\ mem # Absent => mem = Base /\ Parsed(mem) /\ IsState(mem)
  /\ writer.at \notin {"idle", "starting"} => mem # Absent
  /\ writer.at \in {"hashing", "writing"} => writer.current = mem
  /\ writer.at = "writing" =>
       /\ disk \in {writer.current, writer.candidate}
       /\ io # <<>> => disk = writer.current
       /\ Verdict(writer.current, writer.command).kind = "write"
       /\ writer.command.operationId \notin writer.current.applied
       /\ writer.candidate = Candidate(writer.current, writer.command,
            ApplyStorageMutation(writer.current, writer.command.body))

\* The reply of c says that it changed nothing, or it has none yet.
Heard(c, kinds) == client[c].at \in {"answered", "done"} /\ client[c].reply.kind \in kinds
Untouched(c) ==
  \/ client[c].at \in {"idle", "reading", "read"}
  \/ Heard(c, {"revision-conflict", "mutation-rejected", "no-change"})

\* What the state holds is accounted for by what was sent.
Clean(state) ==
  /\ \A c \in Clients :
       \/ Untouched(c)
       \/ client[c].at = "dispatched" /\ ~(Saving /\ writer.command.operationId = c)
       => c \notin state.applied
  /\ \A command \in sent :
       command.operationId \in state.applied => command.expectedRevision < state.revision

\* The command will never be applied.
Spent(command) ==
  \/ command.expectedRevision < disk.revision
  \/ /\ Heard(command.operationId, {"mutation-rejected"})
     /\ command.expectedRevision = disk.revision
     /\ ApplyStorageMutation(disk, command.body).kind # "updated"

SentInv ==
  /\ \A command \in sent :
       /\ command.operationId \in Clients /\ command.expectedRevision \in Nat
       /\ Parsed(disk) /\ command.expectedRevision <= disk.revision
       /\ Untouched(command.operationId) => Spent(command)
       /\ client[command.operationId].at = "dispatched" =>
            \/ command.expectedRevision < disk.revision
            \/ \E i \in DOMAIN queue : queue[i] = command
            \/ writer.at # "idle" /\ writer.command = command
  /\ \A c \in Clients : client[c].at = "read" =>
       /\ Parsed(disk) /\ client[c].read.revision \in Nat
       /\ client[c].read.revision <= disk.revision
  /\ Parsed(disk) => Clean(disk)
  /\ \A i \in DOMAIN io : StateSet(io[i]) => Clean(io[i].value)

QueueInv ==
  /\ \A i \in DOMAIN queue : /\ queue[i] \in sent
                             /\ client[queue[i].operationId].at \in {"dispatched", "done"}
  /\ \A i, j \in DOMAIN queue :
       queue[i].operationId = queue[j].operationId
       /\ client[queue[i].operationId].at = "dispatched" => i = j
  /\ writer.at # "idle" =>
       /\ writer.command \in sent
       /\ client[writer.command.operationId].at \in {"dispatched", "done"}
       /\ client[writer.command.operationId].at = "dispatched" =>
            \A i \in DOMAIN queue : queue[i].operationId # writer.command.operationId
  /\ Saving => ~Untouched(writer.command.operationId)

LogInv ==
  /\ \A i \in DOMAIN log : Parsed(Base) /\ log[i].operationId \in Base.applied
  /\ AppliedOnce
  /\ writer.at \in {"reconciling", "clearing"} => \E i \in DOMAIN log : log[i] = WriterReply
  /\ \A c \in Clients : Heard(c, {"committed"}) =>
       \E i \in DOMAIN log : log[i] = client[c].reply

RepositoryInv ==
  ShapeInv /\ FlightInv /\ WriteInv /\ LoadInv /\ MemInv /\ SentInv /\ QueueInv /\ LogInv

(***************************************************************************)
(* Sequences, and what the operators on states keep.                       *)
(***************************************************************************)

LEMMA IsSeqOf ==
  ASSUME NEW s, NEW X, s \in Seq(X)
  PROVE  IsSeq(s) /\ Len(s) \in Nat /\ DOMAIN s = 1 .. Len(s) /\ \A i \in DOMAIN s : s[i] \in X
<1> DEFINE Y == {s[i] : i \in DOMAIN s}
<1>1. s = [i \in 1 .. Len(s) |-> s[i]] /\ Len(s) \in Nat /\ DOMAIN s = 1 .. Len(s)
  OBVIOUS
<1>2. \A i \in 1 .. Len(s) : s[i] \in Y
  BY <1>1
<1>3. s \in Seq(Y)
  BY <1>1, <1>2
<1>4. \A i \in DOMAIN s : s[i] \in X
  OBVIOUS
<1>5. QED
  BY <1>1, <1>3, <1>4 DEF IsSeq

LEMMA SeqFacts ==
  ASSUME NEW s, IsSeq(s)
  PROVE  /\ Len(s) \in Nat /\ DOMAIN s = 1 .. Len(s)
         /\ s = <<>> <=> Len(s) = 0
<1>1. PICK X : X = {s[i] : i \in DOMAIN s}
  OBVIOUS
<1>2. s \in Seq(X)
  BY <1>1 DEF IsSeq
<1>3. QED
  BY <1>2

LEMMA SeqAppend ==
  ASSUME NEW s, IsSeq(s), NEW x
  PROVE  /\ IsSeq(Append(s, x)) /\ Len(Append(s, x)) = Len(s) + 1
         /\ DOMAIN Append(s, x) = 1 .. Len(s) + 1
         /\ Append(s, x)[Len(s) + 1] = x
         /\ \A i \in 1 .. Len(s) : Append(s, x)[i] = s[i]
<1>1. PICK X : X = {s[i] : i \in DOMAIN s} \cup {x}
  OBVIOUS
<1>2. s \in Seq(X)
  BY <1>1 DEF IsSeq
<1>3. /\ Append(s, x) \in Seq(X) /\ Len(Append(s, x)) = Len(s) + 1
      /\ Append(s, x)[Len(s) + 1] = x
      /\ \A i \in 1 .. Len(s) : Append(s, x)[i] = s[i]
  BY <1>1, <1>2
<1>4. QED
  BY <1>3, IsSeqOf

LEMMA SeqTail ==
  ASSUME NEW s, IsSeq(s), s # <<>>
  PROVE  /\ IsSeq(Tail(s)) /\ Len(Tail(s)) = Len(s) - 1 /\ Len(s) \in Nat \ {0}
         /\ DOMAIN Tail(s) = 1 .. Len(s) - 1
         /\ Head(s) = s[1]
         /\ \A i \in 1 .. Len(s) - 1 : Tail(s)[i] = s[i + 1]
<1>1. PICK X : X = {s[i] : i \in DOMAIN s}
  OBVIOUS
<1>2. s \in Seq(X)
  BY <1>1 DEF IsSeq
<1>3. /\ Tail(s) \in Seq(X) /\ Len(Tail(s)) = Len(s) - 1 /\ Len(s) \in Nat \ {0}
      /\ Head(s) = s[1] /\ \A i \in 1 .. Len(s) - 1 : Tail(s)[i] = s[i + 1]
  BY <1>2
<1>4. QED
  BY <1>3, IsSeqOf

LEMMA SeqEmpty == IsSeq(<<>>) /\ Len(<<>>) = 0 /\ DOMAIN <<>> = {}
  BY DEF IsSeq

LEMMA SeqLast ==
  ASSUME NEW s, IsSeq(s), NEW n, n \in Nat \ {0}, NEW t, t = LastOf(s, n)
  PROVE  IsSeq(t) /\ \A i \in DOMAIN t : \E j \in DOMAIN s : t[i] = s[j]
<1>1. PICK X : X = {s[i] : i \in DOMAIN s}
  OBVIOUS
<1>2. s \in Seq(X) /\ Len(s) \in Nat
  BY <1>1 DEF IsSeq
<1>3. PICK m : m = (IF Len(s) > n THEN Len(s) - n + 1 ELSE 1)
  OBVIOUS
<1>4. m \in 1 .. Len(s) + 1
  BY <1>2, <1>3
<1>5. t = SubSeq(s, m, Len(s))
  BY <1>3 DEF LastOf
<1>6. m \in Int /\ Len(s) \in Int /\ \A i \in m .. Len(s) : s[i] \in X
  BY <1>2, <1>4
<1>7. t \in Seq(X)
  BY <1>2, <1>4, <1>5
<1>8. IsSeq(t) /\ \A i \in DOMAIN t : t[i] \in X
  BY <1>7, IsSeqOf
<1>9. QED
  BY <1>1, <1>8

\* No null is a state: a state is a record.
NullsAreNoStates == \A v : DOMAIN v = StateFields => v \notin {Absent, Unreadable}

LEMMA StateIsParsed ==
  ASSUME NullsAreNoStates, NEW v, IsState(v)
  PROVE  Parsed(v)
  BY DEF NullsAreNoStates, IsState, Parsed

\* A mutation changes collections only.
LEMMA MutationKeeps ==
  ASSUME NEW s, IsState(s), NEW body, NEW next,
         ApplyStorageMutation(s, body).kind = "updated",
         next = ApplyStorageMutation(s, body).state
  PROVE  /\ DOMAIN next = StateFields
         /\ next.revision = s.revision /\ next.parser = s.parser
         /\ next.receipts = s.receipts /\ next.applied = s.applied
  BY DEF ApplyStorageMutation, IsState, StateFields

LEMMA CandidateIs ==
  ASSUME NEW s, IsState(s), NEW command, NEW v,
         ApplyStorageMutation(s, command.body).kind = "updated",
         v = Candidate(s, command, ApplyStorageMutation(s, command.body))
  PROVE  /\ IsState(v) /\ v.revision = s.revision + 1 /\ v.parser = s.parser
         /\ v.applied = s.applied \cup {command.operationId}
<1>1. PICK next : next = ApplyStorageMutation(s, command.body).state
  OBVIOUS
<1>2. PICK receipt : receipt =
        [operationId |-> command.operationId, requestHash |-> RequestHash(command),
         result |-> Committed(command, s.revision + 1)]
  OBVIOUS
<1>3. PICK del : del = next.deleted \cup (Clips(s.playlists) \ Clips(next.playlists))
  OBVIOUS
<1>4. PICK longer, receipts : longer = Append(s.receipts, receipt)
                              /\ receipts = LastOf(longer, MaxReceipts)
  OBVIOUS
<1>5. v = [next EXCEPT !.revision = s.revision + 1, !.receipts = receipts,
                       !.applied = @ \cup {command.operationId}, !.deleted = del]
  BY <1>1, <1>2, <1>3, <1>4 DEF Candidate
<1>6. /\ DOMAIN next = StateFields /\ next.revision = s.revision /\ next.parser = s.parser
      /\ next.receipts = s.receipts /\ next.applied = s.applied
  BY <1>1, MutationKeeps
<1>7. /\ DOMAIN v = StateFields /\ v.revision = s.revision + 1 /\ v.receipts = receipts
      /\ v.applied = s.applied \cup {command.operationId} /\ v.parser = s.parser
  BY <1>5, <1>6 DEF StateFields
<1>8. IsSeq(s.receipts) /\ MaxReceipts \in Nat \ {0}
  BY RepositoryAssumption DEF IsState
<1>9. /\ IsSeq(longer)
      /\ \A i \in DOMAIN longer :
           longer[i] = receipt \/ \E j \in DOMAIN s.receipts : longer[i] = s.receipts[j]
  BY <1>4, <1>8, SeqAppend, SeqFacts
<1>10. IsSeq(receipts) /\ \A i \in DOMAIN receipts :
         \E j \in DOMAIN longer : receipts[i] = longer[j]
  <2>1. IsSeq(longer) /\ receipts = LastOf(longer, MaxReceipts) /\ MaxReceipts \in Nat \ {0}
    BY <1>4, <1>8, <1>9
  <2>2. QED
    BY ONLY <2>1, SeqLast
<1>11. \A i \in DOMAIN receipts : /\ receipts[i].operationId \in v.applied
                                   /\ receipts[i].result.kind = "committed"
  BY <1>2, <1>7, <1>9, <1>10 DEF IsState, Committed
<1>12. QED
  BY <1>7, <1>10, <1>11 DEF IsState

LEMMA RepairedIs ==
  ASSUME NEW s, IsState(s)
  PROVE  /\ IsState(Repaired(s)) /\ Repaired(s).revision = s.revision + 1
         /\ Repaired(s).parser = Lenient /\ Repaired(s).applied = s.applied
<1>1. PICK lists, quarantined : Repaired(s) =
        [s EXCEPT !.revision = @ + 1, !.parser = Lenient, !.playlists = lists,
                  !.quarantined = quarantined]
  BY DEF Repaired
<1>2. /\ DOMAIN Repaired(s) = StateFields /\ Repaired(s).revision = s.revision + 1
      /\ Repaired(s).parser = Lenient /\ Repaired(s).applied = s.applied
      /\ Repaired(s).receipts = s.receipts
  BY <1>1 DEF IsState, StateFields
<1>3. QED
  BY <1>2 DEF IsState, Lenient, Strict

LEMMA NewStateIs ==
  /\ IsState(NewState(legacy)) /\ NewState(legacy).revision = 0
  /\ NewState(legacy).parser = Lenient /\ NewState(legacy).applied = {}
<1>1. PICK lists, quarantined : NewState(legacy) =
        [revision |-> 0, playlists |-> lists, publications |-> {},
         pendingCreates |-> {}, preferences |-> "window", shareConsent |-> "undecided",
         receipts |-> <<>>, quarantined |-> quarantined, parser |-> Lenient,
         applied |-> {}, deleted |-> {}]
  BY DEF NewState, ImportedState
<1>2. QED
  BY <1>1, SeqEmpty DEF IsState, StateFields, Lenient, Strict

LEMMA Least ==
  ASSUME NEW T \in SUBSET Nat, T # {}
  PROVE  \E i \in T : \A j \in T : i <= j
<1> DEFINE R == OpToRel(<, Nat)
<1>1. IsWellFoundedOn(R, Nat)
  BY NatLessThanWellFounded
<1> HIDE DEF R
<1>2. PICK i \in T : \A j \in T : ~(<<j, i>> \in R)
  BY <1>1, WFMin
<1>3. \A j \in T : ~(j < i)
  BY <1>2 DEF OpToRel, R
<1>4. QED
  BY <1>2, <1>3

\* When the writer may write, and what it answers without writing.
LEMMA VerdictIs ==
  ASSUME NEW s, IsState(s), NEW command
  PROVE  /\ Verdict(s, command).kind = "write" =>
              /\ ~Stale(s, command)
              /\ ApplyStorageMutation(s, command.body).kind = "updated"
         /\ Prior(s, command) = {} /\ Stale(s, command) =>
              Verdict(s, command).kind = "revision-conflict"
         /\ Prior(s, command) = {} /\ ~Stale(s, command)
            /\ ApplyStorageMutation(s, command.body).kind # "updated" =>
              Verdict(s, command).kind = "mutation-rejected"
         /\ Prior(s, command) = {} /\ ~Stale(s, command)
            /\ ApplyStorageMutation(s, command.body).kind = "updated" =>
              Verdict(s, command).kind = "write"
         /\ command.operationId \notin s.applied => Prior(s, command) = {}
<1>1. CASE Prior(s, command) = {}
  BY <1>1 DEF Verdict
<1>2. CASE Prior(s, command) # {}
  <2>1. Prior(s, command) \in SUBSET Nat /\ Prior(s, command) \subseteq DOMAIN s.receipts
    BY SeqFacts DEF Prior, IsState
  <2>2. PICK i : /\ i = (CHOOSE k \in Prior(s, command) : \A j \in Prior(s, command) : k <= j)
                 /\ i \in Prior(s, command)
    BY <1>2, <2>1, Least
  <2>3. /\ s.receipts[i].result.kind = "committed"
        /\ s.receipts[i].operationId = command.operationId
        /\ s.receipts[i].operationId \in s.applied
    BY <2>1, <2>2 DEF Prior, IsState
  <2>4. Verdict(s, command) =
          IF s.receipts[i].requestHash = RequestHash(command) THEN s.receipts[i].result
          ELSE [kind |-> "operation-conflict", operationId |-> command.operationId]
    BY <1>2, <2>2 DEF Verdict
  <2>5. Verdict(s, command).kind # "write"
    BY <2>3, <2>4
  <2>6. QED
    BY <1>2, <2>3, <2>5
<1>3. QED
  BY <1>1, <1>2

\* The worker may not have been told yet what storage already holds.
LEMMA BaseBehind ==
  ASSUME NullsAreNoStates, ShapeInv, MemInv, Parsed(Base)
  PROVE  /\ IsState(Base) /\ Parsed(disk) /\ IsState(disk)
         /\ Base.revision <= disk.revision /\ Base.applied \subseteq disk.applied
         /\ Base.parser = disk.parser
<1>1. CASE writer.at # "writing"
  <2>1. Base = disk /\ IsState(disk)
    BY <1>1 DEF Base, ShapeInv
  <2>2. QED
    BY <2>1 DEF IsState
<1>2. CASE writer.at = "writing"
  <2>1. Base = writer.current /\ Base = mem /\ IsState(mem)
    BY <1>2 DEF Base, MemInv
  <2>2. CASE disk = writer.current
    <3>1. mem.revision \in Nat
      BY <2>1 DEF IsState
    <3>2. disk = mem /\ Base = mem
      BY <1>2, <2>1, <2>2
    <3>3. QED
      BY ONLY <2>1, <3>1, <3>2, Parsed(Base)
  <2>3. CASE disk = writer.candidate
    <3>1. /\ IsState(disk) /\ disk.revision = mem.revision + 1 /\ disk.parser = mem.parser
          /\ disk.applied = mem.applied \cup {writer.command.operationId}
      BY <1>2, <2>1, <2>3, VerdictIs, CandidateIs DEF MemInv
    <3>2. QED
      BY <2>1, <3>1, StateIsParsed DEF IsState
  <2>4. QED
    BY <1>2, <2>2, <2>3 DEF MemInv
<1>3. QED
  BY <1>1, <1>2

(***************************************************************************)
(* Steps of a page.                                                        *)
(***************************************************************************)

pipe == <<disk, legacy, mem, io, answers, load, writer>>

\* While storage, memory, loads and writer stay, so does what is said of them.
LEMMA PipeStays ==
  ASSUME FlightInv, WriteInv, LoadInv, MemInv, UNCHANGED pipe,
         \A c \in Clients : load[c].at # "no" => client'[c].at = "reading"
  PROVE  FlightInv' /\ WriteInv' /\ LoadInv' /\ MemInv'
<1>1. /\ disk' = disk /\ legacy' = legacy /\ mem' = mem /\ io' = io /\ answers' = answers
      /\ load' = load /\ writer' = writer
  BY DEF pipe
<1>2. FlightInv'
  <2>1. \A state : Repaired(state)' = Repaired(state)
    BY <1>1 DEF Repaired
  <2>2. /\ \A p \in Processes : \A r : Asked(p, r)' <=> Asked(p, r)
        /\ \A p \in Processes : \A a, i : Told(p, a, i)' <=> Told(p, a, i)
        /\ \A i : OrphanAt(i)' <=> OrphanAt(i)
    BY <1>1, <2>1 DEF Asked, Told, OrphanAt, Base, StateSet
  <2>3. QED
    BY <1>1, <2>2 DEF FlightInv
<1>3. WriteInv'
  BY <1>1 DEF WriteInv, StateSet, Follows
<1>4. LoadInv'
  BY <1>1 DEF LoadInv, Base, Old, Exclusive
<1>5. MemInv'
  <2>1. Base' = Base
    BY <1>1 DEF Base
  <2>2. \A state, command : Verdict(state, command)' = Verdict(state, command)
    BY DEF Verdict
  <2>3. QED
    BY <1>1, <2>1, <2>2 DEF MemInv
<1>6. QED
  BY <1>2, <1>3, <1>4, <1>5

\* A page that has no command on its way and sends none.
LEMMA ClientMoves ==
  ASSUME SentInv, QueueInv, LogInv, NEW c \in Clients,
         UNCHANGED <<disk, io, writer, sent, queue, log>>,
         \A d \in Clients : d # c => client'[d] = client[d],
         client[c].at \notin {"dispatched", "done"}, client'[c].at # "dispatched",
         Untouched(c)' => /\ Untouched(c)
                          /\ Heard(c, {"mutation-rejected"}) => Heard(c, {"mutation-rejected"})',
         client'[c].at = "read" => /\ Parsed(disk) /\ client'[c].read.revision \in Nat
                                   /\ client'[c].read.revision <= disk.revision,
         Heard(c, {"committed"})' => \E i \in DOMAIN log : log[i] = client'[c].reply
  PROVE  SentInv' /\ QueueInv' /\ LogInv'
<1>1. /\ disk' = disk /\ io' = io /\ writer' = writer /\ sent' = sent /\ queue' = queue
      /\ log' = log
  OBVIOUS
<1>2. \A d \in Clients : d # c => /\ Untouched(d)' <=> Untouched(d)
                                  /\ \A kinds : Heard(d, kinds)' <=> Heard(d, kinds)
  BY DEF Untouched, Heard
<1>3. \A command \in sent : command.operationId \in Clients
  BY DEF SentInv
<1>4. ASSUME NEW state, Clean(state)
      PROVE  Clean(state)'
  BY <1>1, <1>2, <1>4 DEF Clean, Saving
<1>5. \A command \in sent : /\ Untouched(command.operationId)' => Spent(command)'
                            /\ client'[command.operationId].at = "dispatched" =>
                                 \/ command.expectedRevision < disk.revision
                                 \/ \E i \in DOMAIN queue : queue[i] = command
                                 \/ writer.at # "idle" /\ writer.command = command
  BY <1>1, <1>2, <1>3 DEF SentInv, Spent
<1>6. SentInv'
  BY <1>1, <1>2, <1>4, <1>5 DEF SentInv, StateSet
<1>7. QueueInv'
  <2>1. \A i \in DOMAIN queue : queue[i].operationId \in Clients /\ queue[i].operationId # c
    BY <1>3 DEF QueueInv
  <2>2. writer.at # "idle" =>
          writer.command.operationId \in Clients /\ writer.command.operationId # c
    BY <1>3 DEF QueueInv
  <2>3. Saving' => ~Untouched(writer.command.operationId)'
    <3>1. PICK op : op = writer.command.operationId
      OBVIOUS
    <3>2. ASSUME Saving
          PROVE  op \in Clients /\ ~Untouched(op) /\ op # c
      BY <2>2, <3>1, <3>2 DEF QueueInv, Saving
    <3>3. Untouched(writer.command.operationId)' <=> Untouched(op)'
      BY <1>1, <3>1 DEF Untouched, Heard
    <3>4. Saving' <=> Saving
      BY <1>1 DEF Saving
    <3>5. QED
      BY <1>2, <3>2, <3>3, <3>4
  <2>4. QED
    BY <1>1, <1>2, <2>1, <2>2, <2>3 DEF QueueInv
<1>8. LogInv'
  <2>1. \A d \in Clients : Heard(d, {"committed"})' => \E i \in DOMAIN log : log[i] = client'[d].reply
    BY <1>2 DEF LogInv
  <2>2. QED
    BY <1>1, <2>1 DEF LogInv, Base, AppliedOnce, WriterReply
<1>9. QED
  BY <1>6, <1>7, <1>8

LEMMA BeginReadKeeps ==
  ASSUME RepositoryInv, NEW c \in Clients, BeginRead(c)
  PROVE  RepositoryInv'
<1> USE DEF RepositoryInv
<1>1. /\ client' = [client EXCEPT ![c].at = "reading", ![c].attempt = @ + 1]
      /\ UNCHANGED <<pipe, pointer, queue, sent, log>>
      /\ DOMAIN client = Clients /\ DOMAIN client[c] = {"at", "attempt", "read", "reply"}
  BY DEF BeginRead, pipe, storage, ShapeInv
<1>2. /\ client'[c].at = "reading" /\ DOMAIN client'[c] = {"at", "attempt", "read", "reply"}
      /\ DOMAIN client' = Clients /\ \A d \in Clients : d # c => client'[d] = client[d]
  BY <1>1
<1>3. /\ client[c].at \in {"idle", "answered"}
      /\ Untouched(c) /\ ~Heard(c, {"mutation-rejected"})
      /\ ~Heard(c, {"committed"})'
  BY <1>2 DEF BeginRead, Untouched, Heard
<1>4. ShapeInv'
  BY <1>1, <1>2 DEF ShapeInv, pipe
<1>5. FlightInv' /\ WriteInv' /\ LoadInv' /\ MemInv'
  BY <1>1, <1>2, PipeStays DEF LoadInv, Processes
<1>6. SentInv' /\ QueueInv' /\ LogInv'
  BY <1>1, <1>2, <1>3, ClientMoves DEF pipe
<1>7. QED
  BY <1>4, <1>5, <1>6

LEMMA ReadFromMemoryKeeps ==
  ASSUME NullsAreNoStates, RepositoryInv, NEW c \in Clients, ReadFromMemory(c)
  PROVE  RepositoryInv'
<1> USE DEF RepositoryInv
<1>1. /\ client' = [client EXCEPT ![c].at = "read", ![c].read = mem]
      /\ UNCHANGED <<pipe, pointer, queue, sent, log>>
      /\ client[c].at = "reading" /\ load[c] = NotLoading
      /\ DOMAIN client = Clients /\ DOMAIN client[c] = {"at", "attempt", "read", "reply"}
  BY DEF ReadFromMemory, pipe, storage, ShapeInv
<1>2. /\ client'[c].at = "read" /\ DOMAIN client'[c] = {"at", "attempt", "read", "reply"}
      /\ client'[c].read = mem
      /\ DOMAIN client' = Clients /\ \A d \in Clients : d # c => client'[d] = client[d]
  BY <1>1
<1>3. /\ Untouched(c) /\ ~Heard(c, {"mutation-rejected"}) /\ ~Heard(c, {"committed"})'
  BY <1>1, <1>2 DEF Untouched, Heard
<1>4. Parsed(disk) /\ mem.revision \in Nat /\ mem.revision <= disk.revision
  BY BaseBehind DEF ReadFromMemory, MemInv, IsState
<1>5. ShapeInv'
  BY <1>1, <1>2 DEF ShapeInv, pipe
<1>6. FlightInv' /\ WriteInv' /\ LoadInv' /\ MemInv'
  BY <1>1, <1>2, PipeStays DEF LoadInv, Processes, NotLoading
<1>7. SentInv' /\ QueueInv' /\ LogInv'
  BY <1>1, <1>2, <1>3, <1>4, ClientMoves DEF pipe
<1>8. QED
  BY <1>5, <1>6, <1>7

LEMMA ReturnKeeps ==
  ASSUME RepositoryInv, NEW c \in Clients, Return(c)
  PROVE  RepositoryInv'
<1> USE DEF RepositoryInv
<1>1. /\ client' = [client EXCEPT ![c].at = "done", ![c].reply = client[c].reply,
                                  ![c].read = Absent]
      /\ UNCHANGED <<pipe, pointer, queue, sent, log>> /\ client[c].at = "answered"
      /\ DOMAIN client = Clients /\ DOMAIN client[c] = {"at", "attempt", "read", "reply"}
  BY DEF Return, Finished, pipe, storage, ShapeInv
<1>2. /\ client'[c].at = "done" /\ DOMAIN client'[c] = {"at", "attempt", "read", "reply"}
      /\ client'[c].reply = client[c].reply
      /\ DOMAIN client' = Clients /\ \A d \in Clients : d # c => client'[d] = client[d]
  BY <1>1
<1>3. /\ Untouched(c)' => Untouched(c)
      /\ Heard(c, {"mutation-rejected"}) => Heard(c, {"mutation-rejected"})'
      /\ Heard(c, {"committed"})' => Heard(c, {"committed"})
  BY <1>1, <1>2 DEF Untouched, Heard
<1>4. ShapeInv'
  BY <1>1, <1>2 DEF ShapeInv, pipe
<1>5. FlightInv' /\ WriteInv' /\ LoadInv' /\ MemInv'
  BY <1>1, <1>2, PipeStays DEF LoadInv, Processes
<1>6. Heard(c, {"committed"})' => \E i \in DOMAIN log : log[i] = client'[c].reply
  BY <1>2, <1>3 DEF LogInv
<1>7. SentInv' /\ QueueInv' /\ LogInv'
  BY <1>1, <1>2, <1>3, <1>6, ClientMoves DEF pipe
<1>8. QED
  BY <1>4, <1>5, <1>7

(***************************************************************************)
(* Steps of the writer that send nothing to storage.                       *)
(***************************************************************************)

\* A load that ended is forgotten, and the writer goes from one command to another
\* or on with the state in memory.
LEMMA NothingSent ==
  ASSUME ShapeInv, FlightInv, WriteInv, LoadInv, MemInv,
         UNCHANGED <<disk, legacy, mem, io, answers>>, DOMAIN load' = Processes,
         \A p \in Processes :
           load'[p] = load[p] \/ (load[p].at \in {"done", "threw"} /\ load'[p] = NotLoading),
         \/ writer' = writer
         \/ /\ writer.at \in {"idle", "starting", "hashing"}
            /\ writer'.at \in {"idle", "starting", "hashing"}
            /\ writer'.at = "hashing" => mem # Absent /\ writer'.current = mem,
         load'[Writer].at # "no" => writer'.at = "starting",
         \A c \in Clients : load'[c].at # "no" => client'[c].at = "reading"
  PROVE  FlightInv' /\ WriteInv' /\ LoadInv' /\ MemInv' /\ Base' = Base
<1>1. /\ disk' = disk /\ legacy' = legacy /\ mem' = mem /\ io' = io /\ answers' = answers
      /\ NotLoading.at = "no"
  BY DEF NotLoading
<1>2. /\ writer'.at = "writing" <=> writer.at = "writing"
      /\ writer.at \in {"writing", "reconciling", "clearing"} => writer' = writer
      /\ writer'.at \in {"writing", "reconciling", "clearing"} => writer' = writer
  OBVIOUS
<1>3. Base' = Base
  BY <1>1, <1>2 DEF Base
<1>4. \A p \in Processes : /\ load[p].at \in LoadStages \cup {"no"} => load'[p] = load[p]
                           /\ load'[p].at # "no" => load'[p] = load[p]
  BY <1>1 DEF LoadStages
<1>5. FlightInv'
  <2>1. \A state : Repaired(state)' = Repaired(state)
    BY <1>1 DEF Repaired
  <2>2. \A p \in Processes : \A r : Asked(p, r) => Asked(p, r)'
    BY <1>1, <1>2, <1>4, <2>1 DEF Asked, StateSet, LoadStages
  <2>3. \A p \in Processes : \A a, i : Told(p, a, i) => Told(p, a, i)'
    BY <1>1, <1>2, <1>3, <1>4, <2>1 DEF Told, LoadStages
  <2>4. \A i : OrphanAt(i) => OrphanAt(i)'
    BY <1>1, <1>2 DEF OrphanAt
  <2>5. QED
    BY <1>1, <2>2, <2>3, <2>4 DEF FlightInv
<1>6. WriteInv'
  BY <1>1 DEF WriteInv, StateSet, Follows
<1>7. LoadInv'
  <2>1. \A p \in Processes : Exclusive(p) => Exclusive(p)'
    BY <1>1 DEF Exclusive
  <2>2. Writer \in Processes /\ Clients \subseteq Processes
    BY DEF Processes
  <2>3. QED
    BY <1>1, <1>3, <1>4, <2>1, <2>2 DEF LoadInv, Old, LoadStages
<1>8. MemInv'
  <2>1. \A state, command : Verdict(state, command)' = Verdict(state, command)
    BY DEF Verdict
  <2>2. QED
    BY <1>1, <1>2, <1>3, <2>1 DEF MemInv
<1>9. QED
  BY <1>3, <1>5, <1>6, <1>7, <1>8

LEMMA ReadLoadedKeeps ==
  ASSUME NullsAreNoStates, RepositoryInv, NEW c \in Clients, ReadLoaded(c)
  PROVE  RepositoryInv'
<1> USE DEF RepositoryInv
<1>1. /\ load[c].at \in {"done", "threw"} /\ load' = [load EXCEPT ![c] = NotLoading]
      /\ client' = IF load[c].at = "done"
                   THEN [client EXCEPT ![c].at = "read", ![c].read = load[c].state]
                   ELSE [client EXCEPT ![c].at = "done", ![c].reply = [kind |-> "threw"],
                                       ![c].read = Absent]
      /\ UNCHANGED <<storage, mem, io, answers, writer, queue, sent, log>>
      /\ DOMAIN client = Clients /\ DOMAIN client[c] = {"at", "attempt", "read", "reply"}
      /\ DOMAIN load = Processes /\ c \in Processes /\ c # Writer
  BY RepositoryAssumption DEF ReadLoaded, Finished, ShapeInv, Processes, Writer
<1>2. /\ DOMAIN client'[c] = {"at", "attempt", "read", "reply"}
      /\ DOMAIN client' = Clients /\ \A d \in Clients : d # c => client'[d] = client[d]
      /\ load[c].at = "done" => client'[c].at = "read" /\ client'[c].read = load[c].state
      /\ load[c].at # "done" => client'[c].at = "done" /\ client'[c].reply = [kind |-> "threw"]
  BY <1>1
<1>3. /\ DOMAIN load' = Processes /\ load'[c] = NotLoading
      /\ \A p \in Processes : p # c => load'[p] = load[p]
  BY <1>1
<1>4. client[c].at = "reading"
  BY <1>1 DEF LoadInv
<1>5. /\ Untouched(c) /\ ~Heard(c, {"mutation-rejected"}) /\ ~Heard(c, {"committed"})'
      /\ Untouched(c)' => client'[c].at = "read"
  BY <1>2, <1>4 DEF Untouched, Heard
<1>6. load[c].at = "done" => /\ Parsed(disk) /\ load[c].state.revision \in Nat
                             /\ load[c].state.revision <= disk.revision
  <2>1. load[c].at = "done" => /\ Parsed(Base) /\ load[c].state.revision \in Nat
                               /\ load[c].state.revision <= Base.revision
    BY <1>1 DEF LoadInv
  <2>2. Parsed(Base) => /\ Parsed(disk) /\ Base.revision <= disk.revision
                        /\ Base.revision \in Nat /\ disk.revision \in Nat
    BY BaseBehind DEF IsState
  <2>3. QED
    BY <2>1, <2>2
<1>7. ShapeInv'
  <2>1. DOMAIN NotLoading = {"at", "state"} /\ NotLoading.at = "no"
    BY DEF NotLoading
  <2>2. QED
    BY <1>1, <1>2, <1>3, <2>1 DEF ShapeInv, storage
<1>8. FlightInv' /\ WriteInv' /\ LoadInv' /\ MemInv'
  <2>1. \A d \in Clients : load'[d].at # "no" => client'[d].at = "reading"
    BY <1>2, <1>3 DEF LoadInv, NotLoading, Processes
  <2>2. load'[Writer].at # "no" => writer'.at = "starting"
    BY <1>1, <1>3 DEF LoadInv, Processes
  <2>3. \A p \in Processes :
          load'[p] = load[p] \/ (load[p].at \in {"done", "threw"} /\ load'[p] = NotLoading)
    BY <1>1, <1>3
  <2>4. UNCHANGED <<disk, legacy, mem, io, answers, writer>>
    BY <1>1 DEF storage
  <2>5. QED
    BY <1>3, <2>1, <2>2, <2>3, <2>4, NothingSent
<1>9. SentInv' /\ QueueInv' /\ LogInv'
  BY <1>1, <1>2, <1>4, <1>5, <1>6, ClientMoves DEF storage
<1>10. QED
  BY <1>7, <1>8, <1>9

LEMMA TakeCommandKeeps ==
  ASSUME RepositoryInv, TakeCommand
  PROVE  RepositoryInv'
<1> USE DEF RepositoryInv
<1>1. /\ writer.at = "idle" /\ queue # <<>> /\ queue' = Tail(queue)
      /\ writer' = [writer EXCEPT !.at = "starting", !.command = Head(queue)]
      /\ UNCHANGED <<disk, legacy, mem, io, answers, load, client, sent, log>>
      /\ DOMAIN writer = {"at", "command", "current", "candidate"}
  BY DEF TakeCommand, ShapeInv, storage
<1>2. /\ writer'.at = "starting" /\ writer'.command = Head(queue)
      /\ DOMAIN writer' = {"at", "command", "current", "candidate"}
  BY <1>1
<1>3. /\ IsSeq(queue') /\ Head(queue) = queue[1] /\ 1 \in DOMAIN queue
      /\ DOMAIN queue = 1 .. Len(queue) /\ Len(queue) \in Nat
      /\ DOMAIN queue' = 1 .. Len(queue) - 1
      /\ \A i \in DOMAIN queue' : queue'[i] = queue[i + 1] /\ i + 1 \in DOMAIN queue /\ i + 1 # 1
  <2>1. IsSeq(queue)
    BY DEF ShapeInv
  <2>2. QED
    BY <1>1, <2>1, SeqFacts, SeqTail
<1>4. ShapeInv'
  BY <1>1, <1>2, <1>3 DEF ShapeInv
<1>5. FlightInv' /\ WriteInv' /\ LoadInv' /\ MemInv' /\ Base' = Base
  <2>1. DOMAIN load' = Processes /\ \A c \in Clients : load'[c].at # "no" => client'[c].at = "reading"
    BY <1>1 DEF ShapeInv, LoadInv, Processes
  <2>2. QED
    BY <1>1, <1>2, <2>1, NothingSent
<1>6. /\ \A c \in Clients : Untouched(c)' <=> Untouched(c)
      /\ \A c : \A kinds : Heard(c, kinds)' <=> Heard(c, kinds)
      /\ ~Saving /\ ~Saving'
  BY <1>1, <1>2 DEF Untouched, Heard, Saving
<1>7. SentInv'
  <2>1. ASSUME NEW state, Clean(state)
        PROVE  Clean(state)'
    BY <1>1, <1>6, <2>1 DEF Clean
  <2>2. \A command \in sent : Spent(command)' <=> Spent(command)
    BY <1>1, <1>6 DEF Spent
  <2>3. \A command : (\E i \in DOMAIN queue : queue[i] = command) =>
                       \/ command = Head(queue)
                       \/ \E i \in DOMAIN queue' : queue'[i] = command
    <3>1. \A i \in DOMAIN queue : i = 1 \/ (i - 1 \in DOMAIN queue' /\ queue'[i - 1] = queue[i])
      BY <1>3
    <3>2. QED
      BY <1>3, <3>1
  <2>4. QED
    BY <1>1, <1>2, <1>6, <2>1, <2>2, <2>3 DEF SentInv, StateSet
<1>8. QueueInv'
  BY <1>1, <1>2, <1>3, <1>6 DEF QueueInv
<1>9. LogInv'
  BY <1>1, <1>2, <1>5, <1>6 DEF LogInv, AppliedOnce
<1>10. QED
  BY <1>4, <1>5, <1>7, <1>8, <1>9

LEMMA WriterHasStateKeeps ==
  ASSUME RepositoryInv, WriterHasState
  PROVE  RepositoryInv'
<1> USE DEF RepositoryInv
<1>1. /\ writer.at = "starting" /\ mem # Absent /\ load[Writer] = NotLoading
      /\ writer' = [writer EXCEPT !.at = "hashing", !.current = mem]
      /\ UNCHANGED <<disk, legacy, mem, io, answers, load, client, sent, log, queue>>
      /\ DOMAIN writer = {"at", "command", "current", "candidate"}
  BY DEF WriterHasState, ShapeInv, storage
<1>2. /\ writer'.at = "hashing" /\ writer'.command = writer.command /\ writer'.current = mem
      /\ DOMAIN writer' = {"at", "command", "current", "candidate"}
  BY <1>1
<1>3. ShapeInv'
  BY <1>1, <1>2 DEF ShapeInv
<1>4. FlightInv' /\ WriteInv' /\ LoadInv' /\ MemInv' /\ Base' = Base
  <2>1. DOMAIN load' = Processes /\ \A c \in Clients : load'[c].at # "no" => client'[c].at = "reading"
    BY <1>1 DEF ShapeInv, LoadInv, Processes
  <2>2. load'[Writer].at = "no"
    BY <1>1 DEF NotLoading
  <2>3. QED
    BY <1>1, <1>2, <2>1, <2>2, NothingSent
<1>5. /\ \A c \in Clients : Untouched(c)' <=> Untouched(c)
      /\ \A c : \A kinds : Heard(c, kinds)' <=> Heard(c, kinds)
      /\ ~Saving /\ ~Saving'
  BY <1>1, <1>2 DEF Untouched, Heard, Saving
<1>6. SentInv'
  <2>1. ASSUME NEW state, Clean(state)
        PROVE  Clean(state)'
    BY <1>1, <1>5, <2>1 DEF Clean
  <2>2. \A command \in sent : Spent(command)' <=> Spent(command)
    BY <1>1, <1>5 DEF Spent
  <2>3. QED
    BY <1>1, <1>2, <1>5, <2>1, <2>2 DEF SentInv, StateSet
<1>7. QueueInv'
  BY <1>1, <1>2, <1>5 DEF QueueInv
<1>8. LogInv'
  BY <1>1, <1>2, <1>4, <1>5 DEF LogInv, AppliedOnce
<1>9. QED
  BY <1>3, <1>4, <1>6, <1>7, <1>8

\* The command that was handled is answered, to a page that still waits for it.
LEMMA AnswerMoves ==
  ASSUME ShapeInv, SentInv, QueueInv, UNCHANGED <<disk, io, sent, queue>>,
         writer.at # "idle", writer'.at = "idle",
         NEW command, command = writer.command, NEW reply, Answer(command, reply),
         client[command.operationId].at = "dispatched"
           /\ reply.kind \in {"revision-conflict", "mutation-rejected", "no-change"} =>
             /\ ~Saving
             /\ \/ command.expectedRevision < disk.revision
                \/ /\ reply.kind = "mutation-rejected"
                   /\ command.expectedRevision = disk.revision
                   /\ ApplyStorageMutation(disk, command.body).kind # "updated"
  PROVE  /\ SentInv' /\ QueueInv'
         /\ DOMAIN client' = Clients
         /\ \A c \in Clients : /\ DOMAIN client'[c] = {"at", "attempt", "read", "reply"}
                               /\ client'[c].at \in {"idle", "reading", "read", "dispatched",
                                                     "answered", "done"}
                               /\ client[c].at = "reading" => client'[c] = client[c]
                               /\ \/ client'[c] = client[c]
                                  \/ client'[c].at = "answered" /\ client'[c].reply = reply
<1>1. PICK op : op = command.operationId
  OBVIOUS
<1>2. op \in Clients /\ command \in sent /\ client[op].at \in {"dispatched", "done"}
  BY <1>1 DEF QueueInv, SentInv
<1>3. CASE client[op].at # "dispatched"
  <2>1. client' = client /\ client[op].at = "done"
    BY <1>1, <1>2, <1>3 DEF Answer
  <2>2. /\ \A c : Untouched(c)' <=> Untouched(c)
        /\ \A c : \A kinds : Heard(c, kinds)' <=> Heard(c, kinds)
        /\ ~Saving'
    BY <2>1 DEF Untouched, Heard, Saving
  <2>3. ASSUME NEW state, Clean(state)
        PROVE  Clean(state)'
    BY <1>1, <2>1, <2>2, <2>3 DEF Clean
  <2>4. \A c \in sent : Spent(c)' <=> Spent(c)
    BY <2>2 DEF Spent
  <2>5. SentInv'
    BY <1>1, <1>3, <2>1, <2>2, <2>3, <2>4 DEF SentInv, StateSet
  <2>6. QueueInv'
    BY <2>1, <2>2 DEF QueueInv
  <2>7. QED
    BY <2>1, <2>5, <2>6 DEF ShapeInv
<1>4. CASE client[op].at = "dispatched"
  <2>1. /\ client' = [client EXCEPT ![op].at = "answered", ![op].reply = reply]
        /\ DOMAIN client = Clients /\ DOMAIN client[op] = {"at", "attempt", "read", "reply"}
    BY <1>1, <1>2, <1>4 DEF Answer, ShapeInv
  <2>2. /\ client'[op].at = "answered" /\ client'[op].reply = reply
        /\ DOMAIN client'[op] = {"at", "attempt", "read", "reply"}
        /\ DOMAIN client' = Clients /\ \A c \in Clients : c # op => client'[c] = client[c]
    BY <1>2, <2>1
  <2>3. /\ \A c \in Clients : c # op => Untouched(c)' <=> Untouched(c)
        /\ \A c \in Clients : c # op => \A kinds : Heard(c, kinds)' <=> Heard(c, kinds)
        /\ Untouched(op)' =>
             reply.kind \in {"revision-conflict", "mutation-rejected", "no-change"}
        /\ ~Saving'
    BY <2>2 DEF Untouched, Heard, Saving
  <2>4. ASSUME NEW state, Clean(state)
        PROVE  Clean(state)'
    <3>1. \A c \in sent : c.operationId \in state.applied => c.expectedRevision < state.revision
      BY <2>4 DEF Clean
    <3>2. ASSUME NEW c \in Clients, Untouched(c)' \/ client'[c].at = "dispatched"
          PROVE  c \notin state.applied
      <4>1. CASE c = op
        BY <1>1, <1>4, <2>2, <2>3, <2>4, <3>2, <4>1 DEF Clean
      <4>2. CASE c # op
        BY <1>1, <2>2, <2>3, <2>4, <3>2, <4>2 DEF Clean
      <4>3. QED
        BY <4>1, <4>2
    <3>3. QED
      BY <3>1, <3>2 DEF Clean
  <2>5. \A c \in sent : c.operationId = op =>
          c.expectedRevision < disk.revision \/ c = command
    BY <1>1, <1>4 DEF SentInv, QueueInv
  <2>6. ASSUME NEW c \in sent, Untouched(c.operationId)'
        PROVE  Spent(c)'
    <3>1. c.operationId \in Clients
      BY DEF SentInv
    <3>2. CASE c.operationId = op
      <4>1. Untouched(op)'
        BY <2>6, <3>2 DEF Untouched, Heard
      <4>2. Heard(c.operationId, {"mutation-rejected"})' <=> reply.kind = "mutation-rejected"
        BY <2>2, <3>2 DEF Heard
      <4>3. \/ c.expectedRevision < disk.revision
            \/ /\ reply.kind = "mutation-rejected" /\ c.expectedRevision = disk.revision
               /\ ApplyStorageMutation(disk, c.body).kind # "updated"
        BY <1>1, <1>4, <2>3, <2>5, <3>2, <4>1
      <4>4. QED
        BY <4>2, <4>3 DEF Spent
    <3>3. CASE c.operationId # op
      <4>1. Untouched(c.operationId)
        BY <2>3, <2>6, <3>1, <3>3
      <4>2. Spent(c)
        BY <4>1 DEF SentInv
      <4>3. QED
        BY <2>3, <3>1, <3>3, <4>2 DEF Spent
    <3>4. QED
      BY <3>2, <3>3
  <2>7. ASSUME NEW c \in sent, client'[c.operationId].at = "dispatched"
        PROVE  \/ c.expectedRevision < disk.revision
               \/ \E i \in DOMAIN queue : queue[i] = c
    <3>1. c.operationId \in Clients /\ c.operationId # op
      BY <2>2, <2>7 DEF SentInv
    <3>2. client[c.operationId].at = "dispatched" /\ c # command
      BY <1>1, <2>2, <2>7, <3>1
    <3>3. QED
      BY <3>2 DEF SentInv
  <2>8. SentInv'
    <3>1. \A c \in Clients : client'[c].at = "read" => client[c].at = "read" /\ client'[c] = client[c]
      BY <2>2
    <3>2. QED
      BY <2>4, <2>6, <2>7, <3>1 DEF SentInv, StateSet
  <2>9. QueueInv'
    <3>1. \A i \in DOMAIN queue : queue[i].operationId \in Clients /\ queue[i].operationId # op
      BY <1>1, <1>4 DEF QueueInv, SentInv
    <3>2. QED
      BY <2>2, <2>3, <3>1 DEF QueueInv
  <2>10. \A c \in Clients : /\ DOMAIN client'[c] = {"at", "attempt", "read", "reply"}
                            /\ client'[c].at \in {"idle", "reading", "read", "dispatched",
                                                  "answered", "done"}
    BY <2>2 DEF ShapeInv
  <2>11. QED
    BY <1>4, <2>2, <2>8, <2>9, <2>10
<1>5. QED
  BY <1>3, <1>4

LEMMA WriterLoadedKeeps ==
  ASSUME RepositoryInv, WriterLoaded
  PROVE  RepositoryInv'
<1> USE DEF RepositoryInv
<1>1. /\ load[Writer].at \in {"done", "threw"} /\ load' = [load EXCEPT ![Writer] = NotLoading]
      /\ UNCHANGED <<disk, legacy, mem, io, answers, queue, sent, log>>
      /\ DOMAIN load = Processes /\ Writer \in Processes
      /\ writer.at = "starting" /\ DOMAIN writer = {"at", "command", "current", "candidate"}
  BY DEF WriterLoaded, ShapeInv, storage, Processes, LoadInv
<1>2. /\ DOMAIN load' = Processes /\ load'[Writer] = NotLoading
      /\ \A p \in Processes : p # Writer => load'[p] = load[p]
      /\ NotLoading.at = "no" /\ DOMAIN NotLoading = {"at", "state"}
  BY <1>1 DEF NotLoading
<1>3. \A p \in Processes :
        load'[p] = load[p] \/ (load[p].at \in {"done", "threw"} /\ load'[p] = NotLoading)
  BY <1>1, <1>2
<1>4. \A c \in Clients : c \in Processes /\ c # Writer
  BY RepositoryAssumption DEF Processes, Writer
<1>5. CASE load[Writer].at = "done"
  <2>1. /\ writer' = [writer EXCEPT !.at = "hashing", !.current = load[Writer].state]
        /\ client' = client /\ mem # Absent /\ load[Writer].state = mem
    BY <1>1, <1>5 DEF WriterLoaded, LoadInv
  <2>2. /\ writer'.at = "hashing" /\ writer'.command = writer.command /\ writer'.current = mem
        /\ DOMAIN writer' = {"at", "command", "current", "candidate"}
    BY <1>1, <2>1
  <2>3. ShapeInv'
    BY <1>1, <1>2, <2>1, <2>2 DEF ShapeInv
  <2>4. FlightInv' /\ WriteInv' /\ LoadInv' /\ MemInv' /\ Base' = Base
    <3>1. \A c \in Clients : load'[c].at # "no" => client'[c].at = "reading"
      BY <1>2, <1>4, <2>1 DEF LoadInv
    <3>2. load'[Writer].at = "no"
      BY <1>2
    <3>3. QED
      BY <1>1, <1>2, <1>3, <2>1, <2>2, <3>1, <3>2, NothingSent
  <2>5. /\ \A c \in Clients : Untouched(c)' <=> Untouched(c)
        /\ \A c : \A kinds : Heard(c, kinds)' <=> Heard(c, kinds)
        /\ ~Saving /\ ~Saving'
    BY <1>1, <2>1, <2>2 DEF Untouched, Heard, Saving
  <2>6. SentInv'
    <3>1. ASSUME NEW state, Clean(state)
          PROVE  Clean(state)'
      BY <1>1, <2>1, <2>5, <3>1 DEF Clean
    <3>2. \A command \in sent : Spent(command)' <=> Spent(command)
      BY <1>1, <2>5 DEF Spent
    <3>3. QED
      BY <1>1, <2>1, <2>2, <2>5, <3>1, <3>2 DEF SentInv, StateSet
  <2>7. QueueInv'
    BY <1>1, <2>1, <2>2, <2>5 DEF QueueInv
  <2>8. LogInv'
    BY <1>1, <2>1, <2>2, <2>4, <2>5 DEF LogInv, AppliedOnce
  <2>9. QED
    BY <2>3, <2>4, <2>6, <2>7, <2>8
<1>6. CASE load[Writer].at # "done"
  <2>1. PICK command, reply : command = writer.command /\ reply = [kind |-> "threw"]
    OBVIOUS
  <2>2. /\ writer' = Idle /\ Answer(command, reply) /\ reply.kind = "threw"
        /\ writer'.at = "idle" /\ DOMAIN Idle = {"at", "command", "current", "candidate"}
    BY <1>6, <2>1 DEF WriterLoaded, Idle
  <2>3. /\ SentInv' /\ QueueInv'
        /\ DOMAIN client' = Clients
        /\ \A c \in Clients : /\ DOMAIN client'[c] = {"at", "attempt", "read", "reply"}
                              /\ client'[c].at \in {"idle", "reading", "read", "dispatched",
                                                    "answered", "done"}
                              /\ client[c].at = "reading" => client'[c] = client[c]
                              /\ \/ client'[c] = client[c]
                                 \/ client'[c].at = "answered" /\ client'[c].reply = reply
    <3>1. reply.kind \notin {"revision-conflict", "mutation-rejected", "no-change"}
      BY <2>2
    <3>2. UNCHANGED <<disk, io, sent, queue>> /\ writer.at # "idle"
      BY <1>1
    <3>3. QED
      BY <2>1, <2>2, <3>1, <3>2, AnswerMoves
  <2>4. ShapeInv'
    BY <1>1, <1>2, <2>2, <2>3 DEF ShapeInv
  <2>5. FlightInv' /\ WriteInv' /\ LoadInv' /\ MemInv' /\ Base' = Base
    <3>1. \A c \in Clients : load'[c].at # "no" => client'[c].at = "reading"
      BY <1>2, <1>4, <2>3 DEF LoadInv
    <3>2. load'[Writer].at = "no"
      BY <1>2
    <3>3. QED
      BY <1>1, <1>2, <1>3, <2>2, <3>1, <3>2, NothingSent
  <2>6. LogInv'
    <3>1. \A c \in Clients : Heard(c, {"committed"})' => Heard(c, {"committed"}) /\ client'[c] = client[c]
      BY <2>2, <2>3 DEF Heard
    <3>2. QED
      BY <1>1, <2>2, <2>5, <3>1 DEF LogInv, AppliedOnce
  <2>7. QED
    BY <2>3, <2>4, <2>5, <2>6
<1>7. QED
  BY <1>5, <1>6

\* While the worker has its state, nothing but the writer's candidate is on the way.
LEMMA NoWritePending ==
  ASSUME FlightInv, LoadInv, mem # Absent, writer.at # "writing"
  PROVE  \A i \in DOMAIN io : ~StateSet(io[i])
<1> SUFFICES ASSUME NEW i \in DOMAIN io, StateSet(io[i])
             PROVE  FALSE
  OBVIOUS
<1>1. io[i].who \in Processes /\ Asked(io[i].who, io[i])
  BY DEF FlightInv, OrphanAt
<1>2. load[io[i].who].at \in {"repaired", "migrated"}
  BY <1>1 DEF Asked, StateSet
<1>3. QED
  BY <1>1, <1>2 DEF LoadInv

\* What a command is judged by is what is stored, and a command of a page that
\* waits for its reply was not applied.
LEMMA Judged ==
  ASSUME NullsAreNoStates, RepositoryInv, writer.at = "hashing"
  PROVE  /\ mem # Absent /\ Base = disk /\ writer.current = disk /\ mem = disk
         /\ IsState(disk) /\ Parsed(disk)
         /\ writer.command \in sent /\ writer.command.operationId \in Clients
         /\ client[writer.command.operationId].at \in {"dispatched", "done"}
         /\ writer.command.expectedRevision \in Nat
         /\ writer.command.expectedRevision <= disk.revision
         /\ writer.command.operationId \in disk.applied =>
              writer.command.expectedRevision < disk.revision
         /\ client[writer.command.operationId].at = "dispatched" =>
              writer.command.operationId \notin disk.applied
         /\ ~Saving /\ load[Writer].at = "no"
<1> USE DEF RepositoryInv
<1>1. mem # Absent /\ Base = disk /\ writer.current = mem /\ mem = Base /\ Parsed(disk)
  BY DEF MemInv, Base
<1>2. IsState(disk)
  BY <1>1 DEF ShapeInv
<1>3. /\ writer.command \in sent
      /\ client[writer.command.operationId].at \in {"dispatched", "done"}
  BY DEF QueueInv
<1>4. /\ writer.command.operationId \in Clients /\ writer.command.expectedRevision \in Nat
      /\ writer.command.expectedRevision <= disk.revision
  BY <1>3 DEF SentInv
<1>5. Clean(disk) /\ ~Saving
  BY <1>1 DEF SentInv, Saving
<1>6. load[Writer].at = "no"
  BY DEF LoadInv, Processes
<1>7. /\ writer.command.operationId \in disk.applied =>
           writer.command.expectedRevision < disk.revision
      /\ client[writer.command.operationId].at = "dispatched" =>
           writer.command.operationId \notin disk.applied
  BY <1>3, <1>4, <1>5 DEF Clean
<1>8. QED
  BY <1>1, <1>2, <1>3, <1>4, <1>5, <1>6, <1>7

LEMMA DecideAnswersKeeps ==
  ASSUME NullsAreNoStates, RepositoryInv, Decide,
         Verdict(writer.current, writer.command).kind # "write"
  PROVE  RepositoryInv'
<1> USE DEF RepositoryInv
<1>1. PICK command, reply : command = writer.command /\ reply = Verdict(writer.current, command)
  OBVIOUS
<1>2. /\ writer.at = "hashing" /\ writer' = Idle /\ Answer(command, reply)
      /\ UNCHANGED <<disk, legacy, mem, io, answers, load, queue, sent, log>>
  BY <1>1 DEF Decide, storage
<1>3. writer'.at = "idle" /\ DOMAIN Idle = {"at", "command", "current", "candidate"}
  BY <1>2 DEF Idle
<1>4. client[command.operationId].at = "dispatched" =>
        \/ reply.kind = "revision-conflict" /\ command.expectedRevision < disk.revision
        \/ /\ reply.kind = "mutation-rejected"
           /\ command.expectedRevision = disk.revision
           /\ ApplyStorageMutation(disk, command.body).kind # "updated"
  <2>1. /\ IsState(disk) /\ writer.current = disk /\ command.expectedRevision \in Nat
        /\ command.expectedRevision <= disk.revision
        /\ client[command.operationId].at = "dispatched" => command.operationId \notin disk.applied
    BY <1>1, <1>2, Judged
  <2>2. reply = Verdict(disk, command) /\ reply.kind # "write"
    BY <1>1, <2>1
  <2>3. disk.revision \in Nat
    BY <2>1 DEF IsState
  <2>4. Stale(disk, command) <=> disk.revision # command.expectedRevision
    BY DEF Stale
  <2>5. Stale(disk, command) => command.expectedRevision < disk.revision
    BY <2>1, <2>3, <2>4
  <2>6. QED
    BY <2>1, <2>2, <2>4, <2>5, VerdictIs
<1>5. /\ SentInv' /\ QueueInv'
      /\ DOMAIN client' = Clients
      /\ \A c \in Clients : /\ DOMAIN client'[c] = {"at", "attempt", "read", "reply"}
                            /\ client'[c].at \in {"idle", "reading", "read", "dispatched",
                                                  "answered", "done"}
                            /\ client[c].at = "reading" => client'[c] = client[c]
                            /\ \/ client'[c] = client[c]
                               \/ client'[c].at = "answered" /\ client'[c].reply = reply
  <2>1. ~Saving /\ writer.at # "idle"
    BY <1>2 DEF Saving
  <2>2. QED
    BY <1>1, <1>2, <1>3, <1>4, <2>1, AnswerMoves
<1>6. ShapeInv'
  BY <1>2, <1>3, <1>5 DEF ShapeInv
<1>7. FlightInv' /\ WriteInv' /\ LoadInv' /\ MemInv' /\ Base' = Base
  <2>1. \A c \in Clients : load'[c].at # "no" => client'[c].at = "reading"
    BY <1>2, <1>5 DEF LoadInv, Processes
  <2>2. load'[Writer].at = "no" /\ DOMAIN load' = Processes
    BY <1>2, Judged DEF ShapeInv
  <2>3. QED
    BY <1>2, <1>3, <2>1, <2>2, NothingSent
<1>8. LogInv'
  <2>1. ASSUME NEW c \in Clients, Heard(c, {"committed"})'
        PROVE  \E i \in DOMAIN log : log[i] = client'[c].reply
    <3>1. CASE client'[c] = client[c]
      BY <2>1, <3>1 DEF LogInv, Heard
    <3>2. CASE client'[c] # client[c]
      <4>1. c = command.operationId /\ client[c].at = "dispatched" /\ client'[c].reply = reply
        BY <1>2, <1>5, <3>2 DEF Answer, ShapeInv
      <4>2. reply.kind # "committed"
        BY <1>4, <4>1
      <4>3. QED
        BY <2>1, <4>1, <4>2 DEF Heard
    <3>3. QED
      BY <3>1, <3>2
  <2>2. QED
    BY <1>2, <1>3, <1>7, <2>1 DEF LogInv, AppliedOnce
<1>9. QED
  BY <1>5, <1>6, <1>7, <1>8

LEMMA DecideWritesKeeps ==
  ASSUME NullsAreNoStates, RepositoryInv, Decide,
         Verdict(writer.current, writer.command).kind = "write"
  PROVE  RepositoryInv'
<1> USE DEF RepositoryInv
<1>1. PICK command, v, r :
        /\ command = writer.command
        /\ v = Candidate(writer.current, command, ApplyStorageMutation(writer.current, command.body))
        /\ r = Set(Writer, v)
  OBVIOUS
<1>2. PICK op : op = command.operationId
  OBVIOUS
<1>3. /\ writer.at = "hashing" /\ writer' = [writer EXCEPT !.at = "writing", !.candidate = v]
      /\ io' = Append(io, r)
      /\ UNCHANGED <<disk, legacy, mem, answers, load, client, queue, sent, log>>
      /\ DOMAIN writer = {"at", "command", "current", "candidate"}
  BY <1>1 DEF Decide, storage, ShapeInv
<1>4. /\ writer'.at = "writing" /\ writer'.command = command /\ writer'.candidate = v
      /\ writer'.current = writer.current
      /\ DOMAIN writer' = {"at", "command", "current", "candidate"}
      /\ DOMAIN r = {"who", "op", "key", "value"} /\ r.who = Writer /\ r.op = "set"
      /\ r.key = "state" /\ r.value = v /\ StateSet(r) /\ Writer # Absent
  BY <1>1, <1>3, RepositoryAssumption DEF Set, StateSet, Writer
<1>5. /\ mem # Absent /\ Base = disk /\ writer.current = disk /\ mem = disk
      /\ IsState(disk) /\ Parsed(disk) /\ command \in sent /\ op \in Clients
      /\ client[op].at \in {"dispatched", "done"}
      /\ command.expectedRevision \in Nat /\ command.expectedRevision <= disk.revision
      /\ op \in disk.applied => command.expectedRevision < disk.revision
      /\ ~Saving /\ load[Writer].at = "no" /\ disk.revision \in Nat
  BY <1>1, <1>2, <1>3, Judged DEF IsState
<1>6. /\ ApplyStorageMutation(disk, command.body).kind = "updated"
      /\ disk.revision = command.expectedRevision /\ op \notin disk.applied
  <2>1. ~Stale(disk, command) /\ ApplyStorageMutation(disk, command.body).kind = "updated"
    BY <1>1, <1>5, VerdictIs
  <2>2. QED
    BY <1>5, <2>1 DEF Stale
<1>7. /\ IsState(v) /\ v.revision = disk.revision + 1 /\ v.parser = disk.parser
      /\ v.applied = disk.applied \cup {op} /\ Parsed(v)
  <2>1. v = Candidate(disk, command, ApplyStorageMutation(disk, command.body))
    BY <1>1, <1>5
  <2>2. QED
    BY <1>2, <1>5, <1>6, <2>1, CandidateIs, StateIsParsed
<1>8. /\ IsSeq(io') /\ DOMAIN io = 1 .. Len(io) /\ Len(io) \in Nat /\ Len(io') = Len(io) + 1
      /\ DOMAIN io' = 1 .. Len(io) + 1 /\ io'[Len(io) + 1] = r
      /\ \A i \in DOMAIN io : io'[i] = io[i]
  BY <1>3, SeqAppend, SeqFacts DEF ShapeInv
<1>9. \A i \in DOMAIN io' : (i \in DOMAIN io /\ io'[i] = io[i]) \/ (i = Len(io) + 1 /\ io'[i] = r)
  BY <1>8
<1>10. \A i \in DOMAIN io : ~StateSet(io[i])
  BY <1>3, <1>5, NoWritePending
<1>11. Base' = Base /\ Saving'
  BY <1>3, <1>4, <1>5 DEF Base, Saving
<1>12. ShapeInv'
  BY <1>3, <1>4, <1>8, <1>9 DEF ShapeInv
<1>13. FlightInv'
  <2>1. \A state : Repaired(state)' = Repaired(state)
    BY <1>3 DEF Repaired
  <2>2. \A p \in Processes : \A x : Asked(p, x) => Asked(p, x)'
    BY <1>3, <1>4, <2>1 DEF Asked, StateSet
  <2>3. \A p \in Processes : \A a, i : Told(p, a, i) => Told(p, a, i)' /\ p # Writer
    BY <1>3, <1>5, <1>11, <2>1 DEF Told
  <2>4. \A i \in DOMAIN io : ~OrphanAt(i)
    BY <1>5 DEF OrphanAt
  <2>5. \A i \in DOMAIN io : io[i].who # Writer
    <3>1. \A x : ~Asked(Writer, x)
      BY <1>3, <1>5 DEF Asked
    <3>2. QED
      BY <2>4, <3>1, <1>4 DEF FlightInv
  <2>6. \A i \in DOMAIN answers : answers[i].who # Writer
    BY <2>3 DEF FlightInv
  <2>7. Asked(Writer, r)' /\ Writer \in Processes
    BY <1>3, <1>4, <1>5 DEF Asked, StateSet, Processes
  <2>8. \A i \in DOMAIN io : \E x : /\ x = io[i] /\ x.who \in Processes /\ x.who # Absent
                                    /\ Asked(x.who, x)'
    <3>1. \A i \in DOMAIN io : /\ io[i].who \in Processes /\ io[i].who # Absent
                               /\ Asked(io[i].who, io[i])
      BY <2>4 DEF FlightInv
    <3>2. QED
      BY <2>2, <3>1
  <2>9. PICK q : q = io'
    OBVIOUS
  <2>10. \A i \in DOMAIN q : q[i].who \in Processes /\ q[i].who # Absent /\ Asked(q[i].who, q[i])'
    <3>1. \A i \in DOMAIN q : (i \in DOMAIN io /\ q[i] = io[i]) \/ (i = Len(io) + 1 /\ q[i] = r)
      BY <1>9, <2>9
    <3>2. \A i \in DOMAIN q : \E x : /\ x = q[i] /\ x.who \in Processes /\ x.who # Absent
                                     /\ Asked(x.who, x)'
      BY <1>4, <2>7, <2>8, <3>1
    <3>3. QED
      BY <3>2
  <2>11. \A i \in DOMAIN io' : /\ io'[i].who \in Processes /\ io'[i].who # Absent
    BY <2>9, <2>10
  <2>12. (\A i \in DOMAIN io : Asked(io[i].who, io[i]))'
    BY <2>9, <2>10 DEF Asked, StateSet
  <2>13. \A i, j \in DOMAIN io' : io'[i].who = io'[j].who => i = j
    BY <1>4, <1>9, <2>5, <2>8 DEF FlightInv
  <2>14. \A i \in DOMAIN io', j \in DOMAIN answers' : io'[i].who # answers'[j].who
    BY <1>3, <1>4, <1>9, <2>6 DEF FlightInv
  <2>15. (\A i \in DOMAIN answers :
            answers[i].who \in Processes /\ Told(answers[i].who, answers[i], i))'
    <3>1. answers' = answers
      BY <1>3
    <3>2. \A i \in DOMAIN answers : \E x : /\ x = answers[i] /\ x.who \in Processes
                                           /\ Told(x.who, x, i)'
      BY <2>3 DEF FlightInv
    <3>3. QED
      BY <3>1, <3>2
  <2>16. \A i, j \in DOMAIN answers' : answers'[i].who = answers'[j].who => i = j
    BY <1>3 DEF FlightInv
  <2>17. QED
    BY <2>11, <2>12, <2>13, <2>14, <2>15, <2>16 DEF FlightInv
<1>14. WriteInv'
  <2>1. \A i \in DOMAIN io' : StateSet(io'[i]) => i = Len(io') /\ io'[i] = r
    BY <1>8, <1>9, <1>10
  <2>2. Follows(disk', v)
    BY <1>3, <1>5, <1>7 DEF Follows, Parsed, IsState, Strict, Lenient
  <2>3. \A i \in DOMAIN io' : StateSet(io'[i]) => Follows(disk', io'[i].value)
    BY <1>4, <2>1, <2>2
  <2>4. QED
    BY <2>1, <2>3 DEF WriteInv, StateSet
<1>15. LoadInv'
  BY <1>3, <1>5, <1>11 DEF LoadInv, Exclusive, Old, Processes
<1>16. MemInv'
  <2>1. Verdict(writer'.current, writer'.command).kind = "write"
    BY <1>1, <1>4
  <2>2. QED
    BY <1>1, <1>2, <1>3, <1>4, <1>5, <1>6, <1>11, <2>1 DEF MemInv
<1>17. /\ \A c \in Clients : Untouched(c)' <=> Untouched(c)
       /\ \A c : \A kinds : Heard(c, kinds)' <=> Heard(c, kinds)
  BY <1>3 DEF Untouched, Heard
<1>18. ~Untouched(op)
  <2>1. Untouched(op) => Spent(command)
    BY <1>2, <1>5 DEF SentInv
  <2>2. QED
    BY <1>5, <1>6, <2>1 DEF Spent
<1>19. SentInv'
  <2>1. Clean(disk)'
    BY <1>3, <1>4, <1>5, <1>17 DEF SentInv, Clean
  <2>2. Clean(v)'
    <3>1. Clean(disk)
      BY <1>5 DEF SentInv
    <3>2. ASSUME NEW c \in Clients,
                 \/ Untouched(c)'
                 \/ client'[c].at = "dispatched" /\ ~(Saving' /\ writer'.command.operationId = c)
          PROVE  c \notin v.applied
      <4>1. c # op
        BY <1>2, <1>4, <1>11, <1>17, <1>18, <3>2
      <4>2. c \notin disk.applied
        BY <1>3, <1>5, <1>17, <3>1, <3>2 DEF Clean
      <4>3. QED
        BY <1>7, <4>1, <4>2
    <3>3. \A x \in sent : x.expectedRevision < v.revision
      BY <1>5, <1>7 DEF SentInv
    <3>4. QED
      BY <1>3, <3>2, <3>3 DEF Clean
  <2>3. (\A i \in DOMAIN io : StateSet(io[i]) => Clean(io[i].value))'
    <3>1. \A i \in DOMAIN io' : StateSet(io'[i]) => io'[i].value = v
      BY <1>4, <1>9, <1>10
    <3>2. (\A i \in DOMAIN io : StateSet(io[i]) => io[i].value = v)'
      BY <3>1 DEF StateSet
    <3>3. QED
      BY <2>2, <3>2
  <2>4. \A x \in sent : Spent(x)' <=> Spent(x)
    BY <1>3, <1>17 DEF Spent
  <2>5. QED
    BY <1>1, <1>3, <1>4, <1>17, <2>1, <2>3, <2>4 DEF SentInv, StateSet
<1>20. QueueInv'
  <2>1. Saving' => ~Untouched(writer.command.operationId)'
    <3>1. Untouched(writer.command.operationId)' <=> Untouched(op)'
      BY <1>1, <1>2, <1>3 DEF Untouched, Heard
    <3>2. QED
      BY <1>5, <1>17, <1>18, <3>1
  <2>2. writer'.command = writer.command
    BY <1>1, <1>4
  <2>3. Saving' => ~Untouched(writer.command.operationId)' /\ writer'.command = writer.command
    BY <2>1, <2>2
  <2>4. Untouched(writer.command.operationId)' <=> Untouched(op)'
    BY <1>1, <1>2, <1>4 DEF Untouched, Heard
  <2>5. QED
    BY <1>1, <1>3, <1>4, <1>5, <1>17, <1>18, <2>4 DEF QueueInv
<1>21. LogInv'
  BY <1>3, <1>4, <1>11, <1>17 DEF LogInv, AppliedOnce
<1>22. QED
  BY <1>12, <1>13, <1>14, <1>15, <1>16, <1>19, <1>20, <1>21

LEMMA DecideKeeps ==
  ASSUME NullsAreNoStates, RepositoryInv, Decide
  PROVE  RepositoryInv'
  BY DecideAnswersKeeps, DecideWritesKeeps

(***************************************************************************)
(* Commands put on the queue.                                              *)
(***************************************************************************)

LEMMA DeclineKeeps ==
  ASSUME RepositoryInv, NEW c \in Clients, Dispatch(c),
         BodyOf(c, client[c].read.playlists) = Absent
  PROVE  RepositoryInv'
<1> USE DEF RepositoryInv
<1>1. /\ client' = [client EXCEPT ![c].at = "done", ![c].reply = [kind |-> "no-change"],
                                  ![c].read = Absent]
      /\ UNCHANGED <<pipe, pointer, queue, sent, log>> /\ client[c].at = "read"
      /\ DOMAIN client = Clients /\ DOMAIN client[c] = {"at", "attempt", "read", "reply"}
  BY DEF Dispatch, Finished, pipe, storage, ShapeInv
<1>2. /\ client'[c].at = "done" /\ DOMAIN client'[c] = {"at", "attempt", "read", "reply"}
      /\ client'[c].reply = [kind |-> "no-change"]
      /\ DOMAIN client' = Clients /\ \A d \in Clients : d # c => client'[d] = client[d]
  BY <1>1
<1>3. Untouched(c) /\ ~Heard(c, {"mutation-rejected"}) /\ ~Heard(c, {"committed"})'
  BY <1>1, <1>2 DEF Untouched, Heard
<1>4. ShapeInv'
  BY <1>1, <1>2 DEF ShapeInv, pipe
<1>5. FlightInv' /\ WriteInv' /\ LoadInv' /\ MemInv'
  BY <1>1, <1>2, PipeStays DEF LoadInv, Processes
<1>6. SentInv' /\ QueueInv' /\ LogInv'
  BY <1>1, <1>2, <1>3, ClientMoves DEF pipe
<1>7. QED
  BY <1>4, <1>5, <1>6

LEMMA SendKeeps ==
  ASSUME RepositoryInv, NEW c \in Clients, Dispatch(c),
         BodyOf(c, client[c].read.playlists) # Absent
  PROVE  RepositoryInv'
<1> USE DEF RepositoryInv
<1>1. PICK command :
        command = [body |-> BodyOf(c, client[c].read.playlists), operationId |-> c,
                   expectedRevision |-> client[c].read.revision]
  OBVIOUS
<1>2. /\ client' = [client EXCEPT ![c].at = "dispatched", ![c].read = Absent]
      /\ queue' = Append(queue, command) /\ sent' = sent \cup {command}
      /\ UNCHANGED <<pipe, pointer, log>> /\ client[c].at = "read"
      /\ DOMAIN client = Clients /\ DOMAIN client[c] = {"at", "attempt", "read", "reply"}
  BY <1>1 DEF Dispatch, pipe, storage, ShapeInv
<1>3. /\ client'[c].at = "dispatched" /\ DOMAIN client'[c] = {"at", "attempt", "read", "reply"}
      /\ DOMAIN client' = Clients /\ \A d \in Clients : d # c => client'[d] = client[d]
  BY <1>2
<1>4. /\ disk' = disk /\ legacy' = legacy /\ mem' = mem /\ io' = io /\ answers' = answers
      /\ load' = load /\ writer' = writer /\ log' = log
  BY <1>2 DEF pipe
<1>5. /\ Parsed(disk) /\ command.operationId = c /\ command.expectedRevision \in Nat
      /\ command.expectedRevision <= disk.revision
  BY <1>1, <1>2 DEF SentInv
<1>6. /\ IsSeq(queue') /\ DOMAIN queue = 1 .. Len(queue) /\ Len(queue) \in Nat
      /\ DOMAIN queue' = 1 .. Len(queue) + 1 /\ queue'[Len(queue) + 1] = command
      /\ \A i \in DOMAIN queue : queue'[i] = queue[i]
  BY <1>2, SeqAppend, SeqFacts DEF ShapeInv
<1>7. \A i \in DOMAIN queue' :
        (i \in DOMAIN queue /\ queue'[i] = queue[i]) \/ (i = Len(queue) + 1 /\ queue'[i] = command)
  BY <1>6
<1>8. /\ Untouched(c) /\ ~Heard(c, {"mutation-rejected"}) /\ ~Untouched(c)'
      /\ \A kinds : ~Heard(c, kinds)'
  BY <1>2, <1>3 DEF Untouched, Heard
<1>9. \A d \in Clients : d # c => /\ Untouched(d)' <=> Untouched(d)
                                  /\ \A kinds : Heard(d, kinds)' <=> Heard(d, kinds)
  BY <1>3 DEF Untouched, Heard
<1>10. ShapeInv'
  BY <1>2, <1>3, <1>4, <1>6 DEF ShapeInv
<1>11. FlightInv' /\ WriteInv' /\ LoadInv' /\ MemInv'
  BY <1>2, <1>3, PipeStays DEF LoadInv, Processes
<1>12. SentInv'
  <2>1. ASSUME NEW state, Clean(state)
        PROVE  Clean(state)'
    <3>1. c \notin state.applied
      BY <1>8, <2>1 DEF Clean
    <3>2. \A x \in sent' : x.operationId \in state.applied => x.expectedRevision < state.revision
      BY <1>2, <1>5, <2>1, <3>1 DEF Clean
    <3>3. ASSUME NEW d \in Clients,
                 \/ Untouched(d)'
                 \/ client'[d].at = "dispatched" /\ ~(Saving' /\ writer'.command.operationId = d)
          PROVE  d \notin state.applied
      <4>1. CASE d = c
        BY <3>1, <4>1
      <4>2. CASE d # c
        BY <1>3, <1>4, <1>9, <2>1, <3>3, <4>2 DEF Clean, Saving
      <4>3. QED
        BY <4>1, <4>2
    <3>4. QED
      BY <3>2, <3>3 DEF Clean
  <2>2. (Parsed(disk) => Clean(disk))' /\ (\A i \in DOMAIN io : StateSet(io[i]) => Clean(io[i].value))'
    BY <1>4, <2>1 DEF SentInv, StateSet
  <2>3. \A x \in sent : x.operationId \in Clients
    BY DEF SentInv
  <2>4. \A x \in sent : x.operationId = c => x.expectedRevision < disk.revision
    BY <1>8 DEF SentInv, Spent
  <2>5. \A x \in sent : x.operationId # c => (Spent(x)' <=> Spent(x))
    BY <1>4, <1>9, <2>3 DEF Spent
  <2>6. \A x \in sent' :
          /\ x.operationId \in Clients /\ x.expectedRevision \in Nat
          /\ Parsed(disk') /\ x.expectedRevision <= disk'.revision
    BY <1>2, <1>4, <1>5 DEF SentInv, Parsed
  <2>7. \A x \in sent' : Untouched(x.operationId)' => Spent(x)'
    <3>1. ASSUME NEW x \in sent, Untouched(x.operationId)', x.operationId # c
          PROVE  Spent(x)'
      BY <1>9, <2>3, <2>5, <3>1 DEF SentInv
    <3>2. QED
      BY <1>2, <1>5, <1>8, <3>1
  <2>8. \A x \in sent' : client'[x.operationId].at = "dispatched" =>
          \/ x.expectedRevision < disk'.revision
          \/ \E i \in DOMAIN queue' : queue'[i] = x
          \/ writer'.at # "idle" /\ writer'.command = x
    <3>1. \E i \in DOMAIN queue' : queue'[i] = command
      BY <1>6
    <3>2. ASSUME NEW x \in sent, x.operationId # c, client[x.operationId].at = "dispatched"
          PROVE  \/ x.expectedRevision < disk.revision
                 \/ \E i \in DOMAIN queue' : queue'[i] = x
                 \/ writer.at # "idle" /\ writer.command = x
      <4>1. DOMAIN queue \subseteq DOMAIN queue'
        BY <1>6
      <4>2. QED
        BY <1>6, <3>2, <4>1 DEF SentInv
    <3>3. QED
      BY <1>2, <1>3, <1>4, <2>3, <2>4, <3>1, <3>2
  <2>9. \A d \in Clients : client'[d].at = "read" =>
          /\ Parsed(disk') /\ client'[d].read.revision \in Nat
          /\ client'[d].read.revision <= disk'.revision
    BY <1>3, <1>4 DEF SentInv, Parsed
  <2>10. QED
    BY <2>2, <2>6, <2>7, <2>8, <2>9 DEF SentInv, Parsed
<1>13. QueueInv'
  <2>1. \A x \in sent : x.operationId \in Clients
    BY DEF SentInv
  <2>2. \A i \in DOMAIN queue : queue[i].operationId \in Clients /\ queue[i].operationId # c
    BY <1>2, <2>1 DEF QueueInv
  <2>3. writer.at # "idle" => /\ writer.command.operationId \in Clients
                              /\ writer.command.operationId # c
    BY <1>2, <2>1 DEF QueueInv
  <2>4. \A i \in DOMAIN queue' : /\ queue'[i] \in sent'
                                 /\ client'[queue'[i].operationId].at \in {"dispatched", "done"}
    BY <1>2, <1>3, <1>5, <1>7, <2>2 DEF QueueInv
  <2>5. \A i, j \in DOMAIN queue' :
          queue'[i].operationId = queue'[j].operationId
          /\ client'[queue'[i].operationId].at = "dispatched" => i = j
    BY <1>3, <1>5, <1>7, <2>2 DEF QueueInv
  <2>6. writer'.at # "idle" =>
          /\ writer'.command \in sent'
          /\ client'[writer'.command.operationId].at \in {"dispatched", "done"}
          /\ client'[writer'.command.operationId].at = "dispatched" =>
               \A i \in DOMAIN queue' : queue'[i].operationId # writer'.command.operationId
    BY <1>2, <1>3, <1>4, <1>5, <1>7, <2>3 DEF QueueInv
  <2>7. (Saving => ~Untouched(writer.command.operationId))'
    <3>1. PICK op : op = writer.command.operationId
      OBVIOUS
    <3>2. ASSUME Saving
          PROVE  op \in Clients /\ ~Untouched(op) /\ op # c
      BY <2>3, <3>1, <3>2 DEF QueueInv, Saving
    <3>3. Untouched(writer.command.operationId)' <=> Untouched(op)'
      BY <1>4, <3>1 DEF Untouched, Heard
    <3>4. Saving' <=> Saving
      BY <1>4 DEF Saving
    <3>5. QED
      BY <1>9, <3>2, <3>3, <3>4
  <2>8. QED
    BY <2>4, <2>5, <2>6, <2>7 DEF QueueInv
<1>14. LogInv'
  <2>1. \A d \in Clients : Heard(d, {"committed"})' => \E i \in DOMAIN log : log[i] = client'[d].reply
    BY <1>3, <1>8, <1>9 DEF LogInv
  <2>2. QED
    BY <1>4, <2>1 DEF LogInv, Base, AppliedOnce, WriterReply
<1>15. QED
  BY <1>10, <1>11, <1>12, <1>13, <1>14

LEMMA ResendKeeps ==
  ASSUME RepositoryInv, Resend
  PROVE  RepositoryInv'
<1> USE DEF RepositoryInv
<1>1. PICK command \in sent : /\ client[command.operationId].at = "done"
                              /\ queue' = Append(queue, command)
  BY DEF Resend
<1>2. UNCHANGED <<pipe, pointer, client, sent, log>>
  BY DEF Resend, pipe, storage
<1>3. /\ IsSeq(queue') /\ DOMAIN queue = 1 .. Len(queue) /\ Len(queue) \in Nat
      /\ DOMAIN queue' = 1 .. Len(queue) + 1 /\ queue'[Len(queue) + 1] = command
      /\ \A i \in DOMAIN queue : queue'[i] = queue[i] /\ i \in DOMAIN queue'
  BY <1>1, SeqAppend, SeqFacts DEF ShapeInv
<1>4. \A i \in DOMAIN queue' :
        (i \in DOMAIN queue /\ queue'[i] = queue[i]) \/ (i = Len(queue) + 1 /\ queue'[i] = command)
  BY <1>3
<1>5. /\ \A c : Untouched(c)' <=> Untouched(c)
      /\ \A c : \A kinds : Heard(c, kinds)' <=> Heard(c, kinds)
      /\ Saving' <=> Saving
  BY <1>2 DEF Untouched, Heard, Saving, pipe
<1>6. ShapeInv'
  BY <1>2, <1>3 DEF ShapeInv, pipe
<1>7. FlightInv' /\ WriteInv' /\ LoadInv' /\ MemInv'
  BY <1>2, PipeStays DEF LoadInv, Processes
<1>8. SentInv'
  <2>1. ASSUME NEW state, Clean(state)
        PROVE  Clean(state)'
    BY <1>2, <1>5, <2>1 DEF Clean, pipe
  <2>2. \A x \in sent : Spent(x)' <=> Spent(x)
    BY <1>2, <1>5 DEF Spent, pipe
  <2>3. \A x : (\E i \in DOMAIN queue : queue[i] = x) => \E i \in DOMAIN queue' : queue'[i] = x
    BY <1>3
  <2>4. QED
    BY <1>2, <1>5, <2>1, <2>2, <2>3 DEF SentInv, StateSet, pipe
<1>9. QueueInv'
  <2>1. (Saving => ~Untouched(writer.command.operationId))'
    BY <1>2, <1>5 DEF QueueInv, pipe
  <2>2. \A i \in DOMAIN queue' : /\ queue'[i] \in sent
                                 /\ client[queue'[i].operationId].at \in {"dispatched", "done"}
    BY <1>1, <1>4 DEF QueueInv
  <2>3. \A i, j \in DOMAIN queue' :
          queue'[i].operationId = queue'[j].operationId
          /\ client[queue'[i].operationId].at = "dispatched" => i = j
    BY <1>1, <1>4 DEF QueueInv
  <2>4. writer.at # "idle" /\ client[writer.command.operationId].at = "dispatched" =>
          \A i \in DOMAIN queue' : queue'[i].operationId # writer.command.operationId
    BY <1>1, <1>4 DEF QueueInv
  <2>5. QED
    BY <1>2, <2>1, <2>2, <2>3, <2>4 DEF QueueInv, pipe
<1>10. LogInv'
  BY <1>2, <1>5 DEF LogInv, Base, AppliedOnce, WriterReply, pipe
<1>11. QED
  BY <1>6, <1>7, <1>8, <1>9, <1>10

(***************************************************************************)
(* Loads of the state.                                                     *)
(***************************************************************************)

LEMMA StartLoadKeeps ==
  ASSUME RepositoryInv, ~RacingStartup, NEW p \in Processes, StartLoad(p),
         UNCHANGED <<disk, legacy, mem, answers, writer, queue, client, sent, log>>,
         p \in Clients => client[p].at = "reading", p = Writer => writer.at = "starting"
  PROVE  RepositoryInv'
<1> USE DEF RepositoryInv
<1>1. PICK r : r = Get(p, "state")
  OBVIOUS
<1>2. /\ mem = Absent /\ load[p] = NotLoading /\ MayLoad /\ io' = Append(io, r)
      /\ load' = [load EXCEPT ![p].at = "state"]
      /\ DOMAIN load = Processes /\ DOMAIN load[p] = {"at", "state"}
      /\ load[p].at = "no" /\ DOMAIN NotLoading = {"at", "state"} /\ NotLoading.at = "no"
  BY <1>1 DEF StartLoad, ShapeInv, NotLoading
<1>3. /\ load'[p].at = "state" /\ DOMAIN load'[p] = {"at", "state"} /\ DOMAIN load' = Processes
      /\ \A q \in Processes : q # p => load'[q] = load[q]
      /\ r.who = p /\ r.op = "get" /\ r.key = "state" /\ ~StateSet(r)
      /\ DOMAIN r = {"who", "op", "key", "value"}
  BY <1>1, <1>2 DEF Get, StateSet
<1>4. /\ Writer \in Processes /\ Clients \subseteq Processes
      /\ p \in Clients \/ p = Writer
  BY DEF Processes
<1>5. writer.at \in {"idle", "starting"} /\ ~Saving /\ ~Saving' /\ Base = disk /\ Base' = disk
  <2>1. writer.at \in {"idle", "starting"}
    BY <1>2 DEF MemInv
  <2>2. QED
    BY <2>1 DEF Saving, Base
<1>6. Old(disk) => \A q \in Processes : load[q].at = "no"
  BY <1>2 DEF MayLoad, Old
<1>7. /\ IsSeq(io') /\ DOMAIN io = 1 .. Len(io) /\ Len(io) \in Nat /\ Len(io') = Len(io) + 1
      /\ DOMAIN io' = 1 .. Len(io) + 1 /\ io'[Len(io) + 1] = r
      /\ \A i \in DOMAIN io : io'[i] = io[i]
  BY <1>2, SeqAppend, SeqFacts DEF ShapeInv
<1>8. \A i \in DOMAIN io' : (i \in DOMAIN io /\ io'[i] = io[i]) \/ (i = Len(io) + 1 /\ io'[i] = r)
  BY <1>7
<1>9. ShapeInv'
  BY <1>2, <1>3, <1>7, <1>8 DEF ShapeInv, LoadStages
<1>10. FlightInv'
  <2>1. \A state : Repaired(state)' = Repaired(state)
    BY DEF Repaired
  <2>2. \A q \in Processes : \A x : Asked(q, x) => Asked(q, x)' /\ q # p
    BY <1>2, <1>3, <1>5, <2>1 DEF Asked, StateSet, Saving
  <2>3. \A q \in Processes : \A a, i : Told(q, a, i) => Told(q, a, i)' /\ q # p
    BY <1>2, <1>3, <1>5, <2>1 DEF Told, Saving
  <2>4. \A i \in DOMAIN io : OrphanAt(i) => OrphanAt(i)'
    <3>1. ASSUME NEW i \in DOMAIN io, OrphanAt(i)
          PROVE  OrphanAt(i)'
      <4>1. \A j \in 1 .. i : j \in DOMAIN io /\ io'[j] = io[j]
        BY <1>7
      <4>2. QED
        BY <1>3, <3>1, <4>1 DEF OrphanAt
    <3>2. QED
      BY <3>1
  <2>5. PICK q : q = io'
    OBVIOUS
  <2>6. Asked(p, r)' /\ p # Absent
    BY <1>3, RepositoryAssumption DEF Asked, Processes, Writer
  <2>7. \A i \in DOMAIN q : IF q[i].who = Absent THEN OrphanAt(i)'
                            ELSE q[i].who \in Processes /\ Asked(q[i].who, q[i])'
    <3>1. \A i \in DOMAIN io : \E x : /\ x = io[i]
                                      /\ IF x.who = Absent THEN OrphanAt(i)'
                                         ELSE x.who \in Processes /\ Asked(x.who, x)'
      BY <2>2, <2>4 DEF FlightInv
    <3>2. \A i \in DOMAIN q : (i \in DOMAIN io /\ q[i] = io[i]) \/ (i = Len(io) + 1 /\ q[i] = r)
      BY <1>8, <2>5
    <3>3. \A i \in DOMAIN q : \E x : /\ x = q[i]
                                     /\ IF x.who = Absent THEN OrphanAt(i)'
                                        ELSE x.who \in Processes /\ Asked(x.who, x)'
      BY <1>3, <2>6, <3>1, <3>2
    <3>4. QED
      BY <3>3
  <2>8. (\A i \in DOMAIN io : IF io[i].who = Absent THEN OrphanAt(i)
                              ELSE io[i].who \in Processes /\ Asked(io[i].who, io[i]))'
    BY <2>5, <2>7
  <2>9. \A i \in DOMAIN io : io[i].who # p
    BY <2>2, <2>6 DEF FlightInv
  <2>10. \A i, j \in DOMAIN io' : io'[i].who = io'[j].who /\ io'[i].who # Absent => i = j
    BY <1>3, <1>8, <2>9 DEF FlightInv
  <2>11. \A i \in DOMAIN answers : answers[i].who # p
    BY <2>3 DEF FlightInv
  <2>12. \A i \in DOMAIN io', j \in DOMAIN answers' : io'[i].who # answers'[j].who
    BY <1>3, <1>8, <2>11 DEF FlightInv
  <2>13. (\A i \in DOMAIN answers :
             answers[i].who \in Processes /\ Told(answers[i].who, answers[i], i))'
    <3>1. \A i \in DOMAIN answers : \E x : /\ x = answers[i] /\ x.who \in Processes
                                           /\ Told(x.who, x, i)'
      BY <2>3 DEF FlightInv
    <3>2. QED
      BY <3>1
  <2>14. QED
    BY <2>8, <2>10, <2>12, <2>13 DEF FlightInv
<1>11. WriteInv'
  <2>1. ASSUME NEW i \in DOMAIN io, StateSet(io[i]), io[i].who # Absent
        PROVE  FALSE
    <3>1. PICK q \in Processes : q = io[i].who /\ Asked(q, io[i])
      BY <2>1 DEF FlightInv
    <3>2. \/ load[q].at = "repaired" /\ disk = load[q].state
          \/ load[q].at = "migrated" /\ disk = Absent
      BY <1>5, <2>1, <3>1 DEF Asked, StateSet
    <3>3. Old(disk)
      BY <3>2 DEF LoadInv, Old
    <3>4. QED
      BY <1>6, <3>2, <3>3
  <2>2. \A i \in DOMAIN io' : StateSet(io'[i]) => i \in DOMAIN io /\ io'[i] = io[i]
    BY <1>3, <1>8
  <2>3. QED
    BY <2>1, <2>2 DEF WriteInv, StateSet, Follows
<1>12. LoadInv'
  <2>1. \A q \in Processes : load[q].at \in {"legacy", "repair"} => Old(disk)
    BY DEF LoadInv, Old
  <2>2. Old(disk) => Exclusive(p)'
    <3>1. Old(disk) => \A q \in Processes : q # p => load'[q] = NotLoading
      BY <1>3, <1>6 DEF ShapeInv
    <3>2. QED
      BY <1>2, <3>1 DEF Exclusive
  <2>3. \A q \in Processes : load'[q].at \in {"legacy", "repair"} => Exclusive(q)'
    BY <1>3, <1>6, <2>1
  <2>4. \A q \in Processes : load'[q].at \in LoadStages /\ Old(disk) => Exclusive(q)'
    BY <1>3, <1>6, <2>2 DEF LoadStages
  <2>5. Old(Base)' <=> Old(disk)
    BY <1>5 DEF Old
  <2>6. QED
    BY <1>2, <1>3, <1>4, <1>5, <2>3, <2>4, <2>5 DEF LoadInv
<1>13. MemInv'
  <2>1. \A state, command : Verdict(state, command)' = Verdict(state, command)
    BY DEF Verdict
  <2>2. QED
    BY <1>2, <1>5 DEF MemInv
<1>14. /\ \A c : Untouched(c)' <=> Untouched(c)
       /\ \A c : \A kinds : Heard(c, kinds)' <=> Heard(c, kinds)
  BY DEF Untouched, Heard
<1>15. SentInv'
  <2>1. ASSUME NEW state, Clean(state)
        PROVE  Clean(state)'
    BY <1>5, <1>14, <2>1 DEF Clean
  <2>2. (\A i \in DOMAIN io : StateSet(io[i]) => Clean(io[i].value))'
    <3>1. PICK q : q = io'
      OBVIOUS
    <3>2. \A i \in DOMAIN q : StateSet(q[i]) => i \in DOMAIN io /\ q[i] = io[i]
      BY <1>3, <1>8, <3>1
    <3>3. \A i \in DOMAIN io : \E x : x = io[i] /\ (StateSet(x) => Clean(x.value)')
      BY <2>1 DEF SentInv
    <3>4. \A i \in DOMAIN q : StateSet(q[i]) => Clean(q[i].value)'
      BY <3>2, <3>3
    <3>5. QED
      BY <3>1, <3>4 DEF StateSet
  <2>3. \A x \in sent : Spent(x)' <=> Spent(x)
    BY <1>14 DEF Spent
  <2>4. QED
    BY <1>14, <2>1, <2>2, <2>3 DEF SentInv
<1>16. QueueInv'
  BY <1>5, <1>14 DEF QueueInv
<1>17. LogInv'
  BY <1>5, <1>14 DEF LogInv, AppliedOnce, WriterReply
<1>18. QED
  BY <1>9, <1>10, <1>11, <1>12, <1>13, <1>15, <1>16, <1>17

LEMMA ReadByLoadKeeps ==
  ASSUME RepositoryInv, ~RacingStartup, NEW c \in Clients, ReadByLoad(c)
  PROVE  RepositoryInv'
<1>1. /\ c \in Processes /\ c # Writer /\ client[c].at = "reading" /\ StartLoad(c)
      /\ UNCHANGED <<disk, legacy, mem, answers, writer, queue, client, sent, log>>
  BY RepositoryAssumption DEF ReadByLoad, Processes, Writer, storage
<1>2. QED
  BY <1>1, StartLoadKeeps

LEMMA WriterLoadsKeeps ==
  ASSUME RepositoryInv, ~RacingStartup, WriterLoads
  PROVE  RepositoryInv'
<1>1. /\ Writer \in Processes /\ Writer \notin Clients /\ writer.at = "starting"
      /\ StartLoad(Writer)
      /\ UNCHANGED <<disk, legacy, mem, answers, writer, queue, client, sent, log>>
  BY RepositoryAssumption DEF WriterLoads, Processes, Writer, storage
<1>2. QED
  BY <1>1, StartLoadKeeps

(***************************************************************************)
(* The answer to the writer's candidate.                                   *)
(***************************************************************************)

\* Storage has done what it says, and nothing else is on its way.
LEMMA CommitFacts ==
  ASSUME NullsAreNoStates, RepositoryInv, writer.at = "writing", Answered(Writer),
         NEW a, a = Head(answers), NEW op, op = writer.command.operationId
  PROVE  /\ io = <<>> /\ Tail(answers) = <<>>
         /\ disk = (IF a.ok THEN writer.candidate ELSE writer.current)
         /\ mem = writer.current /\ mem # Absent /\ Base = mem /\ IsState(mem) /\ Parsed(mem)
         /\ IsState(writer.candidate) /\ Parsed(writer.candidate)
         /\ writer.candidate.revision = mem.revision + 1 /\ writer.candidate.parser = mem.parser
         /\ writer.candidate.applied = mem.applied \cup {op} /\ op \notin mem.applied
         /\ Saving /\ op \in Clients /\ client[op].at \in {"dispatched", "done"} /\ ~Untouched(op)
         /\ load[Writer].at = "no"
         /\ \A q \in Processes :
              load[q].at \notin {"legacy", "repair", "repaired", "migrated"}
<1> USE DEF RepositoryInv
<1>1. /\ mem # Absent /\ writer.current = mem /\ Base = mem /\ IsState(mem) /\ Parsed(mem)
      /\ op \notin mem.applied /\ Verdict(mem, writer.command).kind = "write"
      /\ writer.candidate = Candidate(mem, writer.command,
                                      ApplyStorageMutation(mem, writer.command.body))
  BY DEF MemInv, Base
<1>2. /\ IsState(writer.candidate)
      /\ writer.candidate.revision = mem.revision + 1 /\ writer.candidate.parser = mem.parser
      /\ writer.candidate.applied = mem.applied \cup {op}
  BY <1>1, VerdictIs, CandidateIs
<1>3. Parsed(writer.candidate)
  BY <1>2, StateIsParsed
<1>4. load[Writer].at = "no"
  BY DEF LoadInv, Processes
<1>5. /\ answers # <<>> /\ a.who = Writer /\ a = answers[1] /\ 1 \in DOMAIN answers
      /\ Len(answers) \in Nat
  BY SeqFacts, SeqTail DEF Answered, ShapeInv
<1>6. Told(Writer, a, 1)
  BY <1>5 DEF FlightInv
<1>7. /\ Len(answers) = 1 /\ io = <<>>
      /\ disk = (IF a.ok THEN writer.candidate ELSE writer.current)
  BY <1>4, <1>6 DEF Told
<1>8. Tail(answers) = <<>>
  <2>1. IsSeq(Tail(answers)) /\ Len(Tail(answers)) = 0
    BY <1>5, <1>7, SeqTail DEF ShapeInv
  <2>2. QED
    BY <2>1, SeqFacts
<1>9. Saving /\ op \in Clients /\ client[op].at \in {"dispatched", "done"} /\ ~Untouched(op)
  BY DEF Saving, QueueInv, SentInv
<1>10. \A q \in Processes : load[q].at \notin {"legacy", "repair", "repaired", "migrated"}
  BY <1>1 DEF LoadInv, Exclusive
<1>11. QED
  BY <1>1, <1>2, <1>3, <1>4, <1>7, <1>8, <1>9, <1>10

\* The worker has heard of everything storage did, and at most asks for the pointer.
LEMMA Settled ==
  ASSUME ShapeInv, LoadInv, UNCHANGED <<disk, legacy, load>>, answers' = <<>>,
         \/ io' = <<>>
         \/ /\ writer'.at = "reconciling" /\ DOMAIN io' = {1}
            /\ io'[1].who = Writer /\ io'[1].op = "get" /\ io'[1].key = "transient",
         writer'.at \in {"idle", "reconciling"},
         mem # Absent, mem' = disk, mem' # Absent, IsState(disk), Parsed(disk), Parsed(Base),
         Base.revision \in Nat, Base.revision <= disk.revision, Base.parser = disk.parser,
         load[Writer].at = "no",
         \A q \in Processes : load[q].at \notin {"legacy", "repair", "repaired", "migrated"},
         \A c \in Clients : client[c].at = "reading" => client'[c] = client[c]
  PROVE  FlightInv' /\ WriteInv' /\ LoadInv' /\ MemInv' /\ Base' = disk
<1>1. Base' = disk
  BY DEF Base
<1>2. /\ DOMAIN io' \subseteq {1} /\ DOMAIN answers' = {}
      /\ \A i \in DOMAIN io' : /\ io'[i].who = Writer /\ io'[i].op = "get"
                               /\ io'[i].key = "transient" /\ writer'.at = "reconciling"
  BY SeqEmpty
<1>3. FlightInv'
  <2>1. PICK q : q = io'
    OBVIOUS
  <2>2. \A i \in DOMAIN q : /\ q[i].who \in Processes /\ q[i].who # Absent
                            /\ Asked(q[i].who, q[i])'
    BY <1>2, <2>1, RepositoryAssumption DEF Asked, Processes, Writer
  <2>3. (\A i \in DOMAIN io : io[i].who # Absent /\ io[i].who \in Processes
                              /\ Asked(io[i].who, io[i]))'
    BY <2>1, <2>2
  <2>4. \A i, j \in DOMAIN io' : i = j
    BY <1>2
  <2>5. QED
    BY <1>2, <2>3, <2>4 DEF FlightInv
<1>4. WriteInv'
  BY <1>2 DEF WriteInv, StateSet
<1>5. LoadInv'
  <2>1. Old(Base)' => Old(Base)
    BY <1>1 DEF Old, Parsed, NeedsRepair
  <2>2. \A q \in Processes : ~(load[q].at \in LoadStages /\ Old(Base)')
    BY <2>1 DEF LoadInv, Exclusive
  <2>3. \A q \in Processes : load[q].at = "done" =>
          load[q].state.revision \in Nat /\ load[q].state.revision <= disk.revision
    BY DEF LoadInv, IsState
  <2>4. \A q \in Clients : load[q].at # "no" => client'[q].at = "reading"
    BY DEF LoadInv, Processes
  <2>5. QED
    BY <1>1, <2>2, <2>3, <2>4 DEF LoadInv, Parsed
<1>6. MemInv'
  BY <1>1 DEF MemInv
<1>7. QED
  BY <1>1, <1>3, <1>4, <1>5, <1>6

LEMMA WriteFailedKeeps ==
  ASSUME NullsAreNoStates, RepositoryInv, Commit, ~Head(answers).ok
  PROVE  RepositoryInv'
<1> USE DEF RepositoryInv
<1>1. PICK a, command, op, reply :
        /\ a = Head(answers) /\ command = writer.command /\ op = writer.command.operationId
        /\ reply = FailureReply
  OBVIOUS
<1>2. /\ writer.at = "writing" /\ Answered(Writer) /\ answers' = Tail(answers)
      /\ mem' = mem /\ log' = log /\ writer' = Idle /\ io' = io /\ Answer(command, reply)
      /\ UNCHANGED <<disk, legacy, load, queue, sent>>
  BY <1>1 DEF Commit, Confirmed, QueueGoesOn, storage
<1>3. writer'.at = "idle" /\ DOMAIN Idle = {"at", "command", "current", "candidate"}
  BY <1>2 DEF Idle
<1>4. /\ io = <<>> /\ answers' = <<>> /\ disk = mem /\ mem # Absent /\ Base = mem
      /\ IsState(mem) /\ Parsed(mem) /\ load[Writer].at = "no" /\ mem.revision \in Nat
      /\ \A q \in Processes : load[q].at \notin {"legacy", "repair", "repaired", "migrated"}
  BY <1>1, <1>2, CommitFacts DEF IsState
<1>5. /\ SentInv' /\ QueueInv'
      /\ DOMAIN client' = Clients
      /\ \A c \in Clients : /\ DOMAIN client'[c] = {"at", "attempt", "read", "reply"}
                            /\ client'[c].at \in {"idle", "reading", "read", "dispatched",
                                                  "answered", "done"}
                            /\ client[c].at = "reading" => client'[c] = client[c]
                            /\ \/ client'[c] = client[c]
                               \/ client'[c].at = "answered" /\ client'[c].reply = reply
  <2>1. reply.kind \notin {"revision-conflict", "mutation-rejected", "no-change"}
    BY <1>1 DEF FailureReply
  <2>2. UNCHANGED <<disk, io, sent, queue>> /\ writer.at # "idle"
    BY <1>2
  <2>3. QED
    BY <1>1, <1>2, <1>3, <2>1, <2>2, AnswerMoves
<1>6. ShapeInv'
  BY <1>2, <1>3, <1>4, <1>5, SeqEmpty DEF ShapeInv
<1>7. FlightInv' /\ WriteInv' /\ LoadInv' /\ MemInv' /\ Base' = disk
  <2>1. Base.revision \in Nat /\ Base.revision <= disk.revision /\ Base.parser = disk.parser
    BY <1>4
  <2>2. /\ mem' = disk /\ mem' # Absent /\ IsState(disk) /\ Parsed(disk) /\ Parsed(Base)
        /\ io' = <<>> /\ UNCHANGED <<disk, legacy, load>>
        /\ writer'.at \in {"idle", "reconciling"}
        /\ \A c \in Clients : client[c].at = "reading" => client'[c] = client[c]
    BY <1>2, <1>3, <1>4, <1>5
  <2>3. QED
    BY <1>4, <2>1, <2>2, Settled
<1>8. LogInv'
  <2>1. \A c \in Clients : Heard(c, {"committed"})' => Heard(c, {"committed"}) /\ client'[c] = client[c]
    BY <1>1, <1>5 DEF Heard, FailureReply
  <2>2. Base' = Base
    BY <1>4, <1>7
  <2>3. QED
    BY <1>2, <1>3, <2>1, <2>2 DEF LogInv, AppliedOnce
<1>9. QED
  BY <1>5, <1>6, <1>7, <1>8

\* The history of commits grows by an operation that was not applied before.
LEMMA LogGrows ==
  ASSUME NullsAreNoStates, RepositoryInv, writer.at = "writing", Answered(Writer),
         Head(answers).ok, NEW reply, reply = WriterReply, log' = Append(log, reply),
         Base' = disk, disk = writer.candidate
  PROVE  /\ IsSeq(log') /\ AppliedOnce'
         /\ \A i \in DOMAIN log' : Parsed(Base') /\ log'[i].operationId \in Base'.applied
         /\ \E i \in DOMAIN log' : log'[i] = reply
         /\ \A x : (\E i \in DOMAIN log : log[i] = x) => \E i \in DOMAIN log' : log'[i] = x
<1> USE DEF RepositoryInv
<1>1. PICK a, op : a = Head(answers) /\ op = writer.command.operationId
  OBVIOUS
<1>2. /\ Base = mem /\ writer.candidate.applied = mem.applied \cup {op} /\ op \notin mem.applied
      /\ Parsed(writer.candidate)
  BY <1>1, CommitFacts
<1>3. reply.operationId = op
  BY <1>1 DEF WriterReply, Committed
<1>4. /\ IsSeq(log') /\ DOMAIN log = 1 .. Len(log) /\ Len(log) \in Nat
      /\ DOMAIN log' = 1 .. Len(log) + 1 /\ log'[Len(log) + 1] = reply
      /\ \A i \in DOMAIN log : log'[i] = log[i] /\ i \in DOMAIN log'
  BY SeqAppend, SeqFacts DEF ShapeInv
<1>5. \A i \in DOMAIN log' :
        (i \in DOMAIN log /\ log'[i] = log[i]) \/ (i = Len(log) + 1 /\ log'[i] = reply)
  BY <1>4
<1>6. \A i \in DOMAIN log : log[i].operationId \in mem.applied
  BY <1>2 DEF LogInv
<1>7. AppliedOnce'
  <2>1. \A i, j \in DOMAIN log' : log'[i].operationId = log'[j].operationId => i = j
    BY <1>2, <1>3, <1>5, <1>6 DEF LogInv, AppliedOnce
  <2>2. QED
    BY <2>1 DEF AppliedOnce
<1>8. \A i \in DOMAIN log' : log'[i].operationId \in disk.applied
  BY <1>2, <1>3, <1>5, <1>6
<1>9. Parsed(Base') /\ Base'.applied = disk.applied
  BY <1>2 DEF Parsed
<1>10. \E i \in DOMAIN log' : log'[i] = reply
  BY <1>4
<1>11. QED
  BY <1>4, <1>7, <1>8, <1>9, <1>10

LEMMA WrittenKeeps ==
  ASSUME NullsAreNoStates, RepositoryInv, Commit, Head(answers).ok,
         writer.command.body.kind \notin RemovesPlaylists
  PROVE  RepositoryInv'
<1> USE DEF RepositoryInv
<1>1. PICK a, command, op, reply :
        /\ a = Head(answers) /\ command = writer.command /\ op = writer.command.operationId
        /\ reply = WriterReply
  OBVIOUS
<1>2. /\ writer.at = "writing" /\ Answered(Writer) /\ answers' = Tail(answers)
      /\ mem' = writer.candidate /\ log' = Append(log, reply) /\ writer' = Idle /\ io' = io
      /\ Answer(command, reply)
      /\ UNCHANGED <<disk, legacy, load, queue, sent>>
  BY <1>1 DEF Commit, Confirmed, QueueGoesOn, NextState, storage
<1>3. writer'.at = "idle" /\ DOMAIN Idle = {"at", "command", "current", "candidate"}
  BY <1>2 DEF Idle
<1>4. /\ io = <<>> /\ answers' = <<>> /\ disk = writer.candidate /\ Base = mem /\ mem # Absent
      /\ IsState(mem) /\ Parsed(mem) /\ IsState(disk) /\ Parsed(disk)
      /\ disk.revision = mem.revision + 1 /\ disk.parser = mem.parser
      /\ load[Writer].at = "no" /\ mem.revision \in Nat
      /\ \A q \in Processes : load[q].at \notin {"legacy", "repair", "repaired", "migrated"}
  BY <1>1, <1>2, CommitFacts DEF IsState
<1>5. /\ SentInv' /\ QueueInv'
      /\ DOMAIN client' = Clients
      /\ \A c \in Clients : /\ DOMAIN client'[c] = {"at", "attempt", "read", "reply"}
                            /\ client'[c].at \in {"idle", "reading", "read", "dispatched",
                                                  "answered", "done"}
                            /\ client[c].at = "reading" => client'[c] = client[c]
                            /\ \/ client'[c] = client[c]
                               \/ client'[c].at = "answered" /\ client'[c].reply = reply
  <2>1. reply.kind \notin {"revision-conflict", "mutation-rejected", "no-change"}
    BY <1>1 DEF WriterReply, Committed
  <2>2. UNCHANGED <<disk, io, sent, queue>> /\ writer.at # "idle"
    BY <1>2
  <2>3. QED
    BY <1>1, <1>2, <1>3, <2>1, <2>2, AnswerMoves
<1>6. FlightInv' /\ WriteInv' /\ LoadInv' /\ MemInv' /\ Base' = disk
  <2>1. Base.revision \in Nat /\ Base.revision <= disk.revision /\ Base.parser = disk.parser
    BY <1>4
  <2>2. /\ mem' = disk /\ mem' # Absent /\ Parsed(Base)
        /\ io' = <<>> /\ UNCHANGED <<disk, legacy, load>>
        /\ writer'.at \in {"idle", "reconciling"}
        /\ \A c \in Clients : client[c].at = "reading" => client'[c] = client[c]
    BY <1>2, <1>3, <1>4, <1>5 DEF Parsed
  <2>3. QED
    BY <1>4, <2>1, <2>2, Settled
<1>7. /\ IsSeq(log') /\ AppliedOnce'
      /\ \A i \in DOMAIN log' : Parsed(Base') /\ log'[i].operationId \in Base'.applied
      /\ \E i \in DOMAIN log' : log'[i] = reply
      /\ \A x : (\E i \in DOMAIN log : log[i] = x) => \E i \in DOMAIN log' : log'[i] = x
  BY <1>1, <1>2, <1>4, <1>6, LogGrows
<1>8. ShapeInv'
  BY ZenonT(90), <1>2, <1>3, <1>4, <1>5, <1>7, SeqEmpty DEF ShapeInv
<1>9. LogInv'
  <2>1. \A c \in Clients : Heard(c, {"committed"})' =>
          \/ Heard(c, {"committed"}) /\ client'[c] = client[c]
          \/ client'[c].reply = reply
    BY <1>5 DEF Heard
  <2>2. \A c \in Clients : Heard(c, {"committed"})' => \E i \in DOMAIN log' : log'[i] = client'[c].reply
    BY <1>7, <2>1 DEF LogInv
  <2>3. QED
    BY <1>3, <1>7, <2>2 DEF LogInv, Parsed
<1>10. QED
  BY <1>5, <1>6, <1>8, <1>9

LEMMA WrittenReconcilesKeeps ==
  ASSUME NullsAreNoStates, RepositoryInv, Commit, Head(answers).ok,
         writer.command.body.kind \in RemovesPlaylists
  PROVE  RepositoryInv'
<1> USE DEF RepositoryInv
<1>1. PICK a, op, reply, r :
        /\ a = Head(answers) /\ op = writer.command.operationId
        /\ reply = WriterReply /\ r = Get(Writer, "transient")
  OBVIOUS
<1>2. /\ writer.at = "writing" /\ Answered(Writer) /\ answers' = Tail(answers)
      /\ mem' = writer.candidate /\ log' = Append(log, reply)
      /\ writer' = [writer EXCEPT !.at = "reconciling"] /\ io' = Append(io, r)
      /\ UNCHANGED <<disk, legacy, load, queue, sent, client>>
      /\ DOMAIN writer = {"at", "command", "current", "candidate"}
  BY <1>1 DEF Commit, Confirmed, NextState, storage, ShapeInv
<1>3. /\ writer'.at = "reconciling" /\ writer'.command = writer.command
      /\ writer'.candidate = writer.candidate
      /\ DOMAIN writer' = {"at", "command", "current", "candidate"}
      /\ DOMAIN r = {"who", "op", "key", "value"} /\ r.who = Writer /\ r.op = "get"
      /\ r.key = "transient"
  BY <1>1, <1>2 DEF Get
<1>4. /\ io = <<>> /\ answers' = <<>> /\ disk = writer.candidate /\ Base = mem /\ mem # Absent
      /\ IsState(mem) /\ Parsed(mem) /\ IsState(disk) /\ Parsed(disk)
      /\ disk.revision = mem.revision + 1 /\ disk.parser = mem.parser
      /\ load[Writer].at = "no" /\ mem.revision \in Nat
      /\ \A q \in Processes : load[q].at \notin {"legacy", "repair", "repaired", "migrated"}
      /\ Saving
  BY <1>1, <1>2, CommitFacts DEF IsState
<1>5. IsSeq(io') /\ DOMAIN io' = {1} /\ io'[1] = r
  <2>1. IsSeq(io) /\ Len(io) = 0 /\ 1 .. 0 + 1 = {1}
    BY <1>4, SeqEmpty
  <2>2. PICK s : s = io
    OBVIOUS
  <2>3. IsSeq(s) /\ Len(s) = 0
    BY <2>1, <2>2
  <2>4. /\ IsSeq(Append(s, r)) /\ DOMAIN Append(s, r) = 1 .. Len(s) + 1
        /\ Append(s, r)[Len(s) + 1] = r
    BY ONLY <2>3, SeqAppend
  <2>5. QED
    BY <1>2, <2>1, <2>2, <2>3, <2>4
<1>6. /\ \A c : Untouched(c)' <=> Untouched(c)
      /\ \A c : \A kinds : Heard(c, kinds)' <=> Heard(c, kinds)
      /\ Saving'
  BY <1>2, <1>3 DEF Untouched, Heard, Saving
<1>7. FlightInv' /\ WriteInv' /\ LoadInv' /\ MemInv' /\ Base' = disk
  <2>1. Base.revision \in Nat /\ Base.revision <= disk.revision /\ Base.parser = disk.parser
    BY <1>4
  <2>2. /\ mem' = disk /\ mem' # Absent /\ Parsed(Base)
        /\ UNCHANGED <<disk, legacy, load>>
        /\ writer'.at \in {"idle", "reconciling"}
        /\ DOMAIN io' = {1} /\ io'[1].who = Writer /\ io'[1].op = "get"
        /\ io'[1].key = "transient"
        /\ \A c \in Clients : client[c].at = "reading" => client'[c] = client[c]
    BY <1>2, <1>3, <1>4, <1>5 DEF Parsed
  <2>3. QED
    BY <1>3, <1>4, <2>1, <2>2, Settled
<1>8. /\ IsSeq(log') /\ AppliedOnce'
      /\ \A i \in DOMAIN log' : Parsed(Base') /\ log'[i].operationId \in Base'.applied
      /\ \E i \in DOMAIN log' : log'[i] = reply
      /\ \A x : (\E i \in DOMAIN log : log[i] = x) => \E i \in DOMAIN log' : log'[i] = x
  <2>1. /\ writer.at = "writing" /\ Answered(Writer) /\ reply = WriterReply
        /\ log' = Append(log, reply) /\ Base' = disk /\ disk = writer.candidate
    BY <1>1, <1>2, <1>4, <1>7
  <2>2. QED
    BY <2>1, LogGrows
<1>9. ShapeInv'
  <2>1. IsSeq(io') /\ \A i \in DOMAIN io' : DOMAIN io'[i] = {"who", "op", "key", "value"}
    BY <1>3, <1>5
  <2>2. IsSeq(answers') /\ IsSeq(queue') /\ IsSeq(log')
    <3>1. queue' = queue /\ IsSeq(queue)
      BY <1>2 DEF ShapeInv
    <3>2. QED
      BY <1>4, <1>8, <3>1, SeqEmpty
  <2>3. Parsed(disk)' => IsState(disk)'
    BY <1>2, <1>4
  <2>4. QED
    BY <1>2, <1>3, <2>1, <2>2, <2>3 DEF ShapeInv
<1>10. SentInv'
  <2>1. ASSUME NEW state, Clean(state)
        PROVE  Clean(state)'
    BY <1>2, <1>3, <1>4, <1>6, <2>1 DEF Clean
  <2>2. (\A i \in DOMAIN io : ~StateSet(io[i]))'
    BY <1>3, <1>5 DEF StateSet
  <2>3. \A x \in sent : Spent(x)' <=> Spent(x)
    BY <1>2, <1>6 DEF Spent
  <2>4. QED
    BY <1>2, <1>3, <1>6, <2>1, <2>2, <2>3 DEF SentInv
<1>11. QueueInv'
  BY <1>2, <1>3, <1>4, <1>6 DEF QueueInv
<1>12. LogInv'
  <2>1. WriterReply' = reply
    BY <1>1, <1>3 DEF WriterReply
  <2>2. \A c \in Clients : Heard(c, {"committed"})' => \E i \in DOMAIN log' : log'[i] = client'[c].reply
    BY <1>2, <1>6, <1>8 DEF LogInv
  <2>3. QED
    BY <1>3, <1>8, <2>1, <2>2 DEF LogInv, Parsed
<1>13. QED
  BY <1>7, <1>9, <1>10, <1>11, <1>12

LEMMA CommitKeeps ==
  ASSUME NullsAreNoStates, RepositoryInv, Commit
  PROVE  RepositoryInv'
  BY WriteFailedKeeps, WrittenKeeps, WrittenReconcilesKeeps

\* The answer that is handled was the only thing its reader waited for.
LEMMA HeadHandled ==
  ASSUME ShapeInv, FlightInv, NEW p, Answered(p), answers' = Tail(answers)
  PROVE  /\ IsSeq(answers') /\ p \in Processes /\ Head(answers).who = p
         /\ Told(p, Head(answers), 1) /\ 1 \in DOMAIN answers
         /\ \A i \in DOMAIN answers' : /\ i \in Nat /\ i + 1 \in DOMAIN answers
                                       /\ answers'[i] = answers[i + 1] /\ answers'[i].who # p
         /\ \A i, j \in DOMAIN answers' : answers'[i].who = answers'[j].who => i = j
         /\ \A i \in DOMAIN io : io[i].who # p
         /\ answers # <<>> /\ Len(answers') = Len(answers) - 1 /\ Len(answers) \in Nat
<1>1. /\ answers # <<>> /\ IsSeq(answers) /\ Head(answers).who = p
  BY DEF Answered, ShapeInv
<1>2. /\ IsSeq(answers') /\ Len(answers') = Len(answers) - 1 /\ Len(answers) \in Nat \ {0}
      /\ DOMAIN answers' = 1 .. Len(answers) - 1 /\ Head(answers) = answers[1]
      /\ DOMAIN answers = 1 .. Len(answers)
      /\ \A i \in 1 .. Len(answers) - 1 : answers'[i] = answers[i + 1]
  BY <1>1, SeqTail, SeqFacts
<1>3. /\ 1 \in DOMAIN answers
      /\ \A i \in DOMAIN answers' : /\ i \in Nat /\ i + 1 \in DOMAIN answers /\ i + 1 # 1
                                    /\ answers'[i] = answers[i + 1]
  BY <1>2
<1>4. p \in Processes /\ Told(p, Head(answers), 1)
  BY <1>1, <1>2, <1>3 DEF FlightInv
<1>5. \A i \in DOMAIN answers' : answers'[i].who # p
  BY <1>1, <1>2, <1>3 DEF FlightInv
<1>6. \A i, j \in DOMAIN answers' : answers'[i].who = answers'[j].who => i = j
  <2>1. \A i, j \in DOMAIN answers' : answers'[i].who = answers'[j].who => i + 1 = j + 1
    BY <1>3 DEF FlightInv
  <2>2. QED
    BY SMTT(30), <1>3, <2>1
<1>7. \A i \in DOMAIN io : io[i].who # p
  BY <1>1, <1>2, <1>3 DEF FlightInv
<1>8. QED
  BY <1>1, <1>2, <1>3, <1>4, <1>5, <1>6, <1>7

\* The pointer is looked at, or cleared, while nothing else happens to the state.
LEMMA ReconcileFacts ==
  ASSUME RepositoryInv, writer.at \in {"reconciling", "clearing"}
  PROVE  /\ Saving /\ mem # Absent /\ Base = disk /\ load[Writer].at = "no"
         /\ mem = disk /\ Parsed(disk) /\ IsState(disk)
         /\ \A i \in DOMAIN io : ~StateSet(io[i])
         /\ \A i \in DOMAIN io : io[i].who # Absent
         /\ \A q \in Processes :
              load[q].at \notin {"legacy", "repair", "repaired", "migrated"}
         /\ \E i \in DOMAIN log : log[i] = WriterReply
<1> USE DEF RepositoryInv
<1>1. Saving /\ mem # Absent /\ Base = disk /\ mem = disk /\ Parsed(disk) /\ IsState(disk)
  BY DEF Saving, MemInv, Base
<1>2. load[Writer].at = "no"
  BY DEF LoadInv, Processes
<1>3. \A i \in DOMAIN io : ~StateSet(io[i])
  BY <1>1, NoWritePending
<1>4. \A i \in DOMAIN io : io[i].who # Absent
  BY <1>1 DEF FlightInv, OrphanAt
<1>5. \A q \in Processes : load[q].at \notin {"legacy", "repair", "repaired", "migrated"}
  BY <1>1 DEF LoadInv, Exclusive
<1>6. \E i \in DOMAIN log : log[i] = WriterReply
  BY DEF LogInv
<1>7. QED
  BY <1>1, <1>2, <1>3, <1>4, <1>5, <1>6

LEMMA ReconciledKeeps ==
  ASSUME RepositoryInv, writer.at \in {"reconciling", "clearing"}, Answered(Writer),
         answers' = Tail(answers), writer' = Idle, Answer(writer.command, WriterReply),
         UNCHANGED <<disk, legacy, mem, io, load, queue, sent, log>>
  PROVE  RepositoryInv'
<1> USE DEF RepositoryInv
<1>1. PICK command, reply : command = writer.command /\ reply = WriterReply
  OBVIOUS
<1>2. writer'.at = "idle" /\ DOMAIN Idle = {"at", "command", "current", "candidate"}
  BY DEF Idle
<1>3. /\ Saving /\ mem # Absent /\ Base = disk /\ load[Writer].at = "no"
      /\ mem = disk /\ Parsed(disk) /\ IsState(disk)
      /\ \A i \in DOMAIN io : io[i].who # Absent
      /\ \A q \in Processes : load[q].at \notin {"legacy", "repair", "repaired", "migrated"}
      /\ \E i \in DOMAIN log : log[i] = reply
  BY <1>1, ReconcileFacts
<1>4. /\ IsSeq(answers')
      /\ \A i \in DOMAIN answers' : /\ i \in Nat /\ i + 1 \in DOMAIN answers
                                    /\ answers'[i] = answers[i + 1] /\ answers'[i].who # Writer
      /\ \A i, j \in DOMAIN answers' : answers'[i].who = answers'[j].who => i = j
      /\ \A i \in DOMAIN io : io[i].who # Writer
  BY HeadHandled
<1>5. Base' = disk
  BY <1>2 DEF Base
<1>6. /\ SentInv' /\ QueueInv'
      /\ DOMAIN client' = Clients
      /\ \A c \in Clients : /\ DOMAIN client'[c] = {"at", "attempt", "read", "reply"}
                            /\ client'[c].at \in {"idle", "reading", "read", "dispatched",
                                                  "answered", "done"}
                            /\ client[c].at = "reading" => client'[c] = client[c]
                            /\ \/ client'[c] = client[c]
                               \/ client'[c].at = "answered" /\ client'[c].reply = reply
  <2>1. reply.kind \notin {"revision-conflict", "mutation-rejected", "no-change"}
    BY <1>1 DEF WriterReply, Committed
  <2>2. UNCHANGED <<disk, io, sent, queue>> /\ writer.at # "idle" /\ Answer(command, reply)
    BY <1>1
  <2>3. QED
    BY <1>1, <1>2, <2>1, <2>2, AnswerMoves
<1>7. ShapeInv'
  BY <1>2, <1>4, <1>6 DEF ShapeInv
<1>8. FlightInv'
  <2>1. \A p \in Processes : p # Writer => \A x : Asked(p, x) => Asked(p, x)'
    BY <1>3 DEF Asked, StateSet
  <2>2. \A p \in Processes : p # Writer => \A x, i, j : Told(p, x, i) => Told(p, x, j)'
    BY <1>3, <1>5 DEF Told
  <2>3. \A i \in DOMAIN io : \E x : /\ x = io[i] /\ x.who \in Processes /\ x.who # Absent
                                    /\ Asked(x.who, x)'
    BY <1>3, <1>4, <2>1 DEF FlightInv
  <2>4. (\A i \in DOMAIN io : /\ io[i].who \in Processes /\ io[i].who # Absent
                              /\ Asked(io[i].who, io[i]))'
    BY <2>3
  <2>5. PICK q : q = answers'
    OBVIOUS
  <2>6. \A i \in DOMAIN answers : answers[i].who \in Processes
                                  /\ Told(answers[i].who, answers[i], i)
    BY DEF FlightInv
  <2>7. \A i \in DOMAIN q : \E x : /\ x = q[i] /\ x.who \in Processes
                                   /\ Told(x.who, x, i)'
    <3>1. \A i \in DOMAIN q : /\ i + 1 \in DOMAIN answers /\ q[i] = answers[i + 1]
                              /\ q[i].who # Writer
      BY <1>4, <2>5
    <3>2. \A i \in DOMAIN q : q[i].who \in Processes /\ Told(q[i].who, q[i], i + 1)
      BY <2>6, <3>1
    <3>3. QED
      BY <2>2, <3>1, <3>2
  <2>8. (\A i \in DOMAIN answers : answers[i].who \in Processes
                                   /\ Told(answers[i].who, answers[i], i))'
    BY <2>5, <2>7
  <2>9. \A i \in DOMAIN io', j \in DOMAIN answers' : io'[i].who # answers'[j].who
    BY <1>4 DEF FlightInv
  <2>10. QED
    BY <1>4, <2>4, <2>8, <2>9 DEF FlightInv
<1>9. WriteInv'
  BY DEF WriteInv, StateSet, Follows
<1>10. LoadInv'
  <2>1. \A q \in Clients : load[q].at # "no" => client'[q].at = "reading"
    BY <1>6 DEF LoadInv, Processes
  <2>2. QED
    BY <1>3, <1>5, <2>1 DEF LoadInv, Exclusive, Old, Parsed, NeedsRepair
<1>11. MemInv'
  BY <1>2, <1>3, <1>5 DEF MemInv
<1>12. LogInv'
  <2>1. \A c \in Clients : Heard(c, {"committed"})' =>
          \/ Heard(c, {"committed"}) /\ client'[c] = client[c]
          \/ client'[c].reply = reply
    BY <1>6 DEF Heard
  <2>2. \A c \in Clients : Heard(c, {"committed"})' => \E i \in DOMAIN log : log[i] = client'[c].reply
    BY <1>3, <2>1 DEF LogInv
  <2>3. QED
    BY <1>2, <1>3, <1>5, <2>2 DEF LogInv, AppliedOnce
<1>13. QED
  BY <1>6, <1>7, <1>8, <1>9, <1>10, <1>11, <1>12

LEMMA DanglesKeeps ==
  ASSUME RepositoryInv, writer.at = "reconciling", Answered(Writer),
         answers' = Tail(answers), writer' = [writer EXCEPT !.at = "clearing"],
         NEW r, r = SetPointer(Writer, NoPointer), io' = Append(io, r),
         UNCHANGED <<disk, legacy, mem, client, load, queue, sent, log>>
  PROVE  RepositoryInv'
<1> USE DEF RepositoryInv
<1>1. DOMAIN writer = {"at", "command", "current", "candidate"}
  BY DEF ShapeInv
<1>2. /\ writer'.at = "clearing" /\ writer'.command = writer.command
      /\ writer'.candidate = writer.candidate /\ DOMAIN writer' = DOMAIN writer
      /\ r.who = Writer /\ r.op = "set" /\ r.key = "transient" /\ ~StateSet(r)
      /\ DOMAIN r = {"who", "op", "key", "value"}
  BY <1>1 DEF SetPointer, Set, StateSet
<1>3. /\ Saving /\ mem # Absent /\ Base = disk /\ load[Writer].at = "no"
      /\ mem = disk /\ Parsed(disk) /\ IsState(disk)
      /\ \A i \in DOMAIN io : ~StateSet(io[i])
      /\ \A i \in DOMAIN io : io[i].who # Absent
      /\ \A q \in Processes : load[q].at \notin {"legacy", "repair", "repaired", "migrated"}
      /\ \E i \in DOMAIN log : log[i] = WriterReply
  BY ReconcileFacts
<1>4. /\ IsSeq(answers')
      /\ \A i \in DOMAIN answers' : /\ i \in Nat /\ i + 1 \in DOMAIN answers
                                    /\ answers'[i] = answers[i + 1] /\ answers'[i].who # Writer
      /\ \A i, j \in DOMAIN answers' : answers'[i].who = answers'[j].who => i = j
      /\ \A i \in DOMAIN io : io[i].who # Writer
  BY HeadHandled
<1>5. /\ IsSeq(io') /\ DOMAIN io = 1 .. Len(io) /\ Len(io) \in Nat /\ Len(io') = Len(io) + 1
      /\ DOMAIN io' = 1 .. Len(io) + 1 /\ io'[Len(io) + 1] = r
      /\ \A i \in DOMAIN io : io'[i] = io[i]
  BY SeqAppend, SeqFacts DEF ShapeInv
<1>6. \A i \in DOMAIN io' : (i \in DOMAIN io /\ io'[i] = io[i]) \/ (i = Len(io) + 1 /\ io'[i] = r)
  BY <1>5
<1>7. Base' = disk /\ Saving'
  BY <1>2 DEF Base, Saving
<1>8. ShapeInv'
  <2>1. \A i \in DOMAIN io' : DOMAIN io'[i] = {"who", "op", "key", "value"}
    BY <1>2, <1>6 DEF ShapeInv
  <2>2. QED
    BY <1>2, <1>4, <1>5, <2>1 DEF ShapeInv
<1>9. FlightInv'
  <2>1. \A p \in Processes : p # Writer => \A x : Asked(p, x) => Asked(p, x)'
    BY <1>3 DEF Asked, StateSet
  <2>2. \A p \in Processes : p # Writer => \A x, i, j : Told(p, x, i) => Told(p, x, j)'
    BY <1>3, <1>7 DEF Told
  <2>3. Asked(Writer, r)' /\ Writer \in Processes /\ Writer # Absent
    BY <1>2, RepositoryAssumption DEF Asked, Processes, Writer
  <2>4. PICK s : s = io'
    OBVIOUS
  <2>5. \A i \in DOMAIN s : \E x : /\ x = s[i] /\ x.who \in Processes /\ x.who # Absent
                                   /\ Asked(x.who, x)'
    <3>1. \A i \in DOMAIN io : /\ io[i].who \in Processes /\ io[i].who # Absent
                               /\ io[i].who # Writer /\ Asked(io[i].who, io[i])
      BY <1>3, <1>4 DEF FlightInv
    <3>2. \A i \in DOMAIN s : \E x : x = s[i] /\ (x = r \/ \E j \in DOMAIN io : x = io[j])
      BY <1>6, <2>4
    <3>3. QED
      BY <1>2, <2>1, <2>3, <3>1, <3>2
  <2>6. (\A i \in DOMAIN io : /\ io[i].who \in Processes /\ io[i].who # Absent
                              /\ Asked(io[i].who, io[i]))'
    BY <2>4, <2>5
  <2>7. PICK q : q = answers'
    OBVIOUS
  <2>8. \A i \in DOMAIN answers : answers[i].who \in Processes
                                  /\ Told(answers[i].who, answers[i], i)
    BY DEF FlightInv
  <2>9. \A i \in DOMAIN q : \E x : /\ x = q[i] /\ x.who \in Processes
                                   /\ Told(x.who, x, i)'
    <3>1. \A i \in DOMAIN q : /\ i + 1 \in DOMAIN answers /\ q[i] = answers[i + 1]
                              /\ q[i].who # Writer
      BY <1>4, <2>7
    <3>2. \A i \in DOMAIN q : q[i].who \in Processes /\ Told(q[i].who, q[i], i + 1)
      BY <2>8, <3>1
    <3>3. QED
      BY <2>2, <3>1, <3>2
  <2>10. (\A i \in DOMAIN answers : answers[i].who \in Processes
                                    /\ Told(answers[i].who, answers[i], i))'
    BY <2>7, <2>9
  <2>11. \A i \in DOMAIN io', j \in DOMAIN answers' : io'[i].who # answers'[j].who
    BY <1>2, <1>4, <1>6 DEF FlightInv
  <2>12. \A i, j \in DOMAIN io' : io'[i].who = io'[j].who => i = j
    BY <1>2, <1>3, <1>4, <1>6 DEF FlightInv
  <2>13. QED
    BY <1>4, <2>6, <2>10, <2>11, <2>12 DEF FlightInv
<1>10. WriteInv'
  BY <1>2, <1>3, <1>6 DEF WriteInv, StateSet
<1>11. LoadInv'
  BY <1>3, <1>7 DEF LoadInv, Exclusive, Old, Parsed, NeedsRepair
<1>12. MemInv'
  BY <1>2, <1>3, <1>7 DEF MemInv
<1>13. /\ \A c : Untouched(c)' <=> Untouched(c)
       /\ \A c : \A kinds : Heard(c, kinds)' <=> Heard(c, kinds)
  BY DEF Untouched, Heard
<1>14. SentInv'
  <2>1. ASSUME NEW state, Clean(state)
        PROVE  Clean(state)'
    BY <1>2, <1>3, <1>7, <1>13, <2>1 DEF Clean
  <2>2. (\A i \in DOMAIN io : ~StateSet(io[i]))'
    BY <1>2, <1>3, <1>6 DEF StateSet
  <2>3. \A x \in sent : Spent(x)' <=> Spent(x)
    BY <1>13 DEF Spent
  <2>4. QED
    BY <1>2, <1>13, <2>1, <2>2, <2>3 DEF SentInv
<1>15. QueueInv'
  BY <1>2, <1>3, <1>7, <1>13 DEF QueueInv
<1>16. LogInv'
  <2>1. WriterReply' = WriterReply
    BY <1>2 DEF WriterReply
  <2>2. QED
    BY <1>3, <1>7, <1>13, <2>1 DEF LogInv, AppliedOnce
<1>17. QED
  BY <1>8, <1>9, <1>10, <1>11, <1>12, <1>14, <1>15, <1>16

LEMMA ReconcileKeeps ==
  ASSUME RepositoryInv, Reconcile
  PROVE  RepositoryInv'
<1>1. /\ writer.at \in {"reconciling", "clearing"} /\ Answered(Writer) /\ answers' = Tail(answers)
      /\ UNCHANGED <<disk, legacy, mem, load, queue, sent, log>>
  BY DEF Reconcile, storage
<1>2. \/ /\ writer.at = "reconciling" /\ writer' = [writer EXCEPT !.at = "clearing"]
         /\ io' = Append(io, SetPointer(Writer, NoPointer)) /\ UNCHANGED client
      \/ writer' = Idle /\ Answer(writer.command, WriterReply) /\ UNCHANGED io
  BY DEF Reconcile
<1>3. QED
  BY <1>1, <1>2, DanglesKeeps, ReconciledKeeps

\* What a load learns when storage answers it.
LEMMA LoadAnswered ==
  ASSUME RepositoryInv, NEW p \in Processes, Answered(p), load[p].at \in LoadStages,
         NEW a, a = Head(answers)
  PROVE  /\ \A i \in DOMAIN io : io[i].who # Absent
         /\ writer.at = "writing" => load[p].at = "state"
         /\ p = Writer => writer.at = "starting"
         /\ load[p].at = "state" => a.value = Base
         /\ load[p].at \in {"legacy", "repair", "repaired", "migrated"} =>
              mem = Absent /\ Base = disk /\ writer.at \in {"idle", "starting"}
         /\ load[p].at = "repaired" =>
              disk = (IF a.ok THEN Repaired(load[p].state) ELSE load[p].state)
         /\ load[p].at = "migrated" => disk = (IF a.ok THEN NewState(legacy) ELSE Absent)
         /\ \A q \in Processes : q # p =>
              load[q].at \notin {"legacy", "repair", "repaired", "migrated"}
         /\ Old(Base) => Exclusive(p)
<1> USE DEF RepositoryInv
<1>1. /\ answers # <<>> /\ 1 \in DOMAIN answers /\ a = answers[1] /\ a.who = p /\ Told(p, a, 1)
      /\ DOMAIN answers = 1 .. Len(answers) /\ Len(answers) \in Nat
  <2>1. answers # <<>> /\ IsSeq(answers) /\ a.who = p
    BY DEF Answered, ShapeInv
  <2>2. /\ a = answers[1] /\ 1 \in DOMAIN answers
        /\ DOMAIN answers = 1 .. Len(answers) /\ Len(answers) \in Nat
    BY <2>1, SeqTail, SeqFacts
  <2>3. QED
    BY <2>1, <2>2 DEF FlightInv
<1>2. p = Writer => writer.at = "starting"
  BY DEF LoadInv, LoadStages
<1>3. \A i \in DOMAIN io : io[i].who # Absent
  BY <1>1 DEF FlightInv, OrphanAt
<1>4. load[p].at \in {"legacy", "repair", "repaired", "migrated"} => mem = Absent
  BY DEF LoadInv, Exclusive
<1>5. mem = Absent => writer.at \in {"idle", "starting"} /\ Base = disk
  BY DEF MemInv, Base
<1>6. /\ load[p].at = "state" => a.value = Base
      /\ load[p].at = "repaired" =>
           disk = (IF a.ok THEN Repaired(load[p].state) ELSE load[p].state)
      /\ load[p].at = "migrated" => disk = (IF a.ok THEN NewState(legacy) ELSE Absent)
  BY <1>1, <1>2 DEF Told
<1>7. Old(Base) => Exclusive(p)
  BY DEF LoadInv
<1>8. ASSUME NEW q \in Processes, q # p, load[q].at \in {"legacy", "repair", "repaired", "migrated"}
      PROVE  FALSE
  <2>1. CASE load[q].at \in {"legacy", "repair"}
    <3>1. load[p] = NotLoading
      BY <1>8, <2>1 DEF LoadInv, Exclusive
    <3>2. QED
      BY <3>1 DEF NotLoading, LoadStages
  <2>2. CASE load[q].at \in {"repaired", "migrated"}
    <3>1. mem = Absent
      BY <2>2 DEF LoadInv
    <3>2. Base = disk /\ writer.at \in {"idle", "starting"}
      BY <1>5, <3>1
    <3>3. ASSUME NEW i \in DOMAIN answers, answers[i].who = q
          PROVE  FALSE
      <4>1. Told(q, answers[i], i)
        BY <3>3 DEF FlightInv
      <4>2. i = 1
        BY <2>2, <3>2, <4>1 DEF Told
      <4>3. QED
        BY <1>1, <1>8, <3>3, <4>2
    <3>4. ASSUME NEW i \in DOMAIN io, io[i].who = q
          PROVE  FALSE
      <4>1. Asked(q, io[i])
        BY <1>3, <3>4 DEF FlightInv
      <4>2. \/ load[q].at = "repaired" /\ disk = load[q].state
            \/ load[q].at = "migrated" /\ disk = Absent
        BY <2>2, <3>2, <4>1 DEF Asked
      <4>3. Old(disk)
        BY <4>2 DEF LoadInv, Old
      <4>4. load[q] = NotLoading
        BY <1>7, <1>8, <3>2, <4>3 DEF Exclusive
      <4>5. QED
        BY <2>2, <4>4 DEF NotLoading
    <3>5. QED
      BY <2>2, <3>3, <3>4 DEF LoadInv
  <2>3. QED
    BY <1>8, <2>1, <2>2
<1>9. writer.at = "writing" => load[p].at = "state"
  BY <1>4, <1>5 DEF LoadStages
<1>10. QED
  BY <1>2, <1>3, <1>4, <1>5, <1>6, <1>7, <1>8, <1>9

\* The load of p is over: it threw, or what storage holds is the state.
LEMMA LoadEnds ==
  ASSUME NullsAreNoStates, RepositoryInv, NEW p \in Processes, Answered(p),
         load[p].at \in LoadStages, answers' = Tail(answers), NEW l, DOMAIN l = {"at", "state"},
         load' = [load EXCEPT ![p] = l],
         \/ l.at = "done" /\ Parsed(Base) /\ l.state = Base /\ mem' = Base
         \/ l.at = "threw" /\ mem' = mem,
         UNCHANGED <<disk, legacy, io, writer, queue, client, sent, log>>
  PROVE  RepositoryInv'
<1> USE DEF RepositoryInv
<1>1. PICK a : a = Head(answers)
  OBVIOUS
<1>2. /\ \A i \in DOMAIN io : io[i].who # Absent
      /\ p = Writer => writer.at = "starting"
      /\ \A q \in Processes : q # p => load[q].at \notin {"legacy", "repair", "repaired", "migrated"}
      /\ Old(Base) => Exclusive(p)
  BY <1>1, LoadAnswered
<1>3. /\ IsSeq(answers') /\ \A i \in DOMAIN io : io[i].who # p
      /\ \A i \in DOMAIN answers' : /\ i \in Nat /\ i + 1 \in DOMAIN answers
                                    /\ answers'[i] = answers[i + 1] /\ answers'[i].who # p
      /\ \A i, j \in DOMAIN answers' : answers'[i].who = answers'[j].who => i = j
      /\ Len(answers') = Len(answers) - 1 /\ Len(answers) \in Nat
  BY HeadHandled
<1>4. /\ DOMAIN load = Processes /\ load'[p] = l /\ DOMAIN load' = Processes
      /\ \A q \in Processes : q # p => load'[q] = load[q]
  BY DEF ShapeInv
<1>5. Base' = Base /\ Saving' = Saving
  BY DEF Base, Saving
<1>6. Parsed(Base) => IsState(Base) /\ Base.revision \in Nat
  BY BaseBehind DEF IsState
<1>7. /\ mem # Absent => mem = Base /\ Parsed(Base) /\ mem' = mem
      /\ mem' # Absent => mem' = Base /\ Parsed(Base)
  BY <1>5 DEF MemInv
<1>8. ShapeInv'
  BY <1>3, <1>4 DEF ShapeInv
<1>9. FlightInv'
  <2>1. \A state : Repaired(state)' = Repaired(state)
    BY DEF Repaired
  <2>2. \A q \in Processes : q # p => \A x : Asked(q, x) => Asked(q, x)'
    BY <1>2, <1>4, <2>1 DEF Asked, StateSet
  <2>3. \A q \in Processes : q # p => \A x : \A i \in DOMAIN answers' :
          Told(q, x, i + 1) => Told(q, x, i)'
    BY <1>2, <1>3, <1>4, <1>5, <2>1 DEF Told
  <2>4. \A i \in DOMAIN io : \E x : /\ x = io[i] /\ x.who \in Processes /\ x.who # Absent
                                    /\ Asked(x.who, x)'
    BY <1>2, <1>3, <2>2 DEF FlightInv
  <2>5. (\A i \in DOMAIN io : /\ io[i].who \in Processes /\ io[i].who # Absent
                              /\ Asked(io[i].who, io[i]))'
    BY <2>4
  <2>6. PICK q : q = answers'
    OBVIOUS
  <2>7. \A i \in DOMAIN answers : answers[i].who \in Processes
                                  /\ Told(answers[i].who, answers[i], i)
    BY DEF FlightInv
  <2>8. \A i \in DOMAIN q : \E x : /\ x = q[i] /\ x.who \in Processes
                                   /\ Told(x.who, x, i)'
    <3>1. \A i \in DOMAIN q : /\ i + 1 \in DOMAIN answers /\ q[i] = answers[i + 1]
                              /\ q[i].who # p /\ i \in DOMAIN answers'
      BY <1>3, <2>6
    <3>2. \A i \in DOMAIN q : q[i].who \in Processes /\ Told(q[i].who, q[i], i + 1)
      BY <2>7, <3>1
    <3>3. QED
      BY <2>3, <3>1, <3>2
  <2>9. (\A i \in DOMAIN answers : answers[i].who \in Processes
                                   /\ Told(answers[i].who, answers[i], i))'
    BY <2>6, <2>8
  <2>10. \A i \in DOMAIN io', j \in DOMAIN answers' : io'[i].who # answers'[j].who
    BY <1>3 DEF FlightInv
  <2>11. QED
    BY <1>3, <2>5, <2>9, <2>10 DEF FlightInv
<1>10. WriteInv'
  BY DEF WriteInv, StateSet, Follows
<1>11. LoadInv'
  <2>1. \A q \in Processes : load'[q].at \notin {"legacy", "repair", "repaired", "migrated"}
    BY <1>2, <1>4
  <2>2. \A q \in Processes : ~(load'[q].at \in LoadStages /\ Old(Base))
    BY <1>2, <1>4 DEF Exclusive, NotLoading, LoadStages
  <2>3. Old(Base)' <=> Old(Base)
    BY <1>5 DEF Old
  <2>4. \A q \in Processes : load'[q].at = "done" =>
          /\ Parsed(Base) /\ load'[q].state.revision \in Nat
          /\ load'[q].state.revision <= Base.revision
    BY <1>4, <1>6 DEF LoadInv
  <2>5. load'[Writer].at = "done" => mem' # Absent /\ load'[Writer].state = mem'
    BY <1>4, <1>7 DEF LoadInv, Processes, Parsed
  <2>6. /\ load'[Writer].at # "no" => writer.at = "starting"
        /\ \A q \in Clients : load'[q].at # "no" => client[q].at = "reading"
    BY <1>2, <1>4 DEF LoadInv, Processes, LoadStages
  <2>7. QED
    BY <1>5, <2>1, <2>2, <2>3, <2>4, <2>5, <2>6 DEF LoadInv, Parsed
<1>12. MemInv'
  <2>1. mem' # Absent => mem' = Base' /\ Parsed(mem') /\ IsState(mem')
    BY <1>5, <1>6, <1>7 DEF Parsed
  <2>2. \A state, command : Verdict(state, command)' = Verdict(state, command)
    BY DEF Verdict
  <2>3. QED
    BY <1>7, <2>1, <2>2 DEF MemInv, Parsed
<1>13. /\ \A c : Untouched(c)' <=> Untouched(c)
       /\ \A c : \A kinds : Heard(c, kinds)' <=> Heard(c, kinds)
  BY DEF Untouched, Heard
<1>14. SentInv'
  <2>1. ASSUME NEW state, Clean(state)
        PROVE  Clean(state)'
    BY <1>5, <1>13, <2>1 DEF Clean
  <2>2. \A x \in sent : Spent(x)' <=> Spent(x)
    BY <1>13 DEF Spent
  <2>3. QED
    BY <1>13, <2>1, <2>2 DEF SentInv, StateSet
<1>15. QueueInv'
  BY <1>5, <1>13 DEF QueueInv
<1>16. LogInv'
  BY <1>5, <1>13 DEF LogInv, AppliedOnce, WriterReply, Parsed
<1>17. QED
  BY <1>8, <1>9, <1>10, <1>11, <1>12, <1>14, <1>15, <1>16

\* The load of p goes on alone: it reads the legacy data, or writes what it made.
LEMMA LoadGoesOn ==
  ASSUME NullsAreNoStates, RepositoryInv, NEW p \in Processes, Answered(p),
         load[p].at \in LoadStages, Exclusive(p), answers' = Tail(answers),
         NEW l, DOMAIN l = {"at", "state"}, load' = [load EXCEPT ![p] = l],
         NEW r, DOMAIN r = {"who", "op", "key", "value"}, r.who = p, io' = Append(io, r),
         \/ l.at = "legacy" /\ disk = Absent /\ r.op = "get" /\ r.key = "legacy"
         \/ /\ l.at = "repair" /\ l.state = disk /\ Parsed(disk) /\ NeedsRepair(disk)
            /\ r.op = "get" /\ r.key = "legacy"
         \/ /\ l.at = "repaired" /\ l.state = disk /\ Parsed(disk) /\ NeedsRepair(disk)
            /\ StateSet(r) /\ r.value = Repaired(disk)
         \/ l.at = "migrated" /\ disk = Absent /\ StateSet(r) /\ r.value = NewState(legacy),
         UNCHANGED <<disk, legacy, mem, writer, queue, client, sent, log>>
  PROVE  RepositoryInv'
<1> USE DEF RepositoryInv
<1>1. PICK a : a = Head(answers)
  OBVIOUS
<1>2. /\ \A i \in DOMAIN io : io[i].who # Absent
      /\ p = Writer => writer.at = "starting"
  BY <1>1, LoadAnswered
<1>3. /\ mem = Absent /\ \A q \in Processes : q # p => load[q].at = "no" /\ load[q] = NotLoading
  BY DEF Exclusive, NotLoading
<1>4. writer.at \in {"idle", "starting"} /\ Base = disk /\ Base' = disk /\ ~Saving /\ ~Saving'
  <2>1. writer.at \in {"idle", "starting"}
    BY <1>3 DEF MemInv
  <2>2. QED
    BY <2>1 DEF Base, Saving
<1>5. /\ IsSeq(answers') /\ \A i \in DOMAIN io : io[i].who # p
      /\ \A i \in DOMAIN answers' : /\ i \in Nat /\ i + 1 \in DOMAIN answers
                                    /\ answers'[i] = answers[i + 1] /\ answers'[i].who # p
  BY HeadHandled
<1>6. /\ DOMAIN load = Processes /\ load'[p] = l /\ DOMAIN load' = Processes
      /\ \A q \in Processes : q # p => load'[q] = NotLoading /\ load'[q].at = "no"
  BY <1>3 DEF ShapeInv
<1>7. DOMAIN io = {} /\ DOMAIN answers' = {}
  <2>1. \A q \in Processes : q # p => /\ \A x : ~Asked(q, x)
                                      /\ \A x, i : ~Told(q, x, i)
    BY <1>3, <1>4 DEF Asked, Told
  <2>2. \A i \in DOMAIN io : FALSE
    BY <1>2, <1>5, <2>1 DEF FlightInv
  <2>3. \A i \in DOMAIN answers' : FALSE
    BY <1>5, <2>1 DEF FlightInv
  <2>4. QED
    BY <2>2, <2>3
<1>8. IsSeq(io') /\ DOMAIN io' = {1} /\ io'[1] = r /\ Len(io') = 1
  <2>1. PICK s : s = io
    OBVIOUS
  <2>2. IsSeq(s) /\ Len(s) = 0 /\ 1 .. 0 + 1 = {1}
    <3>1. IsSeq(s) /\ DOMAIN s = {}
      BY <1>7, <2>1 DEF ShapeInv
    <3>2. DOMAIN s = 1 .. Len(s) /\ Len(s) \in Nat
      BY <3>1, SeqFacts
    <3>3. 1 \in 1 .. Len(s) \/ Len(s) = 0
      BY <3>2
    <3>4. QED
      BY <3>1, <3>2, <3>3
  <2>3. /\ IsSeq(Append(s, r)) /\ DOMAIN Append(s, r) = 1 .. Len(s) + 1
        /\ Append(s, r)[Len(s) + 1] = r /\ Len(Append(s, r)) = Len(s) + 1
    BY ONLY <2>2, SeqAppend
  <2>4. QED
    BY <2>1, <2>2, <2>3
<1>9. p # Absent /\ Writer \in Processes /\ Clients \subseteq Processes
  BY RepositoryAssumption DEF Processes, Writer
<1>10. Parsed(disk) => IsState(disk) /\ Clean(disk)
  BY DEF ShapeInv, SentInv
<1>11. StateSet(r) => Follows(disk, r.value)
  <2>1. ASSUME Parsed(disk)
        PROVE  Follows(disk, Repaired(disk))
    <3>1. IsState(disk) /\ disk # Unreadable
      BY <1>10, <2>1 DEF Parsed
    <3>2. /\ IsState(Repaired(disk)) /\ Repaired(disk).revision = disk.revision + 1
          /\ Repaired(disk).parser = Lenient /\ Repaired(disk).applied = disk.applied
      BY <3>1, RepairedIs
    <3>3. QED
      BY <3>1, <3>2 DEF Follows, IsState, Lenient, Strict
  <2>2. ASSUME disk = Absent
        PROVE  Follows(disk, NewState(legacy))
    BY <2>2, NewStateIs, RepositoryAssumption DEF Follows, Parsed
  <2>3. StateSet(r) => \/ Parsed(disk) /\ r.value = Repaired(disk)
                       \/ disk = Absent /\ r.value = NewState(legacy)
    BY DEF StateSet
  <2>4. QED
    BY <2>1, <2>2, <2>3
<1>12. StateSet(r) => Clean(r.value)
  <2>1. ASSUME Parsed(disk)
        PROVE  Clean(Repaired(disk))
    <3>1. IsState(disk) /\ Clean(disk)
      BY <1>10, <2>1
    <3>2. Repaired(disk).revision = disk.revision + 1 /\ Repaired(disk).applied = disk.applied
      BY <3>1, RepairedIs
    <3>3. \A x \in sent : x.expectedRevision \in Nat /\ disk.revision \in Nat
      BY <3>1 DEF SentInv, IsState
    <3>4. QED
      BY <3>1, <3>2, <3>3 DEF Clean
  <2>2. Clean(NewState(legacy))
    BY NewStateIs DEF Clean
  <2>3. StateSet(r) => (r.value = Repaired(disk) /\ Parsed(disk)) \/ r.value = NewState(legacy)
    BY DEF StateSet
  <2>4. QED
    BY <2>1, <2>2, <2>3
<1>13. ShapeInv'
  <2>1. l.at \in LoadStages /\ l.at # "no"
    BY DEF LoadStages
  <2>2. \A i \in DOMAIN io' : DOMAIN io'[i] = {"who", "op", "key", "value"}
    BY <1>8
  <2>3. \A q \in Processes : /\ DOMAIN load'[q] = {"at", "state"}
                             /\ load'[q].at \in LoadStages \cup {"no", "done", "threw"}
                             /\ load'[q].at = "no" => load'[q] = NotLoading
    BY <1>6, <2>1 DEF NotLoading
  <2>4. QED
    BY <1>5, <1>6, <1>8, <2>2, <2>3 DEF ShapeInv
<1>14. FlightInv'
  <2>1. \A state : Repaired(state)' = Repaired(state)
    BY DEF Repaired
  <2>2. NewState(legacy)' = NewState(legacy)
    BY DEF NewState
  <2>3. Asked(p, r)'
    BY <1>6, <2>1, <2>2 DEF Asked, StateSet
  <2>4. PICK q : q = io'
    OBVIOUS
  <2>5. \A i \in DOMAIN q : /\ q[i].who \in Processes /\ q[i].who # Absent
                            /\ Asked(q[i].who, q[i])'
    BY <1>8, <1>9, <2>3, <2>4
  <2>6. (\A i \in DOMAIN io : io[i].who \in Processes /\ io[i].who # Absent
                              /\ Asked(io[i].who, io[i]))'
    BY <2>4, <2>5
  <2>7. \A i, j \in DOMAIN io' : i = j
    BY <1>8
  <2>8. QED
    BY <1>7, <2>6, <2>7 DEF FlightInv
<1>15. WriteInv'
  <2>1. \A i \in DOMAIN io' : i = 1 /\ i = Len(io')
    BY <1>8
  <2>2. \A i \in DOMAIN io' : StateSet(io'[i]) => Follows(disk, io'[i].value)
    BY <1>8, <1>11
  <2>3. QED
    BY <2>1, <2>2 DEF WriteInv, StateSet, Follows
<1>16. LoadInv'
  <2>1. Exclusive(p)'
    BY <1>3, <1>6 DEF Exclusive
  <2>2. \E i \in DOMAIN io' : io'[i].who = p
    BY <1>8
  <2>3. Parsed(disk) => IsState(disk)
    BY <1>10
  <2>4. /\ p = Writer => writer.at = "starting"
        /\ p \in Clients => client[p].at = "reading"
    BY <1>2 DEF LoadInv, LoadStages
  <2>5. l.at \notin {"done", "no"}
    OBVIOUS
  <2>6. QED
    BY <1>3, <1>4, <1>6, <1>9, <2>1, <2>2, <2>3, <2>4, <2>5 DEF LoadInv, LoadStages, Parsed, NeedsRepair
<1>17. MemInv'
  BY <1>3, <1>4 DEF MemInv
<1>18. /\ \A c : Untouched(c)' <=> Untouched(c)
       /\ \A c : \A kinds : Heard(c, kinds)' <=> Heard(c, kinds)
  BY DEF Untouched, Heard
<1>19. SentInv'
  <2>1. ASSUME NEW state, Clean(state)
        PROVE  Clean(state)'
    BY <1>4, <1>18, <2>1 DEF Clean
  <2>2. PICK q : q = io'
    OBVIOUS
  <2>3. \A i \in DOMAIN q : StateSet(q[i]) => Clean(q[i].value)'
    BY <1>8, <1>12, <2>1, <2>2
  <2>4. (\A i \in DOMAIN io : StateSet(io[i]) => Clean(io[i].value))'
    BY <2>2, <2>3 DEF StateSet
  <2>5. \A x \in sent : Spent(x)' <=> Spent(x)
    BY <1>18 DEF Spent
  <2>6. QED
    BY <1>18, <2>1, <2>4, <2>5 DEF SentInv
<1>20. QueueInv'
  BY <1>4, <1>18 DEF QueueInv
<1>21. LogInv'
  BY <1>4, <1>18 DEF LogInv, AppliedOnce, WriterReply, Parsed
<1>22. QED
  BY <1>13, <1>14, <1>15, <1>16, <1>17, <1>19, <1>20, <1>21

LEMMA LoadStepKeeps ==
  ASSUME NullsAreNoStates, RepositoryInv, NEW p \in Processes, LoadStep(p)
  PROVE  RepositoryInv'
<1>1. PICK a, s, stage : a = Head(answers) /\ s = load[p].state /\ stage = load[p].at
  OBVIOUS
<1>2. /\ Answered(p) /\ answers' = Tail(answers)
      /\ UNCHANGED <<disk, legacy, writer, queue, client, sent, log>>
      /\ DOMAIN load = Processes /\ DOMAIN load[p] = {"at", "state"} /\ RepositoryInv
  <2>1. DOMAIN load[p] = {"at", "state"}
    BY DEF RepositoryInv, ShapeInv
  <2>2. QED
    BY <1>1, <2>1 DEF LoadStep, storage, RepositoryInv, ShapeInv
<1>3. stage \in LoadStages
  BY <1>1 DEF LoadStep, LoadStages
<1>4. /\ stage = "state" => a.value = Base
      /\ stage \in {"legacy", "repair", "repaired", "migrated"} => mem = Absent /\ Base = disk
      /\ stage = "repaired" => disk = (IF a.ok THEN Repaired(s) ELSE s)
      /\ stage = "migrated" => disk = (IF a.ok THEN NewState(legacy) ELSE Absent)
      /\ Old(Base) => Exclusive(p)
  BY <1>1, <1>2, <1>3, LoadAnswered
<1>5. /\ stage = "legacy" => disk = Absent /\ Exclusive(p)
      /\ stage = "repair" => disk = s /\ Exclusive(p)
      /\ stage \in {"repair", "repaired"} => IsState(s) /\ Parsed(s) /\ NeedsRepair(s)
      /\ mem = Absent => Base = disk
  BY <1>1, <1>2 DEF RepositoryInv, LoadInv, MemInv, Base
<1>6. ASSUME NEW v, Parsed(Base), v = Base, Loaded(p, v), UNCHANGED io
      PROVE  RepositoryInv'
  <2>1. PICK l : l = [at |-> "done", state |-> v]
    OBVIOUS
  <2>2. /\ DOMAIN l = {"at", "state"} /\ l.at = "done" /\ l.state = Base
        /\ load' = [load EXCEPT ![p] = l] /\ mem' = Base
    BY <1>6, <2>1 DEF Loaded
  <2>3. QED
    BY <1>1, <1>2, <1>3, <1>6, <2>2, LoadEnds
<1>7. ASSUME Exclusive(p), NEW l, DOMAIN l = {"at", "state"}, load' = [load EXCEPT ![p] = l],
             NEW r, DOMAIN r = {"who", "op", "key", "value"}, r.who = p, io' = Append(io, r),
             \/ l.at = "legacy" /\ disk = Absent /\ r.op = "get" /\ r.key = "legacy"
             \/ /\ l.at = "repair" /\ l.state = disk /\ Parsed(disk) /\ NeedsRepair(disk)
                /\ r.op = "get" /\ r.key = "legacy"
             \/ /\ l.at = "repaired" /\ l.state = disk /\ Parsed(disk) /\ NeedsRepair(disk)
                /\ StateSet(r) /\ r.value = Repaired(disk)
             \/ l.at = "migrated" /\ disk = Absent /\ StateSet(r) /\ r.value = NewState(legacy),
             UNCHANGED mem
      PROVE  RepositoryInv'
  BY <1>1, <1>2, <1>3, <1>7, LoadGoesOn
<1>8. CASE stage = "state" /\ Parsed(a.value) /\ ~NeedsRepair(a.value)
           /\ Loaded(p, a.value) /\ UNCHANGED io
  BY <1>4, <1>6, <1>8
<1>9. CASE stage = "state" /\ Parsed(a.value) /\ NeedsRepair(a.value)
           /\ load' = [load EXCEPT ![p] = [at |-> "repair", state |-> a.value]]
           /\ io' = Append(io, Get(p, "legacy")) /\ UNCHANGED mem
  <2>1. Exclusive(p) /\ a.value = Base
    BY <1>4, <1>9 DEF Old
  <2>2. a.value = disk
    BY <1>5, <2>1 DEF Exclusive
  <2>3. PICK l, r : l = [at |-> "repair", state |-> a.value] /\ r = Get(p, "legacy")
    OBVIOUS
  <2>4. /\ DOMAIN l = {"at", "state"} /\ l.at = "repair" /\ l.state = disk
        /\ DOMAIN r = {"who", "op", "key", "value"} /\ r.who = p
        /\ r.op = "get" /\ r.key = "legacy"
    BY <2>2, <2>3 DEF Get
  <2>5. QED
    BY <1>7, <1>9, <2>1, <2>2, <2>3, <2>4
<1>10. CASE stage = "repair" /\ load' = [load EXCEPT ![p].at = "repaired"]
            /\ io' = Append(io, Set(p, Repaired(s))) /\ UNCHANGED mem
  <2>1. PICK l, r : l = [at |-> "repaired", state |-> s] /\ r = Set(p, Repaired(s))
    OBVIOUS
  <2>2. load' = [load EXCEPT ![p] = l]
    <3>1. [load[p] EXCEPT !.at = l.at] = l
      BY <1>1, <1>2, <2>1
    <3>2. QED
      BY <1>2, <1>10, <2>1, <3>1
  <2>3. /\ DOMAIN l = {"at", "state"} /\ l.at = "repaired" /\ l.state = disk
        /\ DOMAIN r = {"who", "op", "key", "value"} /\ r.who = p
        /\ StateSet(r) /\ r.value = Repaired(disk) /\ Parsed(disk) /\ NeedsRepair(disk)
    BY <1>5, <1>10, <2>1 DEF Set, StateSet
  <2>4. QED
    BY <1>5, <1>7, <1>10, <2>1, <2>2, <2>3
<1>11. CASE stage = "repaired" /\ Loaded(p, IF a.ok THEN Repaired(s) ELSE s) /\ UNCHANGED io
  <2>1. Parsed(Repaired(s)) /\ Parsed(s)
    BY <1>5, <1>11, RepairedIs, StateIsParsed
  <2>2. QED
    BY <1>4, <1>6, <1>11, <2>1
<1>12. CASE stage = "state" /\ NothingStored(a.value) /\ load' = [load EXCEPT ![p].at = "legacy"]
            /\ io' = Append(io, Get(p, "legacy")) /\ UNCHANGED mem
  <2>1. a.value = Base /\ Base = Absent
    BY <1>4, <1>12 DEF NothingStored
  <2>2. Exclusive(p)
    BY <1>4, <2>1 DEF Old
  <2>3. disk = Absent
    BY <1>5, <2>1, <2>2 DEF Exclusive
  <2>4. PICK l, r : l = [at |-> "legacy", state |-> s] /\ r = Get(p, "legacy")
    OBVIOUS
  <2>5. load' = [load EXCEPT ![p] = l]
    <3>1. [load[p] EXCEPT !.at = l.at] = l
      BY <1>1, <1>2, <2>4
    <3>2. QED
      BY <1>2, <1>12, <2>4, <3>1
  <2>6. /\ DOMAIN l = {"at", "state"} /\ l.at = "legacy"
        /\ DOMAIN r = {"who", "op", "key", "value"} /\ r.who = p
        /\ r.op = "get" /\ r.key = "legacy"
    BY <2>4 DEF Get
  <2>7. QED
    BY <1>7, <1>12, <2>2, <2>3, <2>4, <2>5, <2>6
<1>13. CASE stage = "legacy" /\ load' = [load EXCEPT ![p].at = "migrated"]
            /\ io' = Append(io, Set(p, NewState(legacy))) /\ UNCHANGED mem
  <2>1. PICK l, r : l = [at |-> "migrated", state |-> s] /\ r = Set(p, NewState(legacy))
    OBVIOUS
  <2>2. load' = [load EXCEPT ![p] = l]
    <3>1. [load[p] EXCEPT !.at = l.at] = l
      BY <1>1, <1>2, <2>1
    <3>2. QED
      BY <1>2, <1>13, <2>1, <3>1
  <2>3. /\ DOMAIN l = {"at", "state"} /\ l.at = "migrated" /\ disk = Absent
        /\ DOMAIN r = {"who", "op", "key", "value"} /\ r.who = p
        /\ StateSet(r) /\ r.value = NewState(legacy)
    BY <1>5, <1>13, <2>1 DEF Set, StateSet
  <2>4. QED
    BY <1>5, <1>7, <1>13, <2>1, <2>2, <2>3
<1>14. CASE stage = "migrated" /\ a.ok /\ Loaded(p, NewState(legacy)) /\ UNCHANGED io
  <2>1. Parsed(NewState(legacy))
    BY NewStateIs, StateIsParsed
  <2>2. QED
    BY <1>4, <1>6, <1>14, <2>1
<1>15. CASE /\ load' = [load EXCEPT ![p] = [at |-> "threw", state |-> Absent]]
            /\ UNCHANGED <<mem, io>>
  <2>1. PICK l : l = [at |-> "threw", state |-> Absent]
    OBVIOUS
  <2>2. DOMAIN l = {"at", "state"} /\ l.at = "threw" /\ load' = [load EXCEPT ![p] = l]
    BY <1>15, <2>1
  <2>3. QED
    BY <1>1, <1>2, <1>3, <1>15, <2>2, LoadEnds
<1>16. QED
  BY <1>1, <1>8, <1>9, <1>10, <1>11, <1>12, <1>13, <1>14, <1>15 DEF LoadStep

(***************************************************************************)
(* Storage executes the oldest request.                                    *)
(***************************************************************************)

LEMMA HeadExecuted ==
  ASSUME RepositoryInv, io # <<>>, io' = Tail(io), NEW r, r = Head(io)
  PROVE  /\ IsSeq(io') /\ 1 \in DOMAIN io /\ r = io[1] /\ Len(io) \in Nat
         /\ \A i \in DOMAIN io' : /\ i \in Nat /\ i + 1 \in DOMAIN io /\ io'[i] = io[i + 1]
                                  /\ i + 1 = Len(io) => i = Len(io')
         /\ \A i \in DOMAIN io : i = 1 \/ (i - 1 \in DOMAIN io' /\ io'[i - 1] = io[i])
         /\ Len(io) = 1 => io' = <<>>
         /\ r.who = Absent => OrphanAt(1)
         /\ r.who # Absent => /\ r.who \in Processes /\ Asked(r.who, r)
                              /\ \A i \in DOMAIN io' : io'[i].who # r.who
                              /\ \A i \in DOMAIN answers : answers[i].who # r.who
         /\ StateSet(r) => /\ Follows(disk, r.value) /\ Clean(r.value)
                           /\ r.who # Absent => Len(io) = 1
                           /\ \A i \in DOMAIN io' : ~StateSet(io'[i])
<1> USE DEF RepositoryInv
<1>1. /\ IsSeq(io') /\ Len(io') = Len(io) - 1 /\ Len(io) \in Nat \ {0}
      /\ DOMAIN io' = 1 .. Len(io) - 1 /\ r = io[1]
      /\ DOMAIN io = 1 .. Len(io)
      /\ \A i \in 1 .. Len(io) - 1 : io'[i] = io[i + 1]
  BY SeqTail, SeqFacts DEF ShapeInv
<1>2. /\ 1 \in DOMAIN io
      /\ \A i \in DOMAIN io' : /\ i \in Nat /\ i + 1 \in DOMAIN io /\ io'[i] = io[i + 1]
                               /\ i + 1 = Len(io) => i = Len(io')
                               /\ i + 1 # 1
      /\ \A i \in DOMAIN io : i = 1 \/ (i - 1 \in DOMAIN io' /\ io'[i - 1] = io[i])
  <2>1. \A i \in DOMAIN io : i # 1 => i - 1 \in 1 .. Len(io) - 1 /\ (i - 1) + 1 = i
    BY <1>1
  <2>2. QED
    BY <1>1, <2>1
<1>3. Len(io) = 1 => io' = <<>>
  BY <1>1, SeqFacts
<1>4. r.who = Absent => OrphanAt(1)
  BY <1>1, <1>2 DEF FlightInv
<1>5. r.who # Absent => /\ r.who \in Processes /\ Asked(r.who, r)
                        /\ \A i \in DOMAIN io' : io'[i].who # r.who
                        /\ \A i \in DOMAIN answers : answers[i].who # r.who
  BY <1>1, <1>2 DEF FlightInv
<1>6. StateSet(r) => /\ Follows(disk, r.value) /\ Clean(r.value)
                     /\ r.who # Absent => Len(io) = 1
                     /\ \A i \in DOMAIN io' : ~StateSet(io'[i])
  BY <1>1, <1>2 DEF WriteInv, SentInv
<1>7. QED
  BY <1>1, <1>2, <1>3, <1>4, <1>5, <1>6

\* Nothing was stored by it.
LEMMA NothingStoredKeeps ==
  ASSUME RepositoryInv, io # <<>>, io' = Tail(io), IsSeq(answers'),
         UNCHANGED <<disk, legacy, mem, load, writer, queue, client, sent, log>>
  PROVE  /\ ShapeInv' /\ WriteInv' /\ MemInv' /\ SentInv' /\ QueueInv' /\ LogInv' /\ Base' = Base
<1> USE DEF RepositoryInv
<1>1. PICK r : r = Head(io)
  OBVIOUS
<1>2. /\ IsSeq(io') /\ 1 \in DOMAIN io
      /\ \A i \in DOMAIN io' : /\ i \in Nat /\ i + 1 \in DOMAIN io /\ io'[i] = io[i + 1]
                               /\ i + 1 = Len(io) => i = Len(io')
  BY <1>1, HeadExecuted
<1>3. Base' = Base
  BY DEF Base
<1>4. ShapeInv'
  <2>1. \A i \in DOMAIN io' : DOMAIN io'[i] = {"who", "op", "key", "value"}
    BY <1>2 DEF ShapeInv
  <2>2. QED
    BY <1>2, <2>1 DEF ShapeInv
<1>5. WriteInv'
  <2>1. \A i, j \in DOMAIN io' : StateSet(io'[i]) /\ StateSet(io'[j]) => i + 1 = j + 1
    BY <1>2 DEF WriteInv
  <2>2. \A i, j \in DOMAIN io' : StateSet(io'[i]) /\ StateSet(io'[j]) => i = j
    BY <1>2, <2>1
  <2>3. \A i \in DOMAIN io' : StateSet(io'[i]) =>
          /\ io'[i].who # Absent => i = Len(io')
          /\ Follows(disk, io'[i].value)
    BY <1>2 DEF WriteInv
  <2>4. QED
    BY <2>2, <2>3 DEF WriteInv, StateSet, Follows
<1>6. MemInv'
  <2>1. \A state, command : Verdict(state, command)' = Verdict(state, command)
    BY DEF Verdict
  <2>2. QED
    BY <1>3, <2>1 DEF MemInv
<1>7. /\ \A c : Untouched(c)' <=> Untouched(c)
      /\ \A c : \A kinds : Heard(c, kinds)' <=> Heard(c, kinds)
      /\ Saving' <=> Saving
  BY DEF Untouched, Heard, Saving
<1>8. SentInv'
  <2>1. ASSUME NEW state, Clean(state)
        PROVE  Clean(state)'
    BY <1>7, <2>1 DEF Clean
  <2>2. PICK q : q = io'
    OBVIOUS
  <2>3. \A i \in DOMAIN q : StateSet(q[i]) => Clean(q[i].value)
    BY <1>2, <2>2 DEF SentInv
  <2>4. \A i \in DOMAIN q : StateSet(q[i]) => Clean(q[i].value)'
    BY <2>1, <2>3
  <2>5. (\A i \in DOMAIN io : StateSet(io[i]) => Clean(io[i].value))'
    BY <2>2, <2>4 DEF StateSet
  <2>6. \A x \in sent : Spent(x)' <=> Spent(x)
    BY <1>7 DEF Spent
  <2>7. QED
    BY <1>7, <2>1, <2>5, <2>6 DEF SentInv
<1>9. QueueInv'
  BY <1>7 DEF QueueInv
<1>10. LogInv'
  BY <1>3, <1>7 DEF LogInv, AppliedOnce, WriterReply, Parsed
<1>11. QED
  BY <1>3, <1>4, <1>5, <1>6, <1>8, <1>9, <1>10

LEMMA OrphanKeeps ==
  ASSUME RepositoryInv, io # <<>>, io' = Tail(io), Head(io).who = Absent,
         UNCHANGED <<disk, legacy, answers, mem, load, writer, queue, client, sent, log>>
  PROVE  RepositoryInv'
<1> USE DEF RepositoryInv
<1>1. PICK r : r = Head(io)
  OBVIOUS
<1>2. /\ IsSeq(io') /\ 1 \in DOMAIN io /\ Len(io) \in Nat
      /\ \A i \in DOMAIN io' : /\ i \in Nat /\ i + 1 \in DOMAIN io /\ io'[i] = io[i + 1]
      /\ OrphanAt(1) /\ DOMAIN io' = 1 .. Len(io')
  BY <1>1, HeadExecuted, SeqFacts
<1>3. /\ ShapeInv' /\ WriteInv' /\ MemInv' /\ SentInv' /\ QueueInv' /\ LogInv' /\ Base' = Base
  BY NothingStoredKeeps DEF ShapeInv
<1>4. DOMAIN answers = {} /\ \A p \in Processes : load[p].at \in {"no", "state"}
  BY <1>2, SeqEmpty DEF OrphanAt
<1>5. FlightInv'
  <2>1. \A state : Repaired(state)' = Repaired(state)
    BY DEF Repaired
  <2>2. \A p \in Processes : \A x : Asked(p, x) => Asked(p, x)'
    BY <2>1 DEF Asked, StateSet
  <2>3. ASSUME NEW i \in DOMAIN io', OrphanAt(i + 1)
        PROVE  OrphanAt(i)'
    <3>1. \A j \in 1 .. i : j + 1 \in 1 .. i + 1 /\ j \in DOMAIN io'
      BY <1>2
    <3>2. \A j \in 1 .. i : io'[j].who = Absent
      BY <1>2, <2>3, <3>1 DEF OrphanAt
    <3>3. QED
      BY <2>3, <3>2 DEF OrphanAt
  <2>4. PICK q : q = io'
    OBVIOUS
  <2>5. \A i \in DOMAIN q : \E x : /\ x = q[i]
                                   /\ IF x.who = Absent THEN OrphanAt(i)'
                                      ELSE x.who \in Processes /\ Asked(x.who, x)'
    <3>1. \A i \in DOMAIN q : IF q[i].who = Absent THEN OrphanAt(i + 1)
                              ELSE q[i].who \in Processes /\ Asked(q[i].who, q[i])
      BY <1>2, <2>4 DEF FlightInv
    <3>2. QED
      BY <2>2, <2>3, <2>4, <3>1
  <2>6. (\A i \in DOMAIN io : IF io[i].who = Absent THEN OrphanAt(i)
                              ELSE io[i].who \in Processes /\ Asked(io[i].who, io[i]))'
    BY <2>4, <2>5
  <2>7. \A i, j \in DOMAIN io' : io'[i].who = io'[j].who /\ io'[i].who # Absent => i = j
    <3>1. \A i, j \in DOMAIN io' : io'[i].who = io'[j].who /\ io'[i].who # Absent => i + 1 = j + 1
      BY <1>2 DEF FlightInv
    <3>2. QED
      BY <1>2, <3>1
  <2>8. QED
    BY <1>4, <2>6, <2>7 DEF FlightInv
<1>6. LoadInv'
  BY <1>3, <1>4 DEF LoadInv, Exclusive, Old
<1>7. QED
  BY <1>3, <1>5, <1>6

\* A process is answered, and storage is as it was.
LEMMA AnsweredKeeps ==
  ASSUME RepositoryInv, io # <<>>, io' = Tail(io), NEW p \in Processes, p # Absent,
         Head(io).who = p, NEW x, x.who = p, answers' = Append(answers, x),
         NEW n, n = Len(answers) + 1, Told(p, x, n)',
         UNCHANGED <<disk, legacy, mem, load, writer, queue, client, sent, log>>
  PROVE  RepositoryInv'
<1> USE DEF RepositoryInv
<1>1. PICK r : r = Head(io)
  OBVIOUS
<1>2. /\ IsSeq(io') /\ 1 \in DOMAIN io /\ Len(io) \in Nat /\ r.who = p /\ r = io[1]
      /\ \A i \in DOMAIN io' : /\ i \in Nat /\ i + 1 \in DOMAIN io /\ io'[i] = io[i + 1]
                               /\ io'[i].who # p
      /\ \A i \in DOMAIN answers : answers[i].who # p
      /\ \A i \in DOMAIN io : i = 1 \/ (i - 1 \in DOMAIN io' /\ io'[i - 1] = io[i])
  BY <1>1, HeadExecuted
<1>3. /\ IsSeq(answers') /\ DOMAIN answers = 1 .. Len(answers) /\ Len(answers) \in Nat
      /\ DOMAIN answers' = 1 .. Len(answers) + 1 /\ answers'[Len(answers) + 1] = x
      /\ \A i \in DOMAIN answers : answers'[i] = answers[i] /\ i \in DOMAIN answers'
      /\ \A i \in DOMAIN answers' : i \in DOMAIN answers \/ i = Len(answers) + 1
  BY SeqAppend, SeqFacts DEF ShapeInv
<1>4. /\ ShapeInv' /\ WriteInv' /\ MemInv' /\ SentInv' /\ QueueInv' /\ LogInv' /\ Base' = Base
  BY <1>3, NothingStoredKeeps
<1>5. \A i \in DOMAIN io : io[i].who # Absent
  <2>1. ASSUME NEW i \in DOMAIN io, io[i].who = Absent
        PROVE  FALSE
    <3>1. OrphanAt(i)
      BY <2>1 DEF FlightInv
    <3>2. 1 \in 1 .. i
      BY <1>2, SeqFacts DEF ShapeInv
    <3>3. QED
      BY <1>2, <3>1, <3>2 DEF OrphanAt
  <2>2. QED
    BY <2>1
<1>6. FlightInv'
  <2>1. \A state : Repaired(state)' = Repaired(state)
    BY DEF Repaired
  <2>2. \A q \in Processes : \A y : Asked(q, y) => Asked(q, y)'
    BY <2>1 DEF Asked, StateSet
  <2>3. \A q \in Processes : \A y, i : Told(q, y, i) => Told(q, y, i)'
    BY <1>4, <2>1 DEF Told
  <2>4. PICK s : s = io'
    OBVIOUS
  <2>5. \A i \in DOMAIN s : \E y : /\ y = s[i] /\ y.who \in Processes /\ y.who # Absent
                                   /\ Asked(y.who, y)'
    <3>1. \A i \in DOMAIN s : /\ s[i].who \in Processes /\ s[i].who # Absent
                              /\ Asked(s[i].who, s[i])
      BY <1>2, <1>5, <2>4 DEF FlightInv
    <3>2. QED
      BY <2>2, <3>1
  <2>6. (\A i \in DOMAIN io : /\ io[i].who \in Processes /\ io[i].who # Absent
                              /\ Asked(io[i].who, io[i]))'
    BY <2>4, <2>5
  <2>7. PICK t : t = answers'
    OBVIOUS
  <2>8. \A i \in DOMAIN t : \E y : /\ y = t[i] /\ y.who \in Processes
                                   /\ Told(y.who, y, i)'
    <3>1. \A i \in DOMAIN answers : answers[i].who \in Processes
                                    /\ Told(answers[i].who, answers[i], i)
      BY DEF FlightInv
    <3>2. \A i \in DOMAIN t : i \in DOMAIN answers =>
            \E y : /\ y = t[i] /\ y.who \in Processes /\ Told(y.who, y, i)'
      BY <1>3, <2>3, <2>7, <3>1
    <3>3. QED
      BY <1>3, <2>7, <3>2
  <2>9. (\A i \in DOMAIN answers : answers[i].who \in Processes
                                   /\ Told(answers[i].who, answers[i], i))'
    BY <2>7, <2>8
  <2>10. \A i \in DOMAIN io', j \in DOMAIN answers' : io'[i].who # answers'[j].who
    BY <1>2, <1>3 DEF FlightInv
  <2>11. \A i, j \in DOMAIN io' : io'[i].who = io'[j].who => i = j
    <3>1. \A i, j \in DOMAIN io' : io'[i].who = io'[j].who => i + 1 = j + 1
      BY <1>2, <1>5 DEF FlightInv
    <3>2. QED
      BY <1>2, <3>1
  <2>12. \A i, j \in DOMAIN answers' : answers'[i].who = answers'[j].who => i = j
    BY <1>2, <1>3 DEF FlightInv
  <2>13. QED
    BY <2>6, <2>9, <2>10, <2>11, <2>12 DEF FlightInv
<1>7. LoadInv'
  <2>1. \A q \in Processes : (\E i \in DOMAIN answers : answers[i].who = q) =>
          \E i \in DOMAIN answers' : answers'[i].who = q
    BY <1>3
  <2>2. \A q \in Processes : (\E i \in DOMAIN io : io[i].who = q) =>
          \/ \E i \in DOMAIN io' : io'[i].who = q
          \/ \E i \in DOMAIN answers' : answers'[i].who = q
    <3>1. n \in DOMAIN answers' /\ answers'[n].who = p
      BY <1>3
    <3>2. \A i \in DOMAIN io : \/ io[i].who = p
                             \/ \E j \in DOMAIN io' : io'[j].who = io[i].who
      BY <1>2
    <3>3. QED
      BY <3>1, <3>2
  <2>3. \A q \in Processes : Exclusive(q)' <=> Exclusive(q)
    BY DEF Exclusive
  <2>4. Old(Base)' <=> Old(Base)
    BY <1>4 DEF Old
  <2>5. ASSUME NEW q \in Processes
        PROVE  load[q].at \in {"repaired", "migrated"} =>
                 \/ \E i \in DOMAIN io' : io'[i].who = q
                 \/ \E i \in DOMAIN answers' : answers'[i].who = q
    BY <2>1, <2>2 DEF LoadInv
  <2>6. QED
    BY <1>4, <2>3, <2>4, <2>5 DEF LoadInv
<1>8. QED
  BY <1>4, <1>6, <1>7

\* The write of a state is done: the state that follows the stored one is stored.
LEMMA StateStoredFacts ==
  ASSUME RepositoryInv, NullsAreNoStates, io # <<>>, io' = Tail(io),
         NEW r, r = Head(io), StateSet(r), disk' = r.value, IsSeq(answers'),
         UNCHANGED <<legacy, mem, load, writer, queue, client, sent, log>>
  PROVE  /\ ShapeInv' /\ WriteInv' /\ SentInv' /\ QueueInv'
         /\ Parsed(disk') /\ Follows(disk, disk') /\ (Old(disk') => Old(disk))
<1> USE DEF RepositoryInv
<1>1. /\ IsSeq(io') /\ Follows(disk, r.value) /\ Clean(r.value)
      /\ \A i \in DOMAIN io' : /\ i + 1 \in DOMAIN io /\ io'[i] = io[i + 1] /\ ~StateSet(io'[i])
  BY HeadExecuted
<1>2. PICK d : d = disk'
  OBVIOUS
<1>3. d = r.value /\ IsState(d) /\ Parsed(d) /\ Follows(disk, d) /\ Clean(d) /\ d.revision \in Nat
  BY <1>1, <1>2, StateIsParsed DEF Follows, IsState
<1>4. ShapeInv'
  <2>1. \A i \in DOMAIN io' : DOMAIN io'[i] = {"who", "op", "key", "value"}
    BY <1>1 DEF ShapeInv
  <2>2. QED
    BY <1>1, <1>2, <1>3, <2>1 DEF ShapeInv
<1>5. WriteInv'
  BY <1>1 DEF WriteInv, StateSet
<1>6. /\ \A c : Untouched(c)' <=> Untouched(c)
      /\ \A c : \A kinds : Heard(c, kinds)' <=> Heard(c, kinds)
      /\ Saving' <=> Saving
  BY DEF Untouched, Heard, Saving
<1>7. QueueInv'
  BY <1>6 DEF QueueInv
<1>8. SentInv'
  <2>1. ASSUME NEW state, Clean(state)
        PROVE  Clean(state)'
    BY <1>6, <2>1 DEF Clean
  <2>2. \A x \in sent : /\ x.operationId \in Clients /\ x.expectedRevision \in Nat
                        /\ x.expectedRevision < d.revision
    <3>1. ASSUME NEW x \in sent
          PROVE  /\ x.operationId \in Clients /\ x.expectedRevision \in Nat
                 /\ x.expectedRevision < d.revision
      <4>1. /\ x.operationId \in Clients /\ x.expectedRevision \in Nat
            /\ Parsed(disk) /\ x.expectedRevision <= disk.revision
        BY DEF SentInv
      <4>2. disk.revision \in Nat /\ disk.revision < d.revision
        BY <1>3, <4>1 DEF Follows, ShapeInv, IsState
      <4>3. QED
        BY <1>3, <4>1, <4>2
    <3>2. QED
      BY <3>1
  <2>3. \A x \in sent : Spent(x)'
    BY <1>2, <2>2 DEF Spent
  <2>4. \A c \in Clients : client[c].at = "read" =>
          client[c].read.revision \in Nat /\ client[c].read.revision <= d.revision
    <3>1. ASSUME NEW c \in Clients, client[c].at = "read"
          PROVE  client[c].read.revision \in Nat /\ client[c].read.revision <= d.revision
      <4>1. /\ Parsed(disk) /\ client[c].read.revision \in Nat
            /\ client[c].read.revision <= disk.revision
        BY <3>1 DEF SentInv
      <4>2. disk.revision \in Nat /\ disk.revision < d.revision
        BY <1>3, <4>1 DEF Follows, ShapeInv, IsState
      <4>3. QED
        BY <1>3, <4>1, <4>2
    <3>2. QED
      BY <3>1
  <2>5. Clean(d)'
    BY <1>3, <2>1
  <2>6. Clean(disk)'
    BY <1>2, <2>5 DEF Clean
  <2>7. (\A i \in DOMAIN io : StateSet(io[i]) => Clean(io[i].value))'
    BY <1>1 DEF StateSet
  <2>8. QED
    BY <1>2, <1>3, <2>2, <2>3, <2>4, <2>6, <2>7 DEF SentInv
<1>9. Old(d) => Old(disk)
  <2>1. CASE Parsed(disk)
    <3>1. disk.parser <= d.parser /\ disk.parser \in {Strict, Lenient} /\ d.parser \in {Strict, Lenient}
      BY <1>3, <2>1 DEF Follows, ShapeInv, IsState
    <3>2. QED
      BY <1>3, <2>1, <3>1 DEF Old, NeedsRepair, Parsed, Strict, Lenient
  <2>2. CASE ~Parsed(disk)
    BY <1>3, <2>2 DEF Old, Parsed, Follows
  <2>3. QED
    BY <2>1, <2>2
<1>10. QED
  BY <1>2, <1>3, <1>4, <1>5, <1>7, <1>8, <1>9

\* A request of a stopped worker stores the state.
LEMMA OrphanStores ==
  ASSUME RepositoryInv, NullsAreNoStates, io # <<>>, io' = Tail(io),
         NEW r, r = Head(io), StateSet(r), r.who = Absent, disk' = r.value,
         UNCHANGED <<legacy, answers, mem, load, writer, queue, client, sent, log>>
  PROVE  RepositoryInv'
<1> USE DEF RepositoryInv
<1>1. /\ ShapeInv' /\ WriteInv' /\ SentInv' /\ QueueInv'
      /\ Parsed(disk') /\ Follows(disk, disk') /\ (Old(disk') => Old(disk))
  <2>1. IsSeq(answers')
    BY DEF ShapeInv
  <2>2. QED
    BY <2>1, StateStoredFacts
<1>2. /\ IsSeq(io') /\ 1 \in DOMAIN io /\ OrphanAt(1) /\ DOMAIN io' = 1 .. Len(io')
      /\ \A i \in DOMAIN io' : /\ i \in Nat /\ i + 1 \in DOMAIN io /\ io'[i] = io[i + 1]
  BY HeadExecuted, SeqFacts
<1>3. PICK d : d = disk'
  OBVIOUS
<1>4. /\ answers = <<>> /\ DOMAIN answers = {} /\ mem = Absent /\ writer.at \in {"idle", "starting"}
      /\ \A p \in Processes : load[p].at \in {"no", "state"}
      /\ Base = disk /\ Base' = d
  BY <1>2, <1>3, SeqEmpty DEF OrphanAt, Base
<1>5. FlightInv'
  <2>1. \A p \in Processes : \A x : Asked(p, x) => Asked(p, x)'
    BY <1>4 DEF Asked, StateSet
  <2>2. ASSUME NEW i \in DOMAIN io', OrphanAt(i + 1)
        PROVE  OrphanAt(i)'
    <3>1. \A j \in 1 .. i : j + 1 \in 1 .. i + 1 /\ j \in DOMAIN io'
      BY <1>2
    <3>2. \A j \in 1 .. i : io'[j].who = Absent
      BY <1>2, <2>2, <3>1 DEF OrphanAt
    <3>3. QED
      BY <2>2, <3>2 DEF OrphanAt
  <2>3. PICK q : q = io'
    OBVIOUS
  <2>4. \A i \in DOMAIN q : \E x : /\ x = q[i]
                                   /\ IF x.who = Absent THEN OrphanAt(i)'
                                      ELSE x.who \in Processes /\ Asked(x.who, x)'
    <3>1. \A i \in DOMAIN q : IF q[i].who = Absent THEN OrphanAt(i + 1)
                              ELSE q[i].who \in Processes /\ Asked(q[i].who, q[i])
      BY <1>2, <2>3 DEF FlightInv
    <3>2. QED
      BY <2>1, <2>2, <2>3, <3>1
  <2>5. (\A i \in DOMAIN io : IF io[i].who = Absent THEN OrphanAt(i)
                              ELSE io[i].who \in Processes /\ Asked(io[i].who, io[i]))'
    BY <2>3, <2>4
  <2>6. \A i, j \in DOMAIN io' : io'[i].who = io'[j].who /\ io'[i].who # Absent => i = j
    <3>1. \A i, j \in DOMAIN io' : io'[i].who = io'[j].who /\ io'[i].who # Absent => i + 1 = j + 1
      BY <1>2 DEF FlightInv
    <3>2. QED
      BY <1>2, <3>1
  <2>7. QED
    BY <1>4, <2>5, <2>6 DEF FlightInv
<1>6. LoadInv'
  <2>1. \A p \in Processes : Exclusive(p)' <=> Exclusive(p)
    BY DEF Exclusive
  <2>2. Old(Base)' => Old(Base)
    BY <1>1, <1>3, <1>4 DEF Old
  <2>3. ASSUME NEW p \in Processes
        PROVE  /\ load[p].at \in LoadStages /\ Old(Base)' => Exclusive(p)'
               /\ load[p].at \in {"no", "state"}
               /\ load[Writer].at # "no" => writer.at = "starting"
               /\ p \in Clients /\ load[p].at # "no" => client[p].at = "reading"
    BY <1>4, <2>1, <2>2 DEF LoadInv
  <2>4. Writer \in Processes
    BY DEF Processes
  <2>5. QED
    BY <1>4, <2>3, <2>4 DEF LoadInv
<1>7. MemInv'
  BY <1>4 DEF MemInv
<1>8. LogInv'
  <2>1. \A c : \A kinds : Heard(c, kinds)' <=> Heard(c, kinds)
    BY DEF Heard
  <2>2. \A i \in DOMAIN log : Parsed(d) /\ log[i].operationId \in d.applied
    BY <1>1, <1>3, <1>4 DEF LogInv, Follows
  <2>3. QED
    BY <1>4, <2>1, <2>2 DEF LogInv, AppliedOnce
<1>9. QED
  BY <1>1, <1>5, <1>6, <1>7, <1>8

\* Nobody else waits for storage while a load waits for its write.
LEMMA LoadAlone ==
  ASSUME RepositoryInv, NEW p \in Processes, load[p].at \in {"repaired", "migrated"},
         NEW r, Asked(p, r), \A i \in DOMAIN answers : answers[i].who # p
  PROVE  /\ mem = Absent /\ writer.at \in {"idle", "starting"} /\ Old(disk) /\ Base = disk
         /\ \A q \in Processes : q # p => load[q] = NotLoading
         /\ answers = <<>>
<1> USE DEF RepositoryInv
<1>2. /\ mem = Absent /\ writer.at \in {"idle", "starting"}
      /\ \A q \in Processes : q # p => load[q].at \in {"no", "state"}
  BY DEF LoadInv, MemInv, ShapeInv
<1>3. Old(disk) /\ Base = disk
  BY <1>2 DEF Asked, LoadInv, Old, Base, StateSet
<1>4. \A q \in Processes : q # p => load[q] = NotLoading
  <2>1. ASSUME NEW q \in Processes, q # p, load[q].at = "state"
        PROVE  FALSE
    <3>1. Exclusive(q)
      BY <1>3, <2>1 DEF LoadInv, LoadStages
    <3>2. load[p] = NotLoading
      BY <2>1, <3>1 DEF Exclusive
    <3>3. QED
      BY <3>2 DEF NotLoading
  <2>2. QED
    BY <1>2, <2>1 DEF ShapeInv
<1>5. answers = <<>>
  <2>1. ASSUME NEW i \in DOMAIN answers
        PROVE  FALSE
    <3>1. PICK q, y : q = answers[i].who /\ y = answers[i]
      OBVIOUS
    <3>2. q \in Processes /\ Told(q, y, i) /\ q # p
      BY <3>1 DEF FlightInv
    <3>3. load[q].at = "no"
      BY <1>4, <3>2 DEF NotLoading
    <3>4. QED
      BY <1>2, <3>2, <3>3 DEF Told
  <2>2. DOMAIN answers = 1 .. Len(answers) /\ Len(answers) \in Nat
    BY SeqFacts DEF ShapeInv
  <2>3. Len(answers) = 0
    BY <2>1, <2>2
  <2>4. QED
    BY <2>3, SeqFacts DEF ShapeInv
<1>6. QED
  BY <1>2, <1>3, <1>4, <1>5

\* A load stores the repaired or the migrated state; nobody else waits for storage.
LEMMA LoadStores ==
  ASSUME RepositoryInv, NullsAreNoStates, io # <<>>, io' = Tail(io),
         NEW r, r = Head(io), StateSet(r), NEW p \in Processes, p # Absent, r.who = p,
         load[p].at \in {"repaired", "migrated"}, disk' = r.value,
         NEW x, x.who = p, x.ok = TRUE, answers' = Append(answers, x),
         UNCHANGED <<legacy, mem, load, writer, queue, client, sent, log>>
  PROVE  RepositoryInv'
<1> USE DEF RepositoryInv
<1>1. /\ 1 \in DOMAIN io /\ Asked(p, r) /\ Len(io) = 1 /\ io' = <<>>
      /\ \A i \in DOMAIN answers : answers[i].who # p
  BY HeadExecuted
<1>2. /\ mem = Absent /\ writer.at \in {"idle", "starting"}
      /\ \A q \in Processes : q # p => load[q].at \in {"no", "state"}
  BY DEF LoadInv, MemInv, ShapeInv
<1>3. /\ Old(disk) /\ Base = disk
      /\ r.value = IF load[p].at = "repaired" THEN Repaired(load[p].state) ELSE NewState(legacy)
  BY <1>1, <1>2 DEF Asked, LoadInv, Old, Base, StateSet
<1>4. answers = <<>> /\ \A q \in Processes : q # p => load[q] = NotLoading
  BY <1>1, LoadAlone
<1>6. PICK t : t = answers'
  OBVIOUS
<1>7. IsSeq(t) /\ DOMAIN t = {1} /\ t[1] = x /\ Len(t) = 1
  <2>1. PICK s : s = answers
    OBVIOUS
  <2>2. IsSeq(s) /\ Len(s) = 0 /\ t = Append(s, x)
    BY <1>4, <1>6, <2>1, SeqEmpty
  <2>3. /\ IsSeq(t) /\ Len(t) = Len(s) + 1 /\ DOMAIN t = 1 .. Len(s) + 1
        /\ t[Len(s) + 1] = x
    BY ONLY <2>2, SeqAppend
  <2>4. QED
    BY ONLY <2>2, <2>3
<1>8. /\ ShapeInv' /\ WriteInv' /\ SentInv' /\ QueueInv'
      /\ Parsed(disk') /\ Follows(disk, disk')
  BY <1>6, <1>7, StateStoredFacts
<1>9. PICK d : d = disk'
  OBVIOUS
<1>10. Base' = d
  BY <1>2, <1>9 DEF Base
<1>11. FlightInv'
  <2>1. Told(p, x, 1)'
    <3>1. \A state : Repaired(state)' = Repaired(state)
      BY DEF Repaired
    <3>2. (load[p].at = "repaired" /\ disk = Repaired(load[p].state))'
          \/ (load[p].at = "migrated" /\ disk = NewState(legacy))'
      BY <1>3, <3>1
    <3>3. QED
      BY <3>2 DEF Told
  <2>2. \A i \in DOMAIN t : i = 1 /\ t[i] = x /\ x.who \in Processes
    BY <1>7
  <2>3. (\A i \in DOMAIN answers : answers[i].who \in Processes
                                   /\ Told(answers[i].who, answers[i], i))'
    <3>1. \A i \in DOMAIN t : \E y : /\ y = t[i] /\ y.who \in Processes
                                     /\ Told(y.who, y, i)'
      BY <2>1, <2>2
    <3>2. QED
      BY <1>6, <3>1
  <2>4. DOMAIN io' = {}
    BY <1>1, SeqEmpty
  <2>5. QED
    BY <1>6, <2>2, <2>3, <2>4 DEF FlightInv
<1>12. LoadInv'
  <2>1. Exclusive(p)'
    BY <1>2, <1>4 DEF Exclusive
  <2>2. \E i \in DOMAIN t : t[i].who = p
    BY <1>7
  <2>3. ASSUME NEW q \in Processes
        PROVE  IF q = p THEN load[q].at \in {"repaired", "migrated"} ELSE load[q].at = "no"
    BY <1>4 DEF NotLoading
  <2>4. /\ load[p].at = "repaired" =>
             IsState(load[p].state) /\ Parsed(load[p].state) /\ NeedsRepair(load[p].state)
        /\ load[Writer].at # "no" => writer.at = "starting"
        /\ p \in Clients => client[p].at = "reading"
    BY DEF LoadInv
  <2>5. ASSUME NEW q \in Processes
        PROVE  /\ load[q].at = "repaired" =>
                    IsState(load[q].state) /\ Parsed(load[q].state) /\ NeedsRepair(load[q].state)
               /\ load[q].at \in LoadStages => Exclusive(q)'
               /\ load[q].at \in {"repaired", "migrated"} =>
                    /\ mem = Absent /\ \A o \in Processes : o # q => load[o].at \in {"no", "state"}
                    /\ \E i \in DOMAIN t : t[i].who = q
               /\ load[Writer].at # "no" => writer.at = "starting"
               /\ q \in Clients /\ load[q].at # "no" => client[q].at = "reading"
               /\ load[q].at \notin {"legacy", "repair", "done"}
               /\ load[Writer].at # "done"
    <3>1. Writer \in Processes
      BY DEF Processes
    <3>2. QED
      BY <1>2, <2>1, <2>2, <2>3, <2>4, <3>1 DEF LoadStages
  <2>6. QED
    BY <1>6, <2>5 DEF LoadInv
<1>13. MemInv'
  BY <1>2 DEF MemInv
<1>14. LogInv'
  <2>1. \A c : \A kinds : Heard(c, kinds)' <=> Heard(c, kinds)
    BY DEF Heard
  <2>2. \A i \in DOMAIN log : Parsed(d) /\ log[i].operationId \in d.applied
    BY <1>3, <1>8, <1>9 DEF LogInv, Follows
  <2>3. QED
    BY <1>2, <1>10, <2>1, <2>2 DEF LogInv, AppliedOnce
<1>15. QED
  BY <1>8, <1>11, <1>12, <1>13, <1>14

\* The candidate of the writer is stored: it will hear so.
LEMMA CandidateStored ==
  ASSUME RepositoryInv, NullsAreNoStates, io # <<>>, io' = Tail(io),
         NEW r, r = Head(io), StateSet(r), r.who = Writer, Writer # Absent,
         writer.at = "writing", disk' = r.value,
         NEW x, x.who = Writer, x.ok = TRUE, answers' = Append(answers, x),
         UNCHANGED <<legacy, mem, load, writer, queue, client, sent, log>>
  PROVE  RepositoryInv'
<1> USE DEF RepositoryInv
<1>1. /\ Asked(Writer, r) /\ Len(io) = 1 /\ io' = <<>> /\ DOMAIN io' = {}
      /\ \A i \in DOMAIN answers : answers[i].who # Writer
  BY HeadExecuted, SeqEmpty
<1>2. /\ mem # Absent /\ Writer \in Processes /\ load[Writer].at = "no"
      /\ \A q \in Processes : load[q].at \notin {"legacy", "repair", "repaired", "migrated"}
  BY DEF MemInv, LoadInv, Exclusive, Processes
<1>3. r.value = writer.candidate
  BY <1>1, <1>2 DEF Asked, StateSet
<1>4. /\ IsSeq(answers') /\ DOMAIN answers = 1 .. Len(answers) /\ Len(answers) \in Nat
      /\ DOMAIN answers' = 1 .. Len(answers) + 1 /\ answers'[Len(answers) + 1] = x
      /\ Len(answers') = Len(answers) + 1
      /\ \A i \in DOMAIN answers : answers'[i] = answers[i] /\ i \in DOMAIN answers'
      /\ \A i \in DOMAIN answers' : i \in DOMAIN answers \/ i = Len(answers) + 1
  BY SeqAppend, SeqFacts DEF ShapeInv
<1>5. /\ ShapeInv' /\ WriteInv' /\ SentInv' /\ QueueInv'
      /\ Parsed(disk') /\ Follows(disk, disk')
  BY <1>4, StateStoredFacts
<1>6. Base' = Base
  BY DEF Base
<1>7. FlightInv'
  <2>1. PICK t, n : t = answers' /\ n = Len(answers) + 1
    OBVIOUS
  <2>2. \A q \in Processes : \A y, i : q # Writer /\ Told(q, y, i) => Told(q, y, i)'
    BY <1>2, <1>6 DEF Told
  <2>3. Told(Writer, x, n)'
    BY <1>1, <1>3, <1>4, <2>1 DEF Told
  <2>4. \A i \in DOMAIN t : \E y : y = t[i] /\ y.who \in Processes /\ Told(y.who, y, i)'
    <3>1. \A i \in DOMAIN answers : /\ answers[i].who \in Processes /\ answers[i].who # Writer
                                    /\ Told(answers[i].who, answers[i], i)
      BY <1>1 DEF FlightInv
    <3>2. \A i \in DOMAIN answers : t[i] = answers[i]
      BY <1>4, <2>1
    <3>3. \A i \in DOMAIN answers : \E y : y = t[i] /\ y.who \in Processes /\ Told(y.who, y, i)'
      BY <2>2, <3>1, <3>2
    <3>4. t[n] = x /\ \A i \in DOMAIN t : i \in DOMAIN answers \/ i = n
      BY <1>4, <2>1
    <3>5. QED
      BY <1>2, <2>3, <3>3, <3>4
  <2>5. (\A i \in DOMAIN answers : answers[i].who \in Processes
                                   /\ Told(answers[i].who, answers[i], i))'
    BY <2>1, <2>4
  <2>6. \A i, j \in DOMAIN answers' : answers'[i].who = answers'[j].who => i = j
    BY <1>1, <1>4 DEF FlightInv
  <2>7. QED
    BY <1>1, <2>5, <2>6 DEF FlightInv
<1>8. LoadInv'
  <2>1. \A q \in Processes : Exclusive(q)' <=> Exclusive(q)
    BY DEF Exclusive
  <2>2. Old(Base)' <=> Old(Base)
    BY <1>6 DEF Old
  <2>3. QED
    BY <1>2, <1>6, <2>1, <2>2 DEF LoadInv
<1>9. MemInv'
  <2>1. \A state, command : Verdict(state, command)' = Verdict(state, command)
    BY DEF Verdict
  <2>2. QED
    BY <1>1, <1>3, <1>6, <2>1 DEF MemInv
<1>10. LogInv'
  <2>1. \A c : \A kinds : Heard(c, kinds)' <=> Heard(c, kinds)
    BY DEF Heard
  <2>2. QED
    BY <1>6, <2>1 DEF LogInv, AppliedOnce, WriterReply, Parsed
<1>11. QED
  BY <1>5, <1>7, <1>8, <1>9, <1>10

LEMMA AnswerTells ==
  ASSUME RepositoryInv, NEW r, io # <<>>, r = Head(io), NEW p \in Processes, p # Absent,
         r.who = p, io' = Tail(io), NEW x, x.who = p, NEW n, n = Len(answers) + 1,
         answers' = Append(answers, x), NEW key, key = r.key,
         \/ r.op = "get" /\ x.value = Stored(key)
         \/ r.op = "set" /\ r.key # "state"
         \/ r.op = "set" /\ x.ok = FALSE,
         UNCHANGED <<disk, legacy, mem, load, writer>>
  PROVE  Told(p, x, n)'
<1> USE DEF RepositoryInv
<1>1. /\ Asked(p, r)
      /\ StateSet(r) => Len(io) = 1 /\ io' = <<>>
      /\ \A i \in DOMAIN answers : answers[i].who # p
  BY HeadExecuted
<1>2. Len(answers') = n /\ Len(answers) \in Nat /\ (answers = <<>> => n = 1)
  BY SeqAppend, SeqFacts DEF ShapeInv
<1>3. Base' = Base /\ disk = Base
  BY DEF Base, MemInv
<1>4. CASE r.op = "get"
  <2>1. CASE load[p].at = "state" /\ r.key = "state"
    <3>1. x.value = Base
      BY <1>3, <1>4, <2>1 DEF Stored
    <3>2. QED
      BY <1>3, <2>1, <3>1 DEF Told
  <2>2. CASE load[p].at \in {"legacy", "repair"}
    BY <2>2 DEF Told
  <2>3. CASE p = Writer /\ writer.at = "reconciling"
    BY <2>3 DEF Told
  <2>4. QED
    BY <1>1, <1>4, <2>1, <2>2, <2>3 DEF Asked, StateSet
<1>5. CASE r.op = "set" /\ r.key # "state"
  BY <1>1, <1>5 DEF Asked, StateSet, Told
<1>6. CASE r.op = "set" /\ r.key = "state" /\ x.ok = FALSE
  <2>1. CASE load[p].at \in {"repaired", "migrated"}
    <3>1. answers = <<>>
      BY <1>1, <2>1, LoadAlone
    <3>2. n = 1
      BY <1>2, <3>1
    <3>3. \/ load[p].at = "repaired" /\ disk = load[p].state
          \/ load[p].at = "migrated" /\ disk = Absent
      BY <1>1, <1>6, <2>1 DEF Asked, StateSet, MemInv, LoadInv
    <3>4. QED
      BY <1>6, <3>2, <3>3 DEF Told
  <2>2. CASE p = Writer /\ writer.at = "writing"
    BY <1>1, <1>2, <1>6, <2>2 DEF Told, StateSet, MemInv
  <2>3. QED
    BY <1>1, <1>6, <2>1, <2>2 DEF Asked, StateSet
<1>7. QED
  BY <1>4, <1>5, <1>6

LEMMA ExecuteKeeps ==
  ASSUME RepositoryInv, NullsAreNoStates, Execute
  PROVE  RepositoryInv'
<1> USE DEF RepositoryInv
<1>1. PICK r : r = Head(io)
  OBVIOUS
<1>2. /\ io # <<>> /\ io' = Tail(io)
      /\ UNCHANGED <<legacy, mem, load, writer, queue, client, sent, log>>
  BY DEF Execute
<1>3. PICK ok, value :
        /\ answers' = IF r.who = Absent THEN answers
                      ELSE Append(answers, [who |-> r.who, ok |-> ok, value |-> value])
        /\ \/ r.op = "get" /\ value = Stored(r.key) /\ disk' = disk
           \/ r.op = "set" /\ ok = TRUE /\ disk' = IF r.key = "state" THEN r.value ELSE disk
           \/ r.op = "set" /\ ok = FALSE /\ disk' = disk
  BY <1>1 DEF Execute
<1>4. CASE r.who = Absent
  <2>1. CASE disk' = disk
    BY <1>1, <1>2, <1>3, <1>4, <2>1, OrphanKeeps
  <2>2. CASE StateSet(r) /\ disk' = r.value
    BY <1>1, <1>2, <1>3, <1>4, <2>2, OrphanStores
  <2>3. QED
    BY <1>3, <2>1, <2>2 DEF StateSet
<1>5. CASE r.who # Absent
  <2>1. PICK p, x : p = r.who /\ x = [who |-> r.who, ok |-> ok, value |-> value]
    OBVIOUS
  <2>2. /\ p \in Processes /\ p # Absent /\ Asked(p, r)
        /\ x.who = p /\ x.ok = ok /\ x.value = value /\ answers' = Append(answers, x)
    BY <1>1, <1>2, <1>3, <1>5, <2>1, HeadExecuted
  <2>3. CASE disk' = disk /\ (\/ r.op = "get" /\ x.value = Stored(r.key)
                              \/ r.op = "set" /\ r.key # "state"
                              \/ r.op = "set" /\ x.ok = FALSE)
    <3>1. PICK n, key : n = Len(answers) + 1 /\ key = r.key
      OBVIOUS
    <3>2. Told(p, x, n)'
      BY <1>1, <1>2, <2>1, <2>2, <2>3, <3>1, AnswerTells
    <3>3. Head(io).who = p
      BY <1>1, <2>1
    <3>4. QED
      BY <1>2, <2>2, <2>3, <3>1, <3>2, <3>3, AnsweredKeeps
  <2>4. CASE StateSet(r) /\ ok = TRUE /\ disk' = r.value
    <3>1. CASE load[p].at \in {"repaired", "migrated"}
      BY <1>1, <1>2, <2>1, <2>2, <2>4, <3>1, LoadStores
    <3>2. CASE p = Writer /\ writer.at = "writing"
      BY <1>1, <1>2, <2>1, <2>2, <2>4, <3>2, CandidateStored
    <3>3. QED
      BY <2>2, <2>4, <3>1, <3>2 DEF Asked, StateSet
  <2>5. QED
    BY <1>3, <2>2, <2>3, <2>4 DEF StateSet
<1>6. QED
  BY <1>4, <1>5

(***************************************************************************)
(* The browser stops the worker.                                           *)
(***************************************************************************)

LEMMA RestartKeeps ==
  ASSUME RepositoryInv, NullsAreNoStates, Restart
  PROVE  RepositoryInv'
<1> USE DEF RepositoryInv
<1>1. /\ mem' = Absent /\ answers' = <<>> /\ queue' = <<>> /\ writer' = Idle
      /\ io' = [i \in DOMAIN io |-> Orphan(io[i])]
      /\ load' = [p \in Processes |-> NotLoading]
      /\ UNCHANGED <<disk, legacy, sent, log>>
  BY DEF Restart, storage
<1>2. /\ writer'.at = "idle" /\ Base' = disk /\ ~Saving'
      /\ DOMAIN writer' = {"at", "command", "current", "candidate"}
      /\ IsSeq(answers') /\ DOMAIN answers' = {} /\ IsSeq(queue') /\ DOMAIN queue' = {}
  BY <1>1, SeqEmpty DEF Idle, Base, Saving
<1>3. PICK q : q = io'
  OBVIOUS
<1>4. /\ DOMAIN q = DOMAIN io /\ DOMAIN io = 1 .. Len(io) /\ Len(io) \in Nat
      /\ \A i \in DOMAIN io : /\ q[i].who = Absent /\ DOMAIN q[i] = {"who", "op", "key", "value"}
                              /\ q[i].op = io[i].op /\ q[i].key = io[i].key
                              /\ q[i].value = io[i].value
                              /\ StateSet(q[i]) <=> StateSet(io[i])
  <2>1. DOMAIN q = DOMAIN io /\ \A i \in DOMAIN io : q[i] = [io[i] EXCEPT !.who = Absent]
    BY <1>1, <1>3 DEF Orphan
  <2>2. \A i \in DOMAIN io : DOMAIN io[i] = {"who", "op", "key", "value"}
    BY DEF ShapeInv
  <2>3. \A i \in DOMAIN io : /\ q[i].who = Absent /\ DOMAIN q[i] = {"who", "op", "key", "value"}
                             /\ q[i].op = io[i].op /\ q[i].key = io[i].key
                             /\ q[i].value = io[i].value
    BY <2>1, <2>2
  <2>4. DOMAIN io = 1 .. Len(io) /\ Len(io) \in Nat
    BY SeqFacts DEF ShapeInv
  <2>5. QED
    BY <2>1, <2>3, <2>4 DEF StateSet
<1>5. IsSeq(q)
  <2>1. PICK X, n : X = {q[i] : i \in DOMAIN q} /\ n = Len(io)
    OBVIOUS
  <2>2. /\ n \in Nat /\ q = [i \in 1 .. n |-> q[i]] /\ \A i \in 1 .. n : q[i] \in X
    BY <1>1, <1>3, <1>4, <2>1
  <2>3. q \in Seq(X)
    BY <2>2
  <2>4. QED
    BY <2>1, <2>3 DEF IsSeq
<1>6. /\ DOMAIN client' = Clients
      /\ \A c \in Clients :
           IF client[c].at \in {"reading", "dispatched"}
           THEN /\ DOMAIN client'[c] = {"at", "attempt", "read", "reply"}
                /\ client'[c].at = "done" /\ client'[c].reply.kind = "threw"
           ELSE client'[c] = client[c]
  <2>1. DOMAIN client = Clients
        /\ \A c \in Clients : DOMAIN client[c] = {"at", "attempt", "read", "reply"}
    BY DEF ShapeInv
  <2>2. client' = [c \in Clients |->
                     IF client[c].at \in {"reading", "dispatched"}
                     THEN Finished(c, [kind |-> "threw"])[c] ELSE client[c]]
    BY DEF Restart
  <2>3. ASSUME NEW c \in Clients
        PROVE  LET f == Finished(c, [kind |-> "threw"])[c]
               IN /\ DOMAIN f = {"at", "attempt", "read", "reply"}
                  /\ f.at = "done" /\ f.reply.kind = "threw"
    BY <2>1 DEF Finished
  <2>4. QED
    BY <2>2, <2>3
<1>7. /\ \A c \in Clients : Untouched(c)' => Untouched(c)
      /\ \A c \in Clients : client'[c].at # "dispatched"
      /\ \A c \in Clients : client'[c].at = "read" => client[c].at = "read" /\ client'[c] = client[c]
      /\ \A c \in Clients : \A kinds : Heard(c, kinds) => Heard(c, kinds)'
      /\ \A c \in Clients : Heard(c, {"committed"})' =>
           Heard(c, {"committed"}) /\ client'[c] = client[c]
  BY <1>6 DEF Untouched, Heard
<1>8. ShapeInv'
  <2>1. \A c \in Clients : client'[c].at \in {"idle", "reading", "read", "dispatched",
                                               "answered", "done"}
                           /\ DOMAIN client'[c] = {"at", "attempt", "read", "reply"}
    BY <1>6 DEF ShapeInv
  <2>2. \A p \in Processes : DOMAIN load'[p] = {"at", "state"} /\ load'[p].at = "no"
                             /\ load'[p] = NotLoading
    BY <1>1 DEF NotLoading
  <2>3. IsSeq(io') /\ \A i \in DOMAIN io' : DOMAIN io'[i] = {"who", "op", "key", "value"}
    BY <1>3, <1>4, <1>5
  <2>4. DOMAIN load' = Processes /\ IsSeq(log') /\ (Parsed(disk') => IsState(disk'))
    BY <1>1 DEF ShapeInv
  <2>5. QED
    BY <1>2, <1>6, <2>1, <2>2, <2>3, <2>4 DEF ShapeInv
<1>9. FlightInv'
  <2>1. \A i \in DOMAIN io' : io'[i].who = Absent
    BY <1>3, <1>4
  <2>2. \A p \in Processes : load'[p].at = "no"
    BY <1>1 DEF NotLoading
  <2>3. \A i \in DOMAIN io' : 1 .. i \subseteq DOMAIN io'
    BY <1>3, <1>4
  <2>4. ASSUME NEW i \in DOMAIN io'
        PROVE  OrphanAt(i)'
    BY <1>1, <1>2, <2>1, <2>2, <2>3 DEF OrphanAt
  <2>5. (\A i \in DOMAIN io : io[i].who = Absent /\ OrphanAt(i))'
    <3>1. \A i \in DOMAIN q : \E y : y = q[i] /\ y.who = Absent /\ OrphanAt(i)'
      BY <1>3, <1>4, <2>4
    <3>2. QED
      BY <1>3, <3>1
  <2>6. QED
    BY <1>2, <2>5 DEF FlightInv
<1>10. WriteInv'
  <2>1. \A i, j \in DOMAIN q : StateSet(q[i]) /\ StateSet(q[j]) => i = j
    BY <1>4 DEF WriteInv
  <2>2. \A i \in DOMAIN q : q[i].who = Absent /\ (StateSet(q[i]) => Follows(disk, q[i].value))
    BY <1>4 DEF WriteInv
  <2>3. QED
    BY <1>1, <1>3, <2>1, <2>2 DEF WriteInv, StateSet, Follows
<1>11. LoadInv'
  <2>1. \A p \in Processes : load'[p].at = "no"
    BY <1>1 DEF NotLoading
  <2>2. Writer \in Processes
    BY DEF Processes
  <2>3. QED
    BY <2>1, <2>2 DEF LoadInv, LoadStages
<1>12. MemInv'
  BY <1>1, <1>2 DEF MemInv
<1>13. SentInv'
  <2>1. ASSUME NEW state, Clean(state)
        PROVE  Clean(state)'
    BY <1>1, <1>7, <2>1 DEF Clean
  <2>2. \A x \in sent : Spent(x) => Spent(x)'
    BY <1>1, <1>7 DEF Spent, SentInv
  <2>3. ASSUME NEW x \in sent
        PROVE  /\ x.operationId \in Clients /\ x.expectedRevision \in Nat
               /\ Parsed(disk) /\ x.expectedRevision <= disk.revision
               /\ Untouched(x.operationId)' => Spent(x)'
               /\ client'[x.operationId].at # "dispatched"
    BY <1>7, <2>2 DEF SentInv
  <2>4. \A c \in Clients : client'[c].at = "read" =>
          /\ Parsed(disk) /\ client'[c].read.revision \in Nat
          /\ client'[c].read.revision <= disk.revision
    BY <1>7 DEF SentInv
  <2>5. Parsed(disk) => Clean(disk)'
    <3>1. PICK d : d = disk
      OBVIOUS
    <3>2. Parsed(disk) => Clean(d)'
      BY <2>1, <3>1 DEF SentInv
    <3>3. d = disk'
      BY <1>1, <3>1
    <3>4. QED
      BY <3>2, <3>3
  <2>6. (\A i \in DOMAIN io : StateSet(io[i]) => Clean(io[i].value))'
    <3>1. \A i \in DOMAIN q : StateSet(q[i]) => Clean(q[i].value)
      BY <1>4 DEF SentInv
    <3>2. \A i \in DOMAIN q : StateSet(q[i]) => Clean(q[i].value)'
      BY <2>1, <3>1
    <3>3. QED
      BY <1>3, <3>2 DEF StateSet
  <2>7. QED
    BY <1>1, <2>3, <2>4, <2>5, <2>6 DEF SentInv
<1>14. QueueInv'
  BY <1>2 DEF QueueInv
<1>15. LogInv'
  <2>1. \A i \in DOMAIN log : Parsed(disk) /\ log[i].operationId \in disk.applied
    BY BaseBehind DEF LogInv
  <2>2. \A c \in Clients : Heard(c, {"committed"})' =>
          \E i \in DOMAIN log' : log'[i] = client'[c].reply
    BY <1>1, <1>7 DEF LogInv
  <2>3. QED
    BY <1>1, <1>2, <2>1, <2>2 DEF LogInv, AppliedOnce
<1>16. QED
  BY <1>8, <1>9, <1>10, <1>11, <1>12, <1>13, <1>14, <1>15

(***************************************************************************)
(* The invariant, and what it says.                                        *)
(***************************************************************************)

LEMMA StutterKeeps ==
  ASSUME RepositoryInv, UNCHANGED vars
  PROVE  RepositoryInv'
<1> USE DEF RepositoryInv
<1>1. UNCHANGED <<disk, legacy, mem, io, answers, load, writer, queue, client, sent, log>>
  BY DEF vars, storage
<1>2. FlightInv' /\ WriteInv' /\ LoadInv' /\ MemInv'
  BY <1>1, PipeStays DEF pipe, LoadInv, Processes
<1>3. ShapeInv'
  BY <1>1 DEF ShapeInv
<1>4. /\ \A c : Untouched(c)' <=> Untouched(c)
      /\ \A c : \A kinds : Heard(c, kinds)' <=> Heard(c, kinds)
      /\ Saving' <=> Saving
      /\ Base' = Base
  BY <1>1 DEF Untouched, Heard, Saving, Base
<1>5. SentInv'
  <2>1. \A state : Clean(state)' <=> Clean(state)
    BY <1>1, <1>4 DEF Clean
  <2>2. \A x : Spent(x)' <=> Spent(x)
    BY <1>1, <1>4 DEF Spent
  <2>3. QED
    BY <1>1, <1>4, <2>1, <2>2 DEF SentInv, StateSet
<1>6. QueueInv' /\ LogInv'
  BY <1>1, <1>4 DEF QueueInv, LogInv, AppliedOnce, WriterReply, Parsed
<1>7. QED
  BY <1>2, <1>3, <1>5, <1>6

LEMMA InitialInv ==
  ASSUME Init
  PROVE  RepositoryInv
<1>1. /\ mem = Absent /\ io = <<>> /\ answers = <<>> /\ queue = <<>> /\ log = <<>> /\ sent = {}
      /\ load = [p \in Processes |-> NotLoading] /\ writer = Idle
      /\ client = [c \in Clients |-> Fresh]
      /\ \E first \in InitialStorage : disk = first.state
  BY DEF Init
<1>2. Parsed(disk) => IsState(disk) /\ disk.applied \cap Clients = {}
  BY <1>1, StorageAssumption DEF Parsed
<1>3. /\ DOMAIN io = {} /\ DOMAIN answers = {} /\ DOMAIN queue = {} /\ DOMAIN log = {}
      /\ IsSeq(io) /\ IsSeq(answers) /\ IsSeq(queue) /\ IsSeq(log)
  BY <1>1, SeqEmpty
<1>4. /\ writer.at = "idle" /\ DOMAIN writer = {"at", "command", "current", "candidate"}
      /\ \A p \in Processes : load[p] = NotLoading /\ load[p].at = "no"
                              /\ DOMAIN load[p] = {"at", "state"}
      /\ \A c \in Clients : /\ DOMAIN client[c] = {"at", "attempt", "read", "reply"}
                            /\ client[c].at = "idle"
  BY <1>1 DEF Idle, NotLoading, Fresh
<1>5. ShapeInv
  BY <1>1, <1>2, <1>3, <1>4 DEF ShapeInv
<1>6. FlightInv /\ WriteInv
  BY <1>3 DEF FlightInv, WriteInv
<1>7. LoadInv
  <2>1. Writer \in Processes
    BY DEF Processes
  <2>2. QED
    BY <1>4, <2>1 DEF LoadInv, LoadStages
<1>8. MemInv
  BY <1>1, <1>4 DEF MemInv
<1>9. SentInv
  BY <1>1, <1>2, <1>3, <1>4 DEF SentInv, Clean, Saving
<1>10. QueueInv /\ LogInv
  BY <1>1, <1>3, <1>4 DEF QueueInv, LogInv, AppliedOnce, Saving, Heard
<1>11. QED
  BY <1>5, <1>6, <1>7, <1>8, <1>9, <1>10 DEF RepositoryInv

LEMMA RepositoryStep ==
  ASSUME RepositoryInv, NullsAreNoStates, ~RacingStartup, [Next]_vars
  PROVE  RepositoryInv'
<1>1. CASE \E c \in Clients : ClientStep(c)
  <2>1. PICK c \in Clients : ClientStep(c)
    BY <1>1
  <2>2. CASE BeginRead(c)
    BY <2>2, BeginReadKeeps
  <2>3. CASE ReadFromMemory(c)
    BY <2>3, ReadFromMemoryKeeps
  <2>4. CASE ReadByLoad(c)
    BY <2>4, ReadByLoadKeeps
  <2>5. CASE ReadLoaded(c)
    BY <2>5, ReadLoadedKeeps
  <2>6. CASE Dispatch(c)
    <3>1. PICK body : body = BodyOf(c, client[c].read.playlists)
      OBVIOUS
    <3>2. CASE body = Absent
      BY <2>6, <3>1, <3>2, DeclineKeeps
    <3>3. CASE body # Absent
      BY <2>6, <3>1, <3>3, SendKeeps
    <3>4. QED
      BY <3>2, <3>3
  <2>7. CASE Return(c)
    BY <2>7, ReturnKeeps
  <2>8. QED
    BY <2>1, <2>2, <2>3, <2>4, <2>5, <2>6, <2>7 DEF ClientStep
<1>2. CASE WriterStep
  <2>1. CASE TakeCommand
    BY <2>1, TakeCommandKeeps
  <2>2. CASE WriterHasState
    BY <2>2, WriterHasStateKeeps
  <2>3. CASE WriterLoads
    BY <2>3, WriterLoadsKeeps
  <2>4. CASE WriterLoaded
    BY <2>4, WriterLoadedKeeps
  <2>5. CASE Decide
    BY <2>5, DecideKeeps
  <2>6. CASE Commit
    BY <2>6, CommitKeeps
  <2>7. CASE Reconcile
    BY <2>7, ReconcileKeeps
  <2>8. QED
    BY <1>2, <2>1, <2>2, <2>3, <2>4, <2>5, <2>6, <2>7 DEF WriterStep
<1>3. CASE \E p \in Processes : LoadStep(p)
  BY <1>3, LoadStepKeeps
<1>4. CASE Execute
  BY <1>4, ExecuteKeeps
<1>5. CASE Resend
  BY <1>5, ResendKeeps
<1>6. CASE Restart
  BY <1>6, RestartKeeps
<1>7. CASE UNCHANGED vars
  BY <1>7, StutterKeeps
<1>8. QED
  BY <1>1, <1>2, <1>3, <1>4, <1>5, <1>6, <1>7 DEF Next

\* Whatever pages, failed writes and restarts do, what is stored, in memory, on
\* its way to storage and still queued agree with each other and with every reply.
THEOREM RepositoryAgrees ==
  ASSUME NullsAreNoStates, ~RacingStartup
  PROVE  Spec => []RepositoryInv
<1>1. Init => RepositoryInv
  BY InitialInv
<1>2. RepositoryInv /\ [Next]_vars => RepositoryInv'
  BY RepositoryStep
<1>3. QED
  BY <1>1, <1>2, PTL DEF Spec

\* What was acknowledged as committed is in storage for good: dispatch commits
\* only after the write, and no load, failed write or restart takes it out.
THEOREM CommittedStaysStored ==
  ASSUME NullsAreNoStates, ~RacingStartup
  PROVE  Spec => []CommittedIsKept
<1>1. RepositoryInv => CommittedIsKept
  <2>1. SUFFICES ASSUME RepositoryInv, NEW i \in DOMAIN log
                 PROVE  Parsed(disk) /\ log[i].operationId \in disk.applied
    BY DEF CommittedIsKept
  <2>2. QED
    BY <2>1, BaseBehind DEF RepositoryInv, LogInv
<1>2. QED
  BY <1>1, RepositoryAgrees, PTL

\* A mutation takes effect once: neither a command delivered again nor another
\* round of the client's loop applies it a second time.
THEOREM EffectsHappenOnce ==
  ASSUME NullsAreNoStates, ~RacingStartup
  PROVE  Spec => []AppliedOnce
<1>1. RepositoryInv => AppliedOnce
  BY DEF RepositoryInv, LogInv
<1>2. QED
  BY <1>1, RepositoryAgrees, PTL

\* A page told "committed" is told the revision of its commit; a page told that
\* nothing changed left nothing behind.
THEOREM RepliesToldTrue ==
  ASSUME NullsAreNoStates, ~RacingStartup
  PROVE  Spec => []RepliesAreTrue
<1>1. RepositoryInv => RepliesAreTrue
  <2>1. SUFFICES ASSUME RepositoryInv, NEW c \in Clients, client[c].at = "done"
                 PROVE  /\ client[c].reply.kind = "committed" =>
                             \E i \in DOMAIN log : log[i] = client[c].reply
                        /\ /\ client[c].reply.kind \in {"revision-conflict", "mutation-rejected",
                                                        "no-change"}
                           /\ Parsed(disk)
                           => c \notin disk.applied
    BY DEF RepliesAreTrue
  <2>2. client[c].reply.kind = "committed" => \E i \in DOMAIN log : log[i] = client[c].reply
    BY <2>1 DEF RepositoryInv, LogInv, Heard
  <2>3. ASSUME client[c].reply.kind \in {"revision-conflict", "mutation-rejected", "no-change"},
               Parsed(disk)
        PROVE  c \notin disk.applied
    BY <2>1, <2>3 DEF RepositoryInv, SentInv, Clean, Untouched, Heard
  <2>4. QED
    BY <2>2, <2>3
<1>2. QED
  BY <1>1, RepositoryAgrees, PTL
===============================================================================
