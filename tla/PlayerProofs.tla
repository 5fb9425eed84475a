----------------------------- MODULE PlayerProofs -----------------------------
(***************************************************************************)
(* Proofs about Player, for any playlist, any number of flows and events   *)
(* and any calls that fail.                                                *)
(*                                                                         *)
(* The lock of advancePlayback (LockInv).  The flow that holds the lock is *)
(* the one whose steps end with "release".  The invariant says which steps *)
(* may stand before it: those that take the rest of the list along when    *)
(* they are done, or fail.                                                 *)
(*                                                                         *)
(* The play order (OrderInv).  As long as the playlist is not edited, what *)
(* is played, asked for, stored or on its way into the store is a play     *)
(* order of all of it, and the record of this page's generation has the    *)
(* order that plays.  HandoffKeepsOrder follows.                           *)
(*                                                                         *)
(* The item (ServedInv, NewestInv).  The page's calls are served in the    *)
(* order they were sent.  So the record of what plays now is stored after  *)
(* all that this generation has sent before, unless a call failed or a     *)
(* write of the op-ed mode puts back what it read.  ResumesWherePlaying    *)
(* follows.                                                                *)
(***************************************************************************)
EXTENDS Player, SequenceTheorems, FiniteSetTheorems, TLAPS

TaskFields == DOMAIN NoTask
PageFields == DOMAIN Fresh(None, 1, FALSE)

\* The steps advancePlayback comes to, once it has read the library.
OnTheWay == {"read", "putPlayback", "settle", "ask", "asked", "clearOwned", "opedOff", "stopped"}

Holds(s) == s # <<>> /\ s[Len(s)] = "release"

\* The steps of a flow of advancePlayback that is under way, or of one that is not.
Advancing(s) ==
  /\ s \in Seq(Steps)
  /\ \A i \in 1 .. Len(s) : s[i] \in OnTheWay \/ (s[i] = "release" /\ i = Len(s))
Unlocked(s)  == s \in Seq(Steps) /\ \A i \in 1 .. Len(s) : s[i] \notin {"release", "advance"}
Legal(s)     == s = <<"advance", "release">> \/ Advancing(s) \/ Unlocked(s)

Locked(k) == Holds(tasks[k].todo)

\* One task holds the lock, if the page says that it advances.
OneHolder ==
  /\ page.advancing \in BOOLEAN
  /\ \A j, k \in Tasks : Locked(j) /\ Locked(k) => j = k
  /\ page.advancing <=> \E k \in Tasks : Locked(k)

TaskInv(k) == /\ DOMAIN tasks[k] = TaskFields
              /\ Legal(tasks[k].todo)
              /\ tasks[k].remote => ~Locked(k)

LockInv ==
  /\ DOMAIN tasks = Tasks /\ \A k \in Tasks : TaskInv(k)
  /\ DOMAIN page = PageFields /\ OneHolder

-----------------------------------------------------------------------------
(* Lists of steps.                                                         *)

LEMMA OfOne == ASSUME NEW a \in Steps PROVE <<a>> \in Seq(Steps) /\ Len(<<a>>) = 1 /\ <<a>>[1] = a
OBVIOUS

LEMMA OfTwo ==
  ASSUME NEW a \in Steps, NEW b \in Steps
  PROVE  /\ <<a, b>> \in Seq(Steps) /\ Len(<<a, b>>) = 2 /\ <<a, b>>[1] = a /\ <<a, b>>[2] = b
         /\ Tail(<<a, b>>) = <<b>>
OBVIOUS

LEMMA OfThree ==
  ASSUME NEW a \in Steps, NEW b \in Steps, NEW c \in Steps
  PROVE  /\ <<a, b, c>> \in Seq(Steps) /\ Len(<<a, b, c>>) = 3
         /\ <<a, b, c>>[1] = a /\ <<a, b, c>>[2] = b /\ <<a, b, c>>[3] = c
OBVIOUS

\* The list advancePlayback starts with.
LEMMA Opening ==
  LET s == <<"advance", "release">>
  IN /\ s \in Seq(Steps) /\ Len(s) = 2 /\ s[1] = "advance" /\ s[2] = "release"
     /\ Tail(s) = <<"release">> /\ <<"release">> \in Seq(Steps)
<1>1. "advance" \in Steps /\ "release" \in Steps
  BY DEF Steps
<1> QED
  BY <1>1, OfOne, OfTwo

LEMMA LegalSteps == ASSUME NEW s, Legal(s) PROVE s \in Seq(Steps)
BY Opening DEF Legal, Advancing, Unlocked

\* The first step done, the others follow.
LEMMA TailLegal ==
  ASSUME NEW s, Legal(s), s # <<>>
  PROVE  /\ s \in Seq(Steps) /\ Legal(Tail(s))
         /\ Head(s) # "release" => (Holds(Tail(s)) <=> Holds(s))
         /\ Head(s) = "release" => Holds(s) /\ ~Holds(Tail(s))
         /\ Head(s) = "advance" => s = <<"advance", "release">> /\ Tail(s) = <<"release">>
         /\ Head(s) \notin OnTheWay \cup {"release", "advance"} => Unlocked(s) /\ ~Holds(s)
<1>1. s \in Seq(Steps)
  BY LegalSteps
<1>2. /\ Len(s) \in Nat \ {0} /\ Head(s) = s[1] /\ Tail(s) \in Seq(Steps)
      /\ Len(Tail(s)) = Len(s) - 1 /\ \A i \in 1 .. Len(s) - 1 : Tail(s)[i] = s[i + 1]
  BY <1>1, EmptySeq, HeadTailProperties
<1>3. Tail(s) # <<>> <=> Len(s) # 1
  BY <1>2, EmptySeq, LenProperties, ConcatEmptySeq
<1> HIDE <1>1
<1>4. CASE s = <<"advance", "release">>
  <2>1. Len(s) = 2 /\ s[1] = "advance" /\ s[2] = "release" /\ Tail(s) = <<"release">> /\ s \in Seq(Steps)
    BY <1>4, Opening
  <2>2. Advancing(Tail(s)) /\ Holds(Tail(s)) /\ Holds(s)
    BY <2>1, <1>2, <1>3 DEF Advancing, Holds
  <2> QED
    BY <1>2, <1>4, <2>1, <2>2 DEF Legal
<1>5. CASE Advancing(s)
  <2> PICK n \in Nat : n = Len(s)
    BY <1>2
  <2>0. ASSUME NEW i \in 1 .. n - 1
        PROVE  Tail(s)[i] \in OnTheWay \/ (Tail(s)[i] = "release" /\ i = n - 1)
    <3>1. i + 1 \in 1 .. n /\ Tail(s)[i] = s[i + 1]
      BY <1>2
    <3>2. PICK j \in 1 .. n : j = i + 1
      BY <3>1
    <3>3. s[j] \in OnTheWay \/ (s[j] = "release" /\ j = n)
      BY <1>5 DEF Advancing
    <3> QED
      BY <3>1, <3>2, <3>3
  <2>1. Advancing(Tail(s)) /\ 1 \in 1 .. n /\ s[1] \in OnTheWay \cup {"release"} /\ s \in Seq(Steps)
    <3>1. 1 \in 1 .. n
      BY <1>2
    <3> QED
      BY <1>2, <1>5, <2>0, <3>1 DEF Advancing
  <2>2. s[1] # "advance"
    BY <2>1 DEF OnTheWay
  <2>3. s[1] # "release" => (Holds(Tail(s)) <=> Holds(s))
    BY <1>2, <1>3 DEF Holds
  <2>4. s[1] = "release" => Len(s) = 1
    BY <1>5, <2>1 DEF Advancing, OnTheWay
  <2>5. s[1] = "release" => Holds(s) /\ ~Holds(Tail(s))
    BY <1>2, <1>3, <2>4 DEF Holds
  <2> QED
    BY <1>2, <2>1, <2>2, <2>3, <2>5 DEF Legal
<1>6. CASE Unlocked(s)
  <2>1. Unlocked(Tail(s)) /\ s[1] \notin {"release", "advance"} /\ s \in Seq(Steps)
    BY <1>2, <1>6 DEF Unlocked
  <2>2. ~Holds(Tail(s)) /\ ~Holds(s)
    BY <1>2, <1>3, <1>6 DEF Holds, Unlocked
  <2> QED
    BY <1>2, <1>6, <2>1, <2>2 DEF Legal
<1> QED
  BY <1>4, <1>5, <1>6 DEF Legal

\* The lock's step is among those to come just when it is the last of them.
LEMMA HoldsElements == ASSUME NEW s, Legal(s) PROVE Holds(s) <=> "release" \in Elements(s)
<1>1. s \in Seq(Steps)
  BY LegalSteps
<1>2. Len(s) \in Nat /\ DOMAIN s = 1 .. Len(s) /\ (s # <<>> <=> Len(s) # 0)
  BY <1>1, LenProperties, EmptySeq
<1>3. Elements(s) = {s[i] : i \in 1 .. Len(s)}
  BY <1>2 DEF Elements
<1>4. CASE s = <<"advance", "release">>
  <2>1. Len(s) = 2 /\ s[2] = "release"
    BY <1>4, Opening
  <2> QED
    BY <1>2, <1>3, <2>1 DEF Holds
<1>5. CASE Advancing(s)
  <2>1. \A i \in 1 .. Len(s) : s[i] = "release" => i = Len(s)
    BY <1>5 DEF Advancing, OnTheWay
  <2>2. ASSUME "release" \in Elements(s) PROVE Holds(s)
    <3>1. PICK i \in 1 .. Len(s) : s[i] = "release"
      BY <1>3, <2>2
    <3>2. i = Len(s)
      BY <2>1, <3>1
    <3>3. Len(s) # 0
      BY <1>2, <3>2
    <3> QED
      BY <1>2, <3>1, <3>2, <3>3 DEF Holds
  <2>3. ASSUME Holds(s) PROVE "release" \in Elements(s)
    BY <1>2, <1>3, <2>3 DEF Holds
  <2> QED
    BY <2>2, <2>3
<1>6. CASE Unlocked(s)
  BY <1>2, <1>3, <1>6 DEF Unlocked, Holds
<1> QED
  BY <1>4, <1>5, <1>6 DEF Legal

\* Steps of its own before what is left to the finally.
LEMMA Prefixed ==
  ASSUME NEW a \in Seq(Steps), \A i \in 1 .. Len(a) : a[i] \in OnTheWay, NEW b, Advancing(b)
  PROVE  Advancing(a \o b) /\ (Holds(a \o b) <=> Holds(b))
<1> DEFINE s == a \o b
<1>1. b \in Seq(Steps)
  BY DEF Advancing
<1>2. /\ s \in Seq(Steps) /\ Len(s) = Len(a) + Len(b)
      /\ \A i \in 1 .. Len(a) + Len(b) : s[i] = IF i <= Len(a) THEN a[i] ELSE b[i - Len(a)]
  BY <1>1, ConcatProperties
<1>3. /\ Len(a) \in Nat /\ Len(b) \in Nat
      /\ b # <<>> <=> Len(b) # 0
      /\ s # <<>> <=> Len(s) # 0
  BY <1>1, <1>2, LenProperties, EmptySeq
<1> HIDE DEF s
<1>4. ASSUME NEW i \in 1 .. Len(s) PROVE s[i] \in OnTheWay \/ (s[i] = "release" /\ i = Len(s))
  <2>1. CASE i <= Len(a)
    BY <1>2, <1>3, <2>1
  <2>2. CASE i > Len(a)
    <3>1. i - Len(a) \in 1 .. Len(b) /\ s[i] = b[i - Len(a)]
      BY <1>2, <1>3, <2>2
    <3>2. PICK j \in 1 .. Len(b) : j = i - Len(a)
      BY <3>1
    <3>3. b[j] \in OnTheWay \/ (b[j] = "release" /\ j = Len(b))
      BY DEF Advancing
    <3> QED
      BY <1>2, <1>3, <3>1, <3>2, <3>3
  <2> QED
    BY <1>3, <2>1, <2>2
<1>5. Advancing(s)
  BY <1>2, <1>4 DEF Advancing
<1>6. Holds(s) <=> Holds(b)
  <2>1. CASE Len(b) = 0
    <3>1. Len(s) # 0 => s[Len(s)] \in OnTheWay
      BY <1>2, <1>3, <2>1
    <3> QED
      BY <1>3, <2>1, <3>1 DEF Holds, OnTheWay
  <2>2. CASE Len(b) # 0
    <3>1. s[Len(s)] = b[Len(b)] /\ Len(s) # 0
      BY <1>2, <1>3, <2>2
    <3> QED
      BY <1>3, <2>2, <3>1 DEF Holds
  <2> QED
    BY <2>1, <2>2
<1> QED
  BY <1>5, <1>6 DEF s

LEMMA FinallyIs ==
  ASSUME NEW s, Legal(s)
  PROVE  /\ Advancing(Finally(s)) /\ Legal(Finally(s)) /\ (Holds(Finally(s)) <=> Holds(s))
<1>1. /\ <<>> \in Seq(Steps) /\ Len(<<>>) = 0
      /\ <<"release">> \in Seq(Steps) /\ Len(<<"release">>) = 1 /\ <<"release">>[1] = "release"
  BY EmptySeq, OfOne, Opening DEF Steps
<1>2. <<"release">> # <<>>
  BY <1>1
<1>3. Advancing(<<>>) /\ Advancing(<<"release">>) /\ ~Holds(<<>>) /\ Holds(<<"release">>)
  BY <1>1, <1>2 DEF Advancing, Holds
<1> QED
  BY <1>3, HoldsElements DEF Finally, Legal

\* A set of numbers has its least.
LEMMA Least == ASSUME NEW T \in SUBSET Nat, T # {} PROVE \E i \in T : \A j \in T : i <= j
<1> DEFINE R == OpToRel(<, Nat)
<1>1. IsWellFoundedOn(R, Nat)
  BY NatLessThanWellFounded
<1> HIDE DEF R
<1>2. PICK i \in T : \A j \in T : ~(<<j, i>> \in R)
  BY <1>1, WFMin
<1>3. \A j \in T : ~(j < i)
  BY <1>2 DEF OpToRel, R
<1> QED
  BY <1>2, <1>3

\* What is left of a list is a legal list, and has the lock's step if the list has.
LEMMA EndOfList ==
  ASSUME NEW s, Advancing(s) \/ Unlocked(s), NEW i \in 1 .. Len(s)
  PROVE  Legal(SubSeq(s, i, Len(s))) /\ (Holds(SubSeq(s, i, Len(s))) <=> Holds(s))
<1>1. s \in Seq(Steps)
  BY DEF Advancing, Unlocked
<1> PICK n \in Nat : n = Len(s)
  BY <1>1, LenProperties
<1> PICK r : r = SubSeq(s, i, n)
  OBVIOUS
<1>2. /\ r \in Seq(Steps) /\ Len(r) = n - i + 1 /\ Len(r) \in Nat \ {0}
      /\ \A j \in 1 .. n - i + 1 : r[j] = s[i + j - 1]
  <2>1. i \in Int /\ n \in Int /\ i <= n /\ \A j \in i .. n : s[j] \in Steps
    BY <1>1, ElementOfSeq
  <2> QED
    BY <2>1, SubSeqProperties
<1>3. r # <<>> /\ s # <<>>
  <2>1. Len(r) # 0 /\ Len(s) # 0
    BY <1>2
  <2>2. Len(<<>>) = 0
    BY EmptySeq
  <2> QED
    BY <2>1, <2>2
<1>4. r[Len(r)] = s[n]
  <2>1. Len(r) \in 1 .. n - i + 1 /\ i + Len(r) - 1 = n
    BY <1>2
  <2> QED
    BY <1>2, <2>1
<1>5. ASSUME NEW j \in 1 .. Len(r)
      PROVE  i + j - 1 \in 1 .. n /\ r[j] = s[i + j - 1] /\ (i + j - 1 = n => j = Len(r))
  BY <1>2
<1>6. Advancing(s) => Advancing(r)
  <2> SUFFICES ASSUME Advancing(s), NEW j \in 1 .. Len(r)
               PROVE  r[j] \in OnTheWay \/ (r[j] = "release" /\ j = Len(r))
    BY <1>2 DEF Advancing
  <2> PICK k \in 1 .. n : k = i + j - 1
    BY <1>5
  <2>1. s[k] \in OnTheWay \/ (s[k] = "release" /\ k = n)
    BY DEF Advancing
  <2> QED
    BY <1>5, <2>1
<1>7. Unlocked(s) => Unlocked(r)
  <2> SUFFICES ASSUME Unlocked(s), NEW j \in 1 .. Len(r) PROVE r[j] \notin {"release", "advance"}
    BY <1>2 DEF Unlocked
  <2> PICK k \in 1 .. n : k = i + j - 1
    BY <1>5
  <2>1. s[k] \notin {"release", "advance"}
    BY DEF Unlocked
  <2> QED
    BY <1>5, <2>1
<1>8. Holds(r) <=> Holds(s)
  BY <1>3, <1>4 DEF Holds
<1> QED
  BY <1>6, <1>7, <1>8 DEF Legal

\* What is left of a list when its first step failed.
LEMMA RecoveredLegal ==
  ASSUME NEW s, Legal(s)
  PROVE  Legal(Recovered(s)) /\ (Holds(Recovered(s)) <=> Holds(s))
<1> DEFINE points == {i \in DOMAIN s : s[i] \in {"settle", "ask", "stopped"}}
<1>1. CASE points = {}
  BY <1>1, FinallyIs DEF Recovered
<1>2. CASE points # {}
  <2>1. s \in Seq(Steps)
    BY LegalSteps
  <2>2. DOMAIN s = 1 .. Len(s) /\ Len(s) \in Nat
    BY <2>1, LenProperties
  <2>3. points \in SUBSET Nat
    BY <2>2
  <2> PICK first : /\ first = (CHOOSE i \in points : \A j \in points : i <= j)
                   /\ first \in points
    <3> HIDE DEF points
    <3> QED
      BY <1>2, <2>3, Least
  <2>4. Recovered(s) = SubSeq(s, first, Len(s))
    BY <1>2 DEF Recovered
  <2>5. first \in 1 .. Len(s) /\ s[first] \in {"settle", "ask", "stopped"}
    BY <2>2
  <2>6. s # <<"advance", "release">>
    <3>1. first \in 1 .. 2 => first = 1 \/ first = 2
      OBVIOUS
    <3> QED
      BY <2>5, <3>1, Opening
  <2>7. Advancing(s) \/ Unlocked(s)
    BY <2>6 DEF Legal
  <2> QED
    BY <2>4, <2>5, <2>7, EndOfList
<1> QED
  BY <1>1, <1>2

LEMMA UnlockedJoined ==
  ASSUME NEW a, NEW b, Unlocked(a), Unlocked(b)
  PROVE  Unlocked(a \o b)
<1> PICK s : s = a \o b
  OBVIOUS
<1>1. a \in Seq(Steps) /\ b \in Seq(Steps)
  BY DEF Unlocked
<1>2. /\ s \in Seq(Steps) /\ Len(s) = Len(a) + Len(b) /\ Len(a) \in Nat /\ Len(b) \in Nat
      /\ \A i \in 1 .. Len(a) + Len(b) : s[i] = IF i <= Len(a) THEN a[i] ELSE b[i - Len(a)]
  BY <1>1, ConcatProperties, LenProperties
<1>3. ASSUME NEW i \in 1 .. Len(s) PROVE s[i] \notin {"release", "advance"}
  <2>1. CASE i <= Len(a)
    BY <1>2, <2>1 DEF Unlocked
  <2>2. CASE i > Len(a)
    <3>1. PICK j \in 1 .. Len(b) : j = i - Len(a)
      BY <1>2, <2>2
    <3>2. s[i] = b[j]
      BY <1>2, <2>2, <3>1
    <3> QED
      BY <3>2 DEF Unlocked
  <2> QED
    BY <1>2, <2>1, <2>2
<1> QED
  BY <1>2, <1>3 DEF Unlocked

LEMMA UnlockedOne ==
  ASSUME NEW a \in Steps, a \notin {"release", "advance"} PROVE Unlocked(<<a>>)
BY OfOne DEF Unlocked

LEMMA UnlockedTwo ==
  ASSUME NEW a \in Steps, NEW b \in Steps, a \notin {"release", "advance"}, b \notin {"release", "advance"}
  PROVE  Unlocked(<<a, b>>)
<1>1. \A i \in 1 .. 2 : i = 1 \/ i = 2
  OBVIOUS
<1> QED
  BY <1>1, OfTwo DEF Unlocked

LEMMA UnlockedThree ==
  ASSUME NEW a \in Steps, NEW b \in Steps, NEW c \in Steps, a \notin {"release", "advance"},
         b \notin {"release", "advance"}, c \notin {"release", "advance"}
  PROVE  Unlocked(<<a, b, c>>)
<1>1. \A i \in 1 .. 3 : i = 1 \/ i = 2 \/ i = 3
  OBVIOUS
<1> QED
  BY <1>1, OfThree DEF Unlocked

LEMMA NothingToDo == Advancing(<<>>) /\ Unlocked(<<>>) /\ Legal(<<>>) /\ ~Holds(<<>>)
BY EmptySeq DEF Advancing, Unlocked, Legal, Holds

LEMMA UnlockedIs == ASSUME NEW s, Unlocked(s) PROVE Legal(s) /\ ~Holds(s)
<1>1. Len(s) \in Nat /\ (s # <<>> => Len(s) # 0)
  BY LenProperties, EmptySeq DEF Unlocked
<1> QED
  BY <1>1 DEF Unlocked, Legal, Holds

\* stopPlayback, and storing a playback.
LEMMA StopStepsAre ==
  /\ StopSteps \in Seq(Steps) /\ Unlocked(StopSteps)
  /\ \A i \in 1 .. Len(StopSteps) : StopSteps[i] \in OnTheWay
<1>1. {"read", "clearOwned", "opedOff", "stopped"} \subseteq Steps
  BY DEF Steps, StoreCalls
<1>2. /\ StopSteps \in Seq(Steps) /\ Len(StopSteps) = 5 /\ StopSteps[1] = "read"
      /\ StopSteps[2] = "clearOwned" /\ StopSteps[3] = "read" /\ StopSteps[4] = "opedOff"
      /\ StopSteps[5] = "stopped"
  BY <1>1 DEF StopSteps
<1>3. \A i \in 1 .. 5 : i = 1 \/ i = 2 \/ i = 3 \/ i = 4 \/ i = 5
  OBVIOUS
<1>4. \A i \in 1 .. Len(StopSteps) : StopSteps[i] \in {"read", "clearOwned", "opedOff", "stopped"}
  BY <1>2, <1>3
<1> QED
  BY <1>2, <1>4 DEF Unlocked, OnTheWay

LEMMA PersistIs ==
  ASSUME NEW record
  PROVE  /\ Persist(record) \in Seq(Steps) /\ Unlocked(Persist(record))
         /\ \A i \in 1 .. Len(Persist(record)) : Persist(record)[i] \in OnTheWay
<1>1. "read" \in Steps /\ "putPlayback" \in Steps /\ \A i \in 1 .. 2 : i = 1 \/ i = 2
  BY DEF Steps, StoreCalls
<1>2. CASE record = NoPlayback
  <2>1. Persist(record) = <<>>
    BY <1>2 DEF Persist
  <2> QED
    BY <2>1, EmptySeq, NothingToDo
<1>3. CASE record # NoPlayback
  <2>1. Persist(record) = <<"read", "putPlayback">>
    BY <1>3 DEF Persist
  <2>2. Unlocked(<<"read", "putPlayback">>)
    BY <1>1, UnlockedTwo
  <2> QED
    BY <1>1, <2>1, <2>2, OfTwo DEF OnTheWay
<1> QED
  BY <1>2, <1>3

-----------------------------------------------------------------------------
(* What a step does to the lock.                                           *)

Quiet == DOMAIN page' = PageFields /\ page'.advancing = page.advancing

\* Task k goes on; the lock stays, is let go, or is taken.
LEMMA Moves ==
  ASSUME LockInv, NEW k \in Tasks, NEW t, Becomes(k, t),
         DOMAIN t = TaskFields, Legal(t.todo), t.remote => ~Holds(t.todo),
         DOMAIN page' = PageFields,
         \/ page'.advancing = page.advancing /\ (Holds(t.todo) <=> Locked(k))
         \/ page'.advancing = FALSE /\ Locked(k) /\ ~Holds(t.todo)
         \/ page'.advancing = TRUE /\ page.advancing = FALSE /\ Holds(t.todo)
  PROVE  LockInv'
<1> PICK u : u = IF t.todo = <<>> THEN NoTask ELSE t
  OBVIOUS
<1>1. DOMAIN u = TaskFields /\ Legal(u.todo) /\ (Holds(u.todo) <=> Holds(t.todo))
      /\ (u.remote => ~Holds(t.todo))
  <2>1. NoTask.todo = <<>> /\ NoTask.remote = FALSE
    BY DEF NoTask
  <2> QED
    BY <2>1, NothingToDo DEF TaskFields
<1>2. tasks' = [tasks EXCEPT ![k] = u]
  BY DEF Becomes
<1>3. /\ DOMAIN tasks' = Tasks /\ tasks'[k] = u
      /\ \A j \in Tasks : j # k => tasks'[j] = tasks[j]
  BY <1>2 DEF LockInv
<1>4. \A j \in Tasks : TaskInv(j)'
  BY <1>1, <1>3 DEF LockInv, TaskInv, Locked
<1>5. (Locked(k)' <=> Holds(t.todo)) /\ \A j \in Tasks : j # k => (Locked(j)' <=> Locked(j))
  BY <1>1, <1>3 DEF Locked
<1>6. page'.advancing \in BOOLEAN
  BY DEF LockInv, OneHolder
<1>7. \A i, j \in Tasks : Locked(i)' /\ Locked(j)' => i = j
  <2>1. CASE Locked(k) \/ ~Holds(t.todo)
    BY <1>5, <2>1 DEF LockInv, OneHolder
  <2>2. CASE ~Locked(k) /\ Holds(t.todo)
    <3>1. page.advancing = FALSE
      BY <2>2
    <3>2. \A j \in Tasks : ~Locked(j)
      BY <3>1 DEF LockInv, OneHolder
    <3> QED
      BY <1>5, <3>2
  <2> QED
    BY <2>1, <2>2
<1>8. page'.advancing <=> \E j \in Tasks : Locked(j)'
  <2>1. CASE page'.advancing = page.advancing /\ (Holds(t.todo) <=> Locked(k))
    <3>1. \A j \in Tasks : Locked(j)' <=> Locked(j)
      BY <1>5, <2>1
    <3> QED
      BY <2>1, <3>1 DEF LockInv, OneHolder
  <2>2. CASE page'.advancing = FALSE /\ Locked(k) /\ ~Holds(t.todo)
    <3>1. \A j \in Tasks : ~Locked(j)'
      BY <1>5, <2>2 DEF LockInv, OneHolder
    <3> QED
      BY <2>2, <3>1
  <2>3. CASE page'.advancing = TRUE /\ page.advancing = FALSE /\ Holds(t.todo)
    BY <1>5, <2>3
  <2> QED
    BY <2>1, <2>2, <2>3
<1>9. OneHolder'
  BY <1>6, <1>7, <1>8 DEF OneHolder
<1> QED
  BY <1>3, <1>4, <1>9 DEF LockInv

\* The step that leaves the tasks alone.
LEMMA Rests == ASSUME LockInv, Quiet, UNCHANGED tasks PROVE LockInv'
<1>1. \A k \in Tasks : (Locked(k)' <=> Locked(k)) /\ tasks'[k] = tasks[k]
  BY DEF Locked
<1>2. \A k \in Tasks : TaskInv(k)'
  BY <1>1 DEF LockInv, TaskInv
<1>3. OneHolder'
  BY <1>1 DEF LockInv, OneHolder, Quiet
<1> QED
  BY <1>2, <1>3 DEF LockInv, Quiet

\* The task takes its next step.
LEMMA TakesNext ==
  ASSUME LockInv, Quiet, NEW k \in Tasks, NEW step, At(k, step), step \notin {"release", "advance"},
         NEW t, Becomes(k, t), DOMAIN t = TaskFields, t.todo = Tail(tasks[k].todo),
         t.remote = tasks[k].remote
  PROVE  LockInv'
<1>1. Legal(tasks[k].todo) /\ tasks[k].todo # <<>> /\ Head(tasks[k].todo) = step
  BY DEF LockInv, TaskInv, At
<1>2. Legal(t.todo) /\ (Holds(t.todo) <=> Locked(k))
  BY <1>1, TailLegal DEF Locked
<1>3. t.remote => ~Holds(t.todo)
  BY <1>2 DEF LockInv, TaskInv
<1> QED
  BY <1>2, <1>3, Moves DEF Quiet

\* A task outside advancePlayback turns to other steps outside it, or ends.
LEMMA Turns ==
  ASSUME LockInv, Quiet, NEW k \in Tasks, NEW step, At(k, step),
         step \notin OnTheWay \cup {"release", "advance"},
         NEW t, Becomes(k, t), DOMAIN t = TaskFields, Legal(t.todo), ~Holds(t.todo)
  PROVE  LockInv'
<1>1. Legal(tasks[k].todo) /\ tasks[k].todo # <<>> /\ Head(tasks[k].todo) = step
  BY DEF LockInv, TaskInv, At
<1>2. ~Locked(k)
  BY <1>1, TailLegal DEF Locked
<1> QED
  BY <1>2, Moves DEF Quiet

\* A free task holds nothing, and begins.
LEMMA NewTaskIs == ASSUME FreeTasks # {} PROVE NewTask \in Tasks /\ tasks[NewTask].todo = <<>>
BY DEF NewTask, FreeTasks

LEMMA Begins ==
  ASSUME LockInv, Quiet, FreeTasks # {}, NEW t, Becomes(NewTask, t),
         DOMAIN t = TaskFields, Legal(t.todo), ~Holds(t.todo)
  PROVE  LockInv'
<1>1. NewTask \in Tasks /\ ~Locked(NewTask)
  BY NewTaskIs DEF Locked, Holds
<1> QED
  BY <1>1, Moves DEF Quiet

LEMMA TodoIs ==
  ASSUME LockInv, NEW k \in Tasks, NEW s
  PROVE  /\ DOMAIN Todo(k, s) = TaskFields /\ Todo(k, s).todo = s /\ Todo(k, s).remote = tasks[k].remote
         /\ DOMAIN NoTask = TaskFields /\ NoTask.todo = <<>> /\ NoTask.remote = FALSE
<1>1. DOMAIN tasks[k] = TaskFields
  BY DEF LockInv, TaskInv
<1> QED
  BY <1>1 DEF Todo, TaskFields, NoTask

\* Ending is turning to nothing.
LEMMA Finishes ==
  ASSUME LockInv, Quiet, NEW k \in Tasks, NEW step, At(k, step),
         step \notin OnTheWay \cup {"release", "advance"}, Ends(k)
  PROVE  LockInv'
<1>1. DOMAIN NoTask = TaskFields /\ NoTask.todo = <<>>
  BY TodoIs
<1> QED
  BY <1>1, Turns, NothingToDo DEF Ends

LEMMA Proceeding ==
  ASSUME LockInv, Quiet, NEW k \in Tasks, NEW step, At(k, step), step \notin {"release", "advance"},
         Proceeds(k)
  PROVE  LockInv'
BY TakesNext, TodoIs DEF Proceeds

\* The changes of the page's context that leave the lock alone.
LEMMA Contexts ==
  ASSUME NEW c, DOMAIN c = PageFields
  PROVE  /\ DOMAIN Stopped(c) = PageFields /\ Stopped(c).advancing = c.advancing
         /\ DOMAIN Previewing(c) = PageFields /\ Previewing(c).advancing = c.advancing
         /\ DOMAIN EnteredOpEd(c) = PageFields /\ EnteredOpEd(c).advancing = c.advancing
         /\ DOMAIN Release(c) = PageFields /\ Release(c).advancing = FALSE
<1>1. DOMAIN Stopped(c) = PageFields /\ Stopped(c).advancing = c.advancing
  BY DEF PageFields, Fresh, Stopped
<1>2. DOMAIN Previewing(c) = PageFields /\ Previewing(c).advancing = c.advancing
  BY DEF PageFields, Fresh, Previewing
<1>3. DOMAIN EnteredOpEd(c) = PageFields /\ EnteredOpEd(c).advancing = c.advancing
  BY DEF PageFields, Fresh, EnteredOpEd
<1>4. DOMAIN Release(c) = PageFields /\ Release(c).advancing = FALSE
  BY DEF PageFields, Fresh, Release
<1> QED
  BY <1>1, <1>2, <1>3, <1>4

\* A playback is stored and played with the lock as it is.
LEMMA PlaysIs ==
  ASSUME LockInv, NEW k \in Tasks, NEW items, NEW playback, NEW seeking, NEW then,
         Plays(k, items, playback, seeking, then), Advancing(then), Holds(then) <=> Locked(k)
  PROVE  LockInv'
<1> DEFINE c == Playing(playback, seeking)
           record == RecordOf(c, items)
           t == [tasks[k] EXCEPT !.todo = Persist(record) \o then, !.write = record,
                                 !.list = items, !.next = playback, !.generation = c.generation]
<1>1. page' = c /\ Becomes(k, t)
  BY DEF Plays
<1>2. DOMAIN tasks[k] = TaskFields /\ DOMAIN page = PageFields
  BY DEF LockInv, TaskInv
<1>3. DOMAIN c = PageFields /\ c.advancing = page.advancing
  BY <1>2 DEF Playing, PageFields, Fresh
<1> HIDE DEF c, record
<1>4. DOMAIN t = TaskFields /\ t.remote = tasks[k].remote /\ t.todo = Persist(record) \o then
  BY <1>2 DEF TaskFields, NoTask
<1> HIDE DEF t
<1>5. Advancing(t.todo) /\ (Holds(t.todo) <=> Locked(k))
  BY <1>4, PersistIs, Prefixed
<1>6. Legal(t.todo) /\ (t.remote => ~Holds(t.todo))
  BY <1>4, <1>5 DEF Legal, LockInv, TaskInv
<1> QED
  BY <1>1, <1>3, <1>4, <1>5, <1>6, Moves

LEMMA SettleSteps ==
  ASSUME NEW rest, Advancing(rest)
  PROVE  /\ Advancing(<<"settle">>) /\ ~Holds(<<"settle">>)
         /\ Advancing(<<"settle">> \o rest) /\ (Holds(<<"settle">> \o rest) <=> Holds(rest))
         /\ Advancing(<<"ask", "asked">> \o rest) /\ (Holds(<<"ask", "asked">> \o rest) <=> Holds(rest))
<1>1. {"settle", "ask", "asked"} \subseteq Steps /\ \A i \in 1 .. 2 : i = 1 \/ i = 2
  BY DEF Steps
<1>2. /\ <<"settle">> \in Seq(Steps)
      /\ \A i \in 1 .. Len(<<"settle">>) : <<"settle">>[i] \in OnTheWay
      /\ Len(<<"settle">>) = 1 /\ <<"settle">>[1] # "release"
  BY <1>1, OfOne DEF OnTheWay
<1>3. /\ <<"ask", "asked">> \in Seq(Steps)
      /\ \A i \in 1 .. Len(<<"ask", "asked">>) : <<"ask", "asked">>[i] \in OnTheWay
  BY <1>1, OfTwo DEF OnTheWay
<1>4. Advancing(<<"settle">>) /\ ~Holds(<<"settle">>)
  BY <1>2 DEF Advancing, Holds
<1> QED
  BY <1>2, <1>3, <1>4, Prefixed

LEMMA ResolvedIs ==
  ASSUME LockInv, NEW k \in Tasks, NEW items, NEW playback, NEW rest,
         PlayResolvedItem(k, items, playback, rest), Advancing(rest), Holds(rest) <=> Locked(k)
  PROVE  LockInv'
BY PlaysIs, SettleSteps DEF PlayResolvedItem

LEMMA StartedIs ==
  ASSUME LockInv, NEW k \in Tasks, NEW step, At(k, step),
         step \notin OnTheWay \cup {"release", "advance"},
         NEW items, NEW playback, StartPlaylistItem(k, items, playback)
  PROVE  LockInv'
<1>1. ~Locked(k)
  BY TailLegal DEF LockInv, TaskInv, At, Locked
<1>2. CASE Ends(k) /\ UNCHANGED page
  BY <1>2, Finishes DEF Quiet, LockInv
<1>3. CASE ~(Ends(k) /\ UNCHANGED page)
  <2>1. Advancing(<<"settle">>) /\ ~Holds(<<"settle">>)
    BY SettleSteps, NothingToDo
  <2>2. PICK played : Plays(k, items, played, TRUE, <<"settle">>)
    BY <1>3 DEF StartPlaylistItem
  <2> QED
    BY <1>1, <2>1, <2>2, PlaysIs
<1> QED
  BY <1>2, <1>3

LEMMA PageStays == ASSUME LockInv, UNCHANGED page PROVE Quiet
BY DEF LockInv, Quiet

-----------------------------------------------------------------------------
(* The calls the flows share, and advancePlayback.                         *)

LEMMA ReadKeeps == ASSUME LockInv, NEW k \in Tasks, Read(k) PROVE LockInv'
<1> DEFINE t == [Todo(k, Tail(tasks[k].todo)) EXCEPT !.read = stored]
<1>1. DOMAIN t = TaskFields /\ t.todo = Tail(tasks[k].todo) /\ t.remote = tasks[k].remote
  BY TodoIs DEF TaskFields, NoTask
<1>2. Becomes(k, t) /\ At(k, "read") /\ Quiet
  BY PageStays DEF Read
<1> HIDE DEF t
<1> QED
  BY <1>1, <1>2, TakesNext

LEMMA WriteKeeps ==
  ASSUME LockInv, NEW k \in Tasks,
         PutPlayback(k) \/ ClearOwned(k) \/ DropPlayback(k) \/ OpedOn(k) \/ OpedOff(k)
  PROVE  LockInv'
<1>1. Proceeds(k) /\ UNCHANGED page
  BY DEF PutPlayback, ClearOwned, DropPlayback, OpedOn, OpedOff, Writes
<1>2. \E step : At(k, step) /\ step \notin {"release", "advance"}
  BY DEF PutPlayback, ClearOwned, DropPlayback, OpedOn, OpedOff
<1> QED
  BY <1>1, <1>2, PageStays, Proceeding

LEMMA PageStepKeeps ==
  ASSUME LockInv, NEW k \in Tasks,
         \/ Settle(k) \/ StopEnds(k) \/ Ask(k) \/ Asked(k)
         \/ EnterOpEd(k) \/ PreviewBegins(k) \/ Unflag(k)
  PROVE  LockInv'
<1>1. Proceeds(k)
  BY DEF Settle, StopEnds, Ask, Asked, EnterOpEd, PreviewBegins, Unflag
<1>2. \E step : At(k, step) /\ step \notin {"release", "advance"}
  BY DEF Settle, StopEnds, Ask, Asked, EnterOpEd, PreviewBegins, Unflag
<1>3. DOMAIN page = PageFields
  BY DEF LockInv
<1>4. CASE Settle(k) \/ StopEnds(k) \/ Unflag(k)
  <2>1. Quiet
    BY <1>3, <1>4 DEF Settle, StopEnds, Unflag, Quiet, PageFields, Fresh
  <2> QED
    BY <1>1, <1>2, <2>1, Proceeding
<1>5. CASE Ask(k) \/ Asked(k)
  BY <1>1, <1>2, <1>5, PageStays, Proceeding DEF Ask, Asked
<1>6. CASE EnterOpEd(k) \/ PreviewBegins(k)
  <2>1. Quiet
    BY <1>3, <1>6, Contexts DEF EnterOpEd, PreviewBegins, Quiet
  <2> QED
    BY <1>1, <1>2, <2>1, Proceeding
<1> QED
  BY <1>4, <1>5, <1>6

\* The finally: the holder lets the lock go.
LEMMA ReleaseKeeps == ASSUME LockInv, NEW k \in Tasks, ReleaseAdvance(k) PROVE LockInv'
<1>1. Legal(tasks[k].todo) /\ tasks[k].todo # <<>> /\ Head(tasks[k].todo) = "release"
  BY DEF LockInv, TaskInv, ReleaseAdvance, At
<1>2. Legal(Tail(tasks[k].todo)) /\ ~Holds(Tail(tasks[k].todo)) /\ Locked(k)
  BY <1>1, TailLegal DEF Locked
<1>3. DOMAIN page' = PageFields /\ page'.advancing = FALSE
  BY Contexts DEF ReleaseAdvance, LockInv
<1> PICK t : t = Todo(k, Tail(tasks[k].todo))
  OBVIOUS
<1>4. Becomes(k, t) /\ DOMAIN t = TaskFields /\ t.todo = Tail(tasks[k].todo)
  BY TodoIs DEF ReleaseAdvance, Proceeds
<1> QED
  BY <1>2, <1>3, <1>4, Moves

LEMMA FailKeeps == ASSUME LockInv, NEW k \in Tasks, Fail(k) PROVE LockInv'
<1>1. TaskInv(k)
  BY DEF LockInv
<1>2. Legal(FailedTodo(k)) /\ (Holds(FailedTodo(k)) <=> Locked(k))
  <2>1. CASE tasks[k].remote
    BY <1>1, <2>1, NothingToDo DEF FailedTodo, TaskInv
  <2>2. CASE ~tasks[k].remote
    BY <1>1, <2>2, RecoveredLegal DEF FailedTodo, TaskInv, Locked
  <2> QED
    BY <2>1, <2>2
<1> PICK t : t = Todo(k, FailedTodo(k))
  OBVIOUS
<1>3. /\ Becomes(k, t) /\ DOMAIN t = TaskFields /\ t.todo = FailedTodo(k)
      /\ t.remote = tasks[k].remote
  BY TodoIs DEF Fail
<1>4. t.remote => ~Holds(t.todo)
  BY <1>1, <1>2, <1>3 DEF TaskInv
<1>5. Quiet
  BY PageStays DEF Fail
<1> QED
  BY <1>2, <1>3, <1>4, <1>5, Moves DEF Quiet

\* Who advances takes the lock, and nobody held it.
LEMMA AdvanceKeeps == ASSUME LockInv, NEW step, Advance(step) PROVE LockInv'
<1> DEFINE t == [NoTask EXCEPT !.todo = <<"advance", "release">>, !.generation = page.generation,
                               !.next = page.playback, !.ask = step]
<1>1. /\ DOMAIN t = TaskFields /\ t.todo = <<"advance", "release">> /\ t.remote = FALSE
  BY DEF TaskFields, NoTask
<1>2. FreeTasks # {} /\ Becomes(NewTask, t) /\ ~page.advancing
      /\ page' = [page EXCEPT !.advancing = TRUE]
  BY DEF Advance, StartsWith
<1> HIDE DEF t
<1>3. DOMAIN page' = PageFields /\ page'.advancing = TRUE /\ page.advancing = FALSE
  BY <1>2 DEF LockInv, OneHolder, PageFields, Fresh
<1>4. Holds(t.todo) /\ Legal(t.todo)
  <2>1. Len(t.todo) = 2 /\ t.todo[2] = "release" /\ t.todo # <<>>
    BY <1>1, Opening, EmptySeq
  <2> QED
    BY <1>1, <2>1 DEF Holds, Legal
<1>5. NewTask \in Tasks
  BY <1>2, NewTaskIs
<1> QED
  BY <1>1, <1>2, <1>3, <1>4, <1>5, Moves

LEMMA AdvanceFoundKeeps == ASSUME LockInv, NEW k \in Tasks, AdvanceFound(k) PROVE LockInv'
<1>1. TaskInv(k) /\ DOMAIN page = PageFields
  BY DEF LockInv
<1>2. tasks[k].todo = <<"advance", "release">> /\ Tail(tasks[k].todo) = <<"release">>
  BY <1>1, TailLegal DEF AdvanceFound, At, TaskInv
<1>3. /\ Locked(k) /\ ~tasks[k].remote
      /\ Advancing(Rest(k)) /\ Holds(Rest(k))
  <2>1. Len(tasks[k].todo) = 2 /\ tasks[k].todo[2] = "release" /\ tasks[k].todo # <<>>
    BY <1>2, Opening, EmptySeq
  <2>2. Locked(k) /\ Head(tasks[k].todo) = "advance"
    BY <2>1 DEF Locked, Holds, AdvanceFound, At
  <2>3. Legal(Tail(tasks[k].todo)) /\ Holds(Tail(tasks[k].todo))
    BY <1>1, <2>1, <2>2, TailLegal DEF TaskInv, Locked
  <2> QED
    BY <1>1, <2>2, <2>3, FinallyIs DEF TaskInv, Rest
<1>4. \/ page' = Release(page) /\ Ends(k)
      \/ /\ page' = [Release(page) EXCEPT !.menu = TRUE]
         /\ Becomes(k, [tasks[k] EXCEPT !.todo = <<"menu">>, !.list = playlist])
      \/ page' = Stopped(page) /\ Becomes(k, Todo(k, StopSteps \o Rest(k)))
      \/ \E playback : PlayResolvedItem(k, playlist, playback, Rest(k))
  BY DEF AdvanceFound
<1>5. CASE page' = Release(page) /\ Ends(k)
  <2> PICK t : t = NoTask
    OBVIOUS
  <2>1. Becomes(k, t) /\ DOMAIN t = TaskFields /\ Legal(t.todo) /\ ~Holds(t.todo)
    BY <1>5, TodoIs, NothingToDo DEF Ends
  <2>2. DOMAIN page' = PageFields /\ page'.advancing = FALSE
    BY <1>1, <1>5, Contexts
  <2> QED
    BY <1>3, <2>1, <2>2, Moves
<1>6. CASE /\ page' = [Release(page) EXCEPT !.menu = TRUE]
           /\ Becomes(k, [tasks[k] EXCEPT !.todo = <<"menu">>, !.list = playlist])
  <2> PICK t : t = [tasks[k] EXCEPT !.todo = <<"menu">>, !.list = playlist]
    OBVIOUS
  <2>1. Becomes(k, t) /\ DOMAIN t = TaskFields /\ t.todo = <<"menu">>
    BY <1>1, <1>6 DEF TaskInv, TaskFields, NoTask
  <2>2. Legal(t.todo) /\ ~Holds(t.todo)
    <3>1. "menu" \in Steps
      BY DEF Steps
    <3> QED
      BY <2>1, <3>1, UnlockedOne, UnlockedIs
  <2>3. DOMAIN page' = PageFields /\ page'.advancing = FALSE
    BY <1>1, <1>6, Contexts DEF PageFields, Fresh
  <2> QED
    BY <1>3, <2>1, <2>2, <2>3, Moves
<1>7. CASE page' = Stopped(page) /\ Becomes(k, Todo(k, StopSteps \o Rest(k)))
  <2> PICK t : t = Todo(k, StopSteps \o Rest(k))
    OBVIOUS
  <2>1. /\ Becomes(k, t) /\ DOMAIN t = TaskFields /\ t.todo = StopSteps \o Rest(k)
        /\ t.remote = tasks[k].remote
    BY <1>7, TodoIs
  <2>2. Advancing(t.todo) /\ Holds(t.todo)
    BY <1>3, <2>1, StopStepsAre, Prefixed
  <2>3. Quiet
    BY <1>1, <1>7, Contexts DEF Quiet
  <2> QED
    BY <1>3, <2>1, <2>2, <2>3, Moves DEF Quiet, Legal
<1>8. CASE \E playback : PlayResolvedItem(k, playlist, playback, Rest(k))
  BY <1>3, <1>8, ResolvedIs
<1> QED
  BY <1>4, <1>5, <1>6, <1>7, <1>8

-----------------------------------------------------------------------------
(* Flows that never hold the lock.                                         *)

\* The lists of steps such flows are given.
LEMMA Lists ==
  /\ Unlocked(<<"restart">>) /\ Unlocked(<<"begin">>) /\ Unlocked(<<"jump">>)
  /\ Unlocked(<<"jumpStored">>) /\ Unlocked(<<"jumpList">>) /\ Unlocked(<<"confirm">>)
  /\ Unlocked(<<"params">>) /\ Unlocked(<<"notice">>) /\ Unlocked(<<"resume">>)
  /\ Unlocked(<<"paramsOrder">>) /\ Unlocked(<<"opedCheck">>) /\ Unlocked(<<"resumeList">>)
  /\ Unlocked(<<"switch">>) /\ Unlocked(DropSteps) /\ Unlocked(<<"read", "opedOff", "unflag">>)
  /\ Unlocked(<<"read", "opedOn", "enterOpEd">>) /\ Unlocked(<<"read", "putPlayback", "ask">>)
  /\ Unlocked(<<"read", "dropPlayback">>)
<1>1. {"restart", "begin", "jump", "jumpStored", "jumpList", "confirm", "params", "notice", "resume",
       "paramsOrder", "opedCheck", "resumeList", "switch", "read", "opedOff", "unflag", "opedOn",
       "enterOpEd", "putPlayback", "ask", "dropPlayback"} \subseteq Steps
  BY DEF Steps, StoreCalls
<1>2. /\ Unlocked(<<"restart">>) /\ Unlocked(<<"begin">>) /\ Unlocked(<<"jump">>)
      /\ Unlocked(<<"jumpStored">>) /\ Unlocked(<<"jumpList">>) /\ Unlocked(<<"confirm">>)
      /\ Unlocked(<<"params">>) /\ Unlocked(<<"notice">>) /\ Unlocked(<<"resume">>)
      /\ Unlocked(<<"paramsOrder">>) /\ Unlocked(<<"opedCheck">>) /\ Unlocked(<<"resumeList">>)
      /\ Unlocked(<<"switch">>)
  BY <1>1, UnlockedOne
<1>3. Unlocked(<<"read", "dropPlayback">>)
  BY <1>1, UnlockedTwo
<1>4. /\ Unlocked(<<"read", "opedOff", "unflag">>) /\ Unlocked(<<"read", "opedOn", "enterOpEd">>)
      /\ Unlocked(<<"read", "putPlayback", "ask">>) /\ Unlocked(<<"read", "dropPlayback", "opedCheck">>)
  BY <1>1, UnlockedThree
<1> QED
  BY <1>2, <1>3, <1>4 DEF DropSteps

\* Turning to one of these lists.
LEMMA TurnsTo ==
  ASSUME LockInv, Quiet, NEW k \in Tasks, NEW step, At(k, step),
         step \notin OnTheWay \cup {"release", "advance"},
         NEW s, Unlocked(s), Becomes(k, Todo(k, s))
  PROVE  LockInv'
BY TodoIs, UnlockedIs, Turns

\* Starting with one of them.
LEMMA StartsTo ==
  ASSUME LockInv, Quiet, NEW s, Unlocked(s),
         Starts(s) \/ \E ask : StartsWith(s, ask)
  PROVE  LockInv'
<1>1. CASE Starts(s)
  <2> DEFINE t == [NoTask EXCEPT !.todo = s, !.generation = page.generation]
  <2>1. DOMAIN t = TaskFields /\ t.todo = s
    BY DEF TaskFields, NoTask
  <2>2. FreeTasks # {} /\ Becomes(NewTask, t)
    BY <1>1 DEF Starts
  <2> HIDE DEF t
  <2> QED
    BY <2>1, <2>2, UnlockedIs, Begins
<1>2. ASSUME NEW ask, StartsWith(s, ask) PROVE LockInv'
  <2> DEFINE t == [NoTask EXCEPT !.todo = s, !.generation = page.generation,
                                 !.next = page.playback, !.ask = ask]
  <2>1. DOMAIN t = TaskFields /\ t.todo = s
    BY DEF TaskFields, NoTask
  <2>2. FreeTasks # {} /\ Becomes(NewTask, t)
    BY <1>2 DEF StartsWith
  <2> HIDE DEF t
  <2> QED
    BY <2>1, <2>2, UnlockedIs, Begins
<1> QED
  BY <1>1, <1>2

LEMMA StoppedIs == ASSUME LockInv, page' = Stopped(page) PROVE Quiet
BY Contexts DEF LockInv, Quiet

\* A task that is at a step outside advancePlayback does not hold the lock.
LEMMA Outside ==
  ASSUME LockInv, NEW k \in Tasks, NEW step, At(k, step),
         step \notin OnTheWay \cup {"release", "advance"}
  PROVE  ~Locked(k)
BY TailLegal DEF LockInv, TaskInv, At, Locked

LEMMA MenuKeeps == ASSUME LockInv, NEW k \in Tasks, MenuCloses(k) PROVE LockInv'
<1>1. At(k, "menu") /\ "menu" \notin OnTheWay \cup {"release", "advance"}
  BY DEF MenuCloses, OnTheWay
<1>2. CASE Ends(k) /\ UNCHANGED page
  BY <1>1, <1>2, PageStays, Finishes
<1>3. CASE ~(Ends(k) /\ UNCHANGED page)
  <2>1. /\ page' = Stopped(page)
        /\ \/ Becomes(k, Todo(k, StopSteps \o <<"restart">>))
           \/ Becomes(k, Todo(k, StopSteps))
    BY <1>3 DEF MenuCloses
  <2>2. Unlocked(StopSteps) /\ Unlocked(StopSteps \o <<"restart">>)
    BY StopStepsAre, Lists, UnlockedJoined
  <2> QED
    BY <1>1, <2>1, <2>2, StoppedIs, TurnsTo
<1> QED
  BY <1>2, <1>3

LEMMA ConfirmKeeps == ASSUME LockInv, NEW k \in Tasks, ConfirmCloses(k) PROVE LockInv'
<1>1. At(k, "confirm") /\ "confirm" \notin OnTheWay \cup {"release", "advance"}
  BY DEF ConfirmCloses, OnTheWay
<1>2. CASE Ends(k) /\ UNCHANGED page
  BY <1>1, <1>2, PageStays, Finishes
<1>3. CASE page' = Stopped(page) /\ Becomes(k, Todo(k, StopSteps \o <<"begin">>))
  <2>1. Unlocked(StopSteps \o <<"begin">>)
    BY StopStepsAre, Lists, UnlockedJoined
  <2> QED
    BY <1>1, <1>3, <2>1, StoppedIs, TurnsTo
<1> QED
  BY <1>2, <1>3 DEF ConfirmCloses

LEMMA ResumesIs ==
  ASSUME LockInv, NEW k \in Tasks, NEW step, At(k, step),
         step \notin OnTheWay \cup {"release", "advance"}, ThenResume(k)
  PROVE  LockInv'
<1>1. UNCHANGED page /\ (Becomes(k, Todo(k, <<"resume">>)) \/ Ends(k))
  BY DEF ThenResume
<1> QED
  BY <1>1, PageStays, Lists, TurnsTo, Finishes

LEMMA NoticeKeeps == ASSUME LockInv, NEW k \in Tasks, NoticeCloses(k) PROVE LockInv'
BY ResumesIs DEF NoticeCloses, OnTheWay

LEMMA RestartKeeps == ASSUME LockInv, NEW k \in Tasks, Restart(k) PROVE LockInv'
<1>1. ~Locked(k)
  BY Outside DEF Restart, OnTheWay
<1>2. \E playback : PlayResolvedItem(k, tasks[k].list, playback, <<>>)
  BY DEF Restart
<1> QED
  BY <1>1, <1>2, ResolvedIs, NothingToDo

LEMMA JumpsIs ==
  ASSUME LockInv, NEW k \in Tasks, NEW step, At(k, step),
         step \notin OnTheWay \cup {"release", "advance"}, NEW playback, JumpTo(k, playback)
  PROVE  LockInv'
<1>1. ~Locked(k)
  BY Outside
<1>2. \/ \E p : PlayResolvedItem(k, playlist, p, <<>>)
      \/ Ends(k) /\ UNCHANGED page
  BY DEF JumpTo
<1> QED
  BY <1>1, <1>2, ResolvedIs, NothingToDo, Finishes, PageStays

LEMMA JumpFoundKeeps == ASSUME LockInv, NEW k \in Tasks, JumpFound(k) \/ JumpList(k) PROVE LockInv'
<1>1. \E step \in {"jump", "jumpList"} : At(k, step)
  BY DEF JumpFound, JumpList
<1>2. {"jump", "jumpList"} \cap (OnTheWay \cup {"release", "advance"}) = {}
  BY DEF OnTheWay
<1>3. \/ \E playback : JumpTo(k, playback)
      \/ Ends(k) /\ UNCHANGED page
  BY DEF JumpFound, JumpList
<1> QED
  BY <1>1, <1>2, <1>3, JumpsIs, Finishes, PageStays

LEMMA JumpStoredKeeps == ASSUME LockInv, NEW k \in Tasks, JumpStored(k) PROVE LockInv'
<1>1. At(k, "jumpStored") /\ "jumpStored" \notin OnTheWay \cup {"release", "advance"} /\ Quiet
  BY PageStays DEF JumpStored, OnTheWay
<1> DEFINE t == [Todo(k, <<"jumpList">>) EXCEPT !.read = stored]
<1>2. DOMAIN t = TaskFields /\ t.todo = <<"jumpList">>
  BY TodoIs DEF TaskFields, NoTask
<1>3. Ends(k) \/ Becomes(k, t)
  BY DEF JumpStored
<1> HIDE DEF t
<1> QED
  BY <1>1, <1>2, <1>3, Lists, UnlockedIs, Turns, Finishes

LEMMA ParamsKeeps == ASSUME LockInv, NEW k \in Tasks, Params(k) PROVE LockInv'
<1>1. At(k, "params") /\ "params" \notin OnTheWay \cup {"release", "advance"}
  BY DEF Params, OnTheWay
<1> DEFINE t == [Todo(k, <<"paramsOrder">>) EXCEPT !.list = playlist]
<1>2. DOMAIN t = TaskFields /\ t.todo = <<"paramsOrder">>
  BY TodoIs DEF TaskFields, NoTask
<1>3. (Becomes(k, t) /\ UNCHANGED page) \/ ThenResume(k)
  BY DEF Params
<1> HIDE DEF t
<1> QED
  BY <1>1, <1>2, <1>3, Lists, UnlockedIs, PageStays, Turns, ResumesIs

LEMMA ParamsOrderKeeps == ASSUME LockInv, NEW k \in Tasks, ParamsOrder(k) PROVE LockInv'
<1>1. At(k, "paramsOrder") /\ "paramsOrder" \notin OnTheWay \cup {"release", "advance"}
  BY DEF ParamsOrder, OnTheWay
<1>2. \/ \E playback : StartPlaylistItem(k, tasks[k].list, playback)
      \/ Ends(k) /\ UNCHANGED page
  BY DEF ParamsOrder
<1> QED
  BY <1>1, <1>2, StartedIs, Finishes, PageStays

LEMMA ResumeKeeps == ASSUME LockInv, NEW k \in Tasks, Resume(k) PROVE LockInv'
<1>1. At(k, "resume") /\ "resume" \notin OnTheWay \cup {"release", "advance"} /\ Quiet
  BY PageStays DEF Resume, OnTheWay
<1> DEFINE t(s) == [Todo(k, s) EXCEPT !.read = stored]
<1>2. \A s : DOMAIN t(s) = TaskFields /\ t(s).todo = s
  BY TodoIs DEF TaskFields, NoTask
<1>3. \/ Becomes(k, NoTask)
      \/ Becomes(k, t(<<"opedCheck">>)) \/ Becomes(k, t(<<"resumeList">>)) \/ Becomes(k, t(DropSteps))
  BY DEF Resume
<1> HIDE DEF t
<1>4. CASE Becomes(k, NoTask)
  BY <1>1, <1>4, Finishes DEF Ends
<1>5. CASE Becomes(k, t(<<"opedCheck">>)) \/ Becomes(k, t(<<"resumeList">>)) \/ Becomes(k, t(DropSteps))
  <2>1. PICK s : Becomes(k, t(s)) /\ Unlocked(s)
    BY <1>5, Lists
  <2> QED
    BY <1>1, <1>2, <2>1, UnlockedIs, Turns
<1> QED
  BY <1>3, <1>4, <1>5

LEMMA ResumeListKeeps == ASSUME LockInv, NEW k \in Tasks, ResumeList(k) PROVE LockInv'
<1>1. At(k, "resumeList") /\ "resumeList" \notin OnTheWay \cup {"release", "advance"}
  BY DEF ResumeList, OnTheWay
<1>2. ~Locked(k)
  BY <1>1, Outside
<1>3. \/ Ends(k) /\ UNCHANGED page
      \/ Becomes(k, Todo(k, DropSteps)) /\ UNCHANGED page
      \/ \E playback : StartPlaylistItem(k, playlist, playback)
      \/ \E playback : PlayResolvedItem(k, playlist, playback, <<>>)
  BY DEF ResumeList
<1>4. CASE Ends(k) /\ UNCHANGED page
  BY <1>1, <1>4, Finishes, PageStays
<1>5. CASE Becomes(k, Todo(k, DropSteps)) /\ UNCHANGED page
  BY <1>1, <1>5, Lists, TurnsTo, PageStays
<1>6. CASE \E playback : StartPlaylistItem(k, playlist, playback)
  BY <1>1, <1>6, StartedIs
<1>7. CASE \E playback : PlayResolvedItem(k, playlist, playback, <<>>)
  BY <1>2, <1>7, ResolvedIs, NothingToDo
<1> QED
  BY <1>3, <1>4, <1>5, <1>6, <1>7

LEMMA OpEdCheckKeeps == ASSUME LockInv, NEW k \in Tasks, OpEdCheck(k) PROVE LockInv'
<1>1. At(k, "opedCheck") /\ "opedCheck" \notin OnTheWay \cup {"release", "advance"}
  BY DEF OpEdCheck, OnTheWay
<1>2. \/ Ends(k) /\ (UNCHANGED page \/ page' = EnteredOpEd(page))
      \/ Becomes(k, Todo(k, <<"read", "opedOff", "unflag">>)) /\ UNCHANGED page
  BY DEF OpEdCheck
<1>3. Quiet
  BY <1>2, PageStays, Contexts DEF Quiet, LockInv
<1> QED
  BY <1>1, <1>2, <1>3, Lists, TurnsTo, Finishes

LEMMA SwitchFoundKeeps == ASSUME LockInv, NEW k \in Tasks, SwitchFound(k) PROVE LockInv'
<1>1. At(k, "switch") /\ "switch" \notin OnTheWay \cup {"release", "advance"}
  BY DEF SwitchFound, OnTheWay
<1>2. CASE Ends(k) /\ UNCHANGED page
  BY <1>1, <1>2, Finishes, PageStays
<1>3. CASE ~(Ends(k) /\ UNCHANGED page)
  <2>1. PICK playback, record :
          /\ page' = [page EXCEPT !.playback = playback]
          /\ Becomes(k, [Todo(k, Persist(record)) EXCEPT !.write = record])
    BY <1>3 DEF SwitchFound
  <2> DEFINE t == [Todo(k, Persist(record)) EXCEPT !.write = record]
  <2>2. DOMAIN t = TaskFields /\ t.todo = Persist(record)
    BY TodoIs DEF TaskFields, NoTask
  <2>3. Quiet
    BY <2>1 DEF Quiet, LockInv, PageFields, Fresh
  <2>4. Becomes(k, t)
    BY <2>1
  <2> HIDE DEF t
  <2> QED
    BY <1>1, <2>2, <2>3, <2>4, PersistIs, UnlockedIs, Turns
<1> QED
  BY <1>2, <1>3

-----------------------------------------------------------------------------
(* The user, the video, and the other surfaces.                            *)

LEMMA ChaptersKeep == ASSUME LockInv, ChaptersArrive PROVE LockInv'
<1> DEFINE c == [page EXCEPT !.seen = TRUE, !.url = Url(@.part, None, None),
                             !.skip = IF page.seen \/ page.mode # "idle" THEN @ ELSE "native",
                             !.blocked = @ /\ (page.seen \/ page.mode # "idle")]
           t(context, steps) ==
             [NoTask EXCEPT !.todo = steps, !.generation = context.generation, !.ask = page.url]
           Opened == StopSteps \o <<"read", "opedOn", "enterOpEd">>
<1>1. DOMAIN c = PageFields /\ c.advancing = page.advancing
  BY DEF LockInv, PageFields, Fresh
<1>2. \A context, steps : DOMAIN t(context, steps) = TaskFields /\ t(context, steps).todo = steps
  BY DEF TaskFields, NoTask
<1>3. /\ FreeTasks # {}
      /\ \/ page' = c /\ Becomes(NewTask, t(c, <<"params">>))
         \/ page' = c /\ Becomes(NewTask, t(c, <<"notice">>))
         \/ page' = Stopped(c) /\ Becomes(NewTask, t(Stopped(c), Opened))
         \/ page' = c /\ Becomes(NewTask, t(c, <<"resume">>))
         \/ page' = c /\ Becomes(NewTask, t(c, <<>>))
  BY DEF ChaptersArrive
<1>4. Unlocked(Opened)
  BY StopStepsAre, Lists, UnlockedJoined
<1> HIDE DEF c, t, Opened
<1>5. Quiet
  BY <1>1, <1>3, Contexts DEF Quiet
<1>6. PICK context, steps : Becomes(NewTask, t(context, steps)) /\ Unlocked(steps)
  BY <1>3, <1>4, Lists, NothingToDo
<1> QED
  BY <1>2, <1>3, <1>5, <1>6, UnlockedIs, Begins

LEMMA RemoteKeeps ==
  ASSUME LockInv, NEW playback, NEW index, StartsRemotely(playback, index) PROVE LockInv'
<1> PICK record :
      /\ FreeTasks # {}
      /\ Becomes(NewTask, [NoTask EXCEPT !.todo = <<"read", "putPlayback", "ask">>, !.remote = TRUE,
                                         !.write = record, !.list = playlist, !.next = playback])
  BY DEF StartsRemotely
<1> DEFINE t == [NoTask EXCEPT !.todo = <<"read", "putPlayback", "ask">>, !.remote = TRUE,
                               !.write = record, !.list = playlist, !.next = playback]
<1>1. DOMAIN t = TaskFields /\ t.todo = <<"read", "putPlayback", "ask">> /\ Becomes(NewTask, t)
  BY DEF TaskFields, NoTask
<1> HIDE DEF t
<1>2. Quiet
  BY PageStays DEF StartsRemotely
<1> QED
  BY <1>1, <1>2, Lists, UnlockedIs, Begins

LEMMA EditKeeps == ASSUME LockInv, NEW items, EditPlaylist(items) PROVE LockInv'
<1>1. Quiet
  BY PageStays DEF EditPlaylist
<1>2. CASE UNCHANGED tasks
  BY <1>1, <1>2, Rests
<1>3. CASE tasks' # tasks
  <2> DEFINE t == [NoTask EXCEPT !.todo = <<"read", "dropPlayback">>, !.remote = TRUE]
  <2>1. DOMAIN t = TaskFields /\ t.todo = <<"read", "dropPlayback">>
    BY DEF TaskFields, NoTask
  <2>2. FreeTasks # {} /\ Becomes(NewTask, t)
    BY <1>3 DEF EditPlaylist
  <2> HIDE DEF t
  <2> QED
    BY <1>1, <2>1, <2>2, Lists, UnlockedIs, Begins
<1> QED
  BY <1>2, <1>3

\* A page loaded anew advances nowhere; the other surfaces' flows go on.
LEMMA OpensKeeps == ASSUME LockInv, NEW url, Opens(url) PROVE LockInv'
<1>1. /\ page' = Fresh(url, page.token + 1, page.flag)
      /\ tasks' = [k \in Tasks |-> IF tasks[k].remote THEN tasks[k] ELSE NoTask]
  BY DEF Opens
<1>2. DOMAIN page' = PageFields /\ page'.advancing = FALSE
  BY <1>1 DEF PageFields, Fresh
<1>3. ASSUME NEW k \in Tasks PROVE TaskInv(k)' /\ ~Locked(k)'
  <2>1. tasks'[k] = IF tasks[k].remote THEN tasks[k] ELSE NoTask
    BY <1>1
  <2>2. CASE tasks[k].remote
    BY <2>1, <2>2 DEF LockInv, TaskInv, Locked
  <2>3. CASE ~tasks[k].remote
    BY <2>1, <2>3, NothingToDo DEF TaskInv, Locked, NoTask, TaskFields
  <2> QED
    BY <2>2, <2>3
<1>4. OneHolder'
  BY <1>2, <1>3 DEF OneHolder
<1>5. DOMAIN tasks' = Tasks
  BY <1>1
<1> QED
  BY <1>2, <1>3, <1>4, <1>5 DEF LockInv

LEMMA UserKeeps ==
  ASSUME LockInv,
         \/ ClickStop \/ SwitchItem \/ BeginPreview \/ TestPreview \/ CancelPreview
         \/ InRange \/ Expire \/ \E i \in Wanted : Jump(i)
  PROVE  LockInv'
<1>1. CASE ClickStop
  BY <1>1, StoppedIs, StopStepsAre, StartsTo DEF ClickStop
<1>2. CASE SwitchItem
  BY <1>2, PageStays, Lists, StartsTo DEF SwitchItem
<1>3. CASE BeginPreview
  <2>1. Quiet
    BY <1>3, PageStays, Contexts DEF BeginPreview, Quiet, LockInv
  <2>2. UNCHANGED tasks \/ Starts(<<"confirm">>)
    BY <1>3 DEF BeginPreview
  <2> QED
    BY <2>1, <2>2, Rests, Lists, StartsTo
<1>4. CASE TestPreview \/ CancelPreview \/ InRange
  <2>1. Quiet /\ UNCHANGED tasks
    BY <1>4 DEF TestPreview, CancelPreview, InRange, Quiet, LockInv, PageFields, Fresh
  <2> QED
    BY <2>1, Rests
<1>5. CASE Expire
  BY <1>5, PageStays, Rests DEF Expire
<1>6. ASSUME NEW i \in Wanted, Jump(i) PROVE LockInv'
  BY <1>6, PageStays, Lists, StartsTo DEF Jump
<1> QED
  BY <1>1, <1>2, <1>3, <1>4, <1>5, <1>6

-----------------------------------------------------------------------------
LEMMA RunsKeep == ASSUME LockInv, NEW k \in Tasks, Runs(k) PROVE LockInv'
BY ReadKeeps, WriteKeeps, PageStepKeeps, ReleaseKeeps, AdvanceFoundKeeps, RestartKeeps, JumpFoundKeeps,
   JumpStoredKeeps, ParamsKeeps, ParamsOrderKeeps, ResumeKeeps, ResumeListKeeps, OpEdCheckKeeps,
   SwitchFoundKeeps
   DEF Runs

LEMMA StepKeeps == ASSUME LockInv, [Next]_vars PROVE LockInv'
<1>1. ASSUME NEW k \in Tasks, Runs(k) \/ Answers(k) \/ Fail(k) PROVE LockInv'
  BY <1>1, RunsKeep, MenuKeeps, ConfirmKeeps, NoticeKeeps, FailKeeps DEF Answers
<1>2. CASE ChaptersArrive
  BY <1>2, ChaptersKeep
<1>3. CASE ClickNext \/ ClickPrevious \/ RunsOut
  BY <1>3, AdvanceKeeps DEF ClickNext, ClickPrevious, RunsOut
<1>4. CASE \/ ClickStop \/ SwitchItem \/ BeginPreview \/ TestPreview \/ CancelPreview
           \/ InRange \/ Expire \/ \E i \in Wanted : Jump(i)
  BY <1>4, UserKeeps
<1>5. CASE StartShuffle \/ ShuffleFromHere \/ \E i \in Wanted : StartItem(i)
  BY <1>5, RemoteKeeps DEF StartShuffle, ShuffleFromHere, StartItem
<1>6. CASE \E items \in Edits : EditPlaylist(items)
  BY <1>6, EditKeeps
<1>7. CASE OpenUrl \/ Reload
  BY <1>7, OpensKeeps DEF OpenUrl, Reload
<1>8. CASE UNCHANGED vars
  BY <1>8, PageStays, Rests DEF vars
<1> QED
  BY <1>1, <1>2, <1>3, <1>4, <1>5, <1>6, <1>7, <1>8 DEF Next

LEMMA InitInv == Init => LockInv
<1> SUFFICES ASSUME Init PROVE LockInv
  OBVIOUS
<1>1. DOMAIN page = PageFields /\ page.advancing = FALSE
  BY DEF Init, PageFields, Fresh
<1>2. DOMAIN tasks = Tasks /\ \A k \in Tasks : tasks[k] = NoTask
  BY DEF Init
<1>3. \A k \in Tasks : TaskInv(k) /\ ~Locked(k)
  BY <1>2, NothingToDo DEF TaskInv, TaskFields, Locked, NoTask
<1>4. OneHolder
  BY <1>1, <1>3 DEF OneHolder
<1> QED
  BY <1>1, <1>2, <1>3, <1>4 DEF LockInv

\* At most one flow has yet to release the lock of advancePlayback, and there is
\* one just when the page says that it advances (playlist-flow.ts).
THEOREM LockIsKept == Spec => []LockInv
<1>1. LockInv /\ UNCHANGED vars => LockInv'
  BY StepKeeps
<1> QED
  BY InitInv, StepKeeps, PTL DEF Spec

\* The lock of advancePlayback is held by one flow, which has yet to release it,
\* and by nobody else, whatever fails on the way.
THEOREM AdvanceIsHeldOnce == Spec => []AdvanceHasOneHolder
<1>1. ASSUME LockInv PROVE AdvanceHasOneHolder
  <2> DEFINE holders == {k \in Tasks : "release" \in Elements(tasks[k].todo)}
  <2>1. holders = {k \in Tasks : Locked(k)}
    BY <1>1, HoldsElements DEF LockInv, TaskInv, Locked
  <2>2. CASE page.advancing
    <3>1. PICK k \in Tasks : Locked(k)
      BY <1>1, <2>2 DEF LockInv, OneHolder
    <3>2. holders = {k}
      BY <1>1, <2>1, <3>1 DEF LockInv, OneHolder
    <3> QED
      BY <2>2, <3>2, FS_Singleton DEF AdvanceHasOneHolder
  <2>3. CASE ~page.advancing
    <3>1. holders = {}
      BY <1>1, <2>1, <2>3 DEF LockInv, OneHolder
    <3> QED
      BY <2>3, <3>1, FS_EmptySet DEF AdvanceHasOneHolder
  <2> QED
    BY <2>2, <2>3
<1> QED
  BY <1>1, LockIsKept, PTL

-----------------------------------------------------------------------------
(* Play orders.  What follows is about the playlist as it was at first.    *)

Ids == IdsOf(Start)
Size == Len(Start)

\* s has n places and names each member of T once.
Enumerates(s, n, T) ==
  /\ s \in [1 .. n -> T] /\ \A i, j \in 1 .. n : s[i] = s[j] => i = j
  /\ \A e \in T : \E i \in 1 .. n : s[i] = e

LEMMA BijectionIs ==
  ASSUME NEW n \in Nat, NEW T, NEW s
  PROVE  s \in Bijection(1 .. n, T) <=> Enumerates(s, n, T)
BY DEF Bijection, Injection, Surjection, IsInjective, Enumerates

LEMMA IdsAre ==
  /\ Size \in Nat /\ DOMAIN Start = 1 .. Size /\ DOMAIN Ids = 1 .. Size
  /\ Enumerates(Ids, Size, Elements(Ids)) /\ \A i \in 1 .. Size : Ids[i] = Start[i].id
<1>1. Start \in Seq(Elements(Start)) /\ ~HasDuplicate(IdsOf(Start))
  BY PlayerAssumption
<1>2. Size \in Nat /\ DOMAIN Start = 1 .. Size
  BY <1>1, LenProperties DEF Size
<1>3. Ids = [i \in 1 .. Size |-> Start[i].id]
  BY <1>2 DEF Ids, IdsOf
<1>4. DOMAIN Ids = 1 .. Size /\ \A i \in 1 .. Size : Ids[i] = Start[i].id
  BY <1>3
<1>5. Elements(Ids) = {Ids[i] : i \in 1 .. Size}
  BY <1>4 DEF Elements
<1>6. \A i, j \in 1 .. Size : Ids[i] = Ids[j] => i = j
  BY <1>1, <1>4 DEF HasDuplicate, Ids
<1>7. Ids \in [1 .. Size -> Elements(Ids)]
  BY <1>3, <1>4, <1>5
<1> QED
  BY <1>2, <1>4, <1>5, <1>6, <1>7 DEF Enumerates

LEMMA ElementsAre ==
  ASSUME NEW n \in Nat, NEW T, NEW s, Enumerates(s, n, T)
  PROVE  Elements(s) = T /\ DOMAIN s = 1 .. n
<1>1. DOMAIN s = 1 .. n
  BY DEF Enumerates
<1> QED
  BY <1>1 DEF Enumerates, Elements

\* Where an element stands in a list without duplicates.
LEMMA PositionIs ==
  ASSUME NEW n \in Nat, NEW T, NEW s, Enumerates(s, n, T), NEW e \in T
  PROVE  Position(s, e) \in 1 .. n /\ s[Position(s, e)] = e
<1>1. DOMAIN s = 1 .. n
  BY DEF Enumerates
<1> PICK i \in 1 .. n : s[i] = e
  BY DEF Enumerates
<1>3. \A j \in 1 .. i - 1 : s[j] # e
  <2> SUFFICES ASSUME NEW j \in 1 .. i - 1 PROVE s[j] # e
    OBVIOUS
  <2>1. j \in 1 .. n /\ j # i
    OBVIOUS
  <2> QED
    BY <2>1 DEF Enumerates
<1>4. \E p \in DOMAIN s : s[p] = e /\ \A j \in 1 .. p - 1 : s[j] # e
  BY <1>1, <1>3
<1>5. /\ Position(s, e) \in DOMAIN s /\ s[Position(s, e)] = e
  BY <1>4 DEF Position
<1> QED
  BY <1>1, <1>5

LEMMA PositionAt ==
  ASSUME NEW n \in Nat, NEW T, NEW s, Enumerates(s, n, T), NEW i \in 1 .. n
  PROVE  Position(s, s[i]) = i
<1> PICK e \in T : e = s[i]
  BY DEF Enumerates
<1>1. Position(s, e) \in 1 .. n /\ s[Position(s, e)] = e
  BY PositionIs
<1> QED
  BY <1>1 DEF Enumerates

\* All of a list picked is the list, and nothing picked is nothing.
LEMMA PickedAll ==
  ASSUME NEW n \in Nat, NEW s, NEW T, s \in [1 .. n -> T]
  PROVE  Picked(s, 1 .. n) = s
<1>1. Cardinality(1 .. n) = n
  BY FS_Interval
<1>2. ASSUME NEW k \in 1 .. n
      PROVE  (CHOOSE p \in 1 .. n : Cardinality({q \in 1 .. n : q <= p}) = k) = k
  <2>1. ASSUME NEW p \in 1 .. n PROVE Cardinality({q \in 1 .. n : q <= p}) = p
    <3>1. {q \in 1 .. n : q <= p} = 1 .. p
      OBVIOUS
    <3>2. Cardinality(1 .. p) = p
      BY FS_Interval
    <3> QED
      BY <3>1, <3>2
  <2> QED
    BY <2>1
<1>3. Picked(s, 1 .. n) =
        [k \in 1 .. n |-> s[CHOOSE p \in 1 .. n : Cardinality({q \in 1 .. n : q <= p}) = k]]
  BY <1>1 DEF Picked
<1>4. Picked(s, 1 .. n) = [k \in 1 .. n |-> s[k]]
  BY <1>2, <1>3
<1> QED
  BY <1>4

LEMMA PickedNone == ASSUME NEW s PROVE Picked(s, {}) = <<>>
<1>1. Cardinality({}) = 0
  BY FS_EmptySet
<1>2. DOMAIN Picked(s, {}) = 1 .. 0
  BY <1>1 DEF Picked
<1>3. Picked(s, {}) = [k \in 1 .. 0 |-> Picked(s, {})[k]]
  BY <1>1 DEF Picked
<1>4. \A k \in 1 .. 0 : FALSE
  OBVIOUS
<1>5. <<>> = [k \in 1 .. 0 |-> <<>>[k]]
  BY EmptySeq
<1> QED
  BY <1>3, <1>4, <1>5

\* Nothing to reconcile in an order of all that is there.
LEMMA ReconciledAll ==
  ASSUME NEW o, Enumerates(o, Size, Elements(Ids))
  PROVE  Reconciled(Ids, o) = o
<1>1. DOMAIN o = 1 .. Size /\ Size \in Nat /\ DOMAIN Ids = 1 .. Size /\ o \in [1 .. Size -> Elements(Ids)]
  BY IdsAre DEF Enumerates
<1>2. {i \in DOMAIN o : o[i] \in Elements(Ids) /\ \A j \in 1 .. (i - 1) : o[j] # o[i]} = 1 .. Size
  <2> SUFFICES ASSUME NEW i \in 1 .. Size, NEW j \in 1 .. (i - 1)
               PROVE  o[i] \in Elements(Ids) /\ o[j] # o[i]
    BY <1>1
  <2>1. j \in 1 .. Size /\ j # i
    BY <1>1
  <2> QED
    BY <1>1, <2>1 DEF Enumerates
<1>3. FirstOccurrences(o, Elements(Ids)) = o
  BY <1>1, <1>2, PickedAll DEF FirstOccurrences
<1>4. Elements(o) = Elements(Ids)
  BY <1>1, ElementsAre
<1>5. {i \in DOMAIN Ids : Ids[i] \notin Elements(o)} = {}
  BY <1>1, <1>4, IdsAre DEF Enumerates
<1>6. Picked(Ids, {i \in DOMAIN Ids : Ids[i] \notin Elements(o)}) = <<>>
  BY <1>5, PickedNone
<1>7. o \in Seq(Elements(Ids))
  BY <1>1, IsASeq
<1>8. Reconciled(Ids, o) = o \o <<>>
  BY <1>3, <1>6 DEF Reconciled
<1> QED
  BY <1>7, <1>8, ConcatEmptySeq

LEMMA ReadinessAll ==
  ASSUME NEW item \in Elements(Ids)
  PROVE  Readiness(Ids, item) = "ready" /\ Ids # <<>> /\ Start # <<>> /\ Size > 0
<1>1. ~HasDuplicate(Ids)
  BY PlayerAssumption DEF Ids
<1>2. PICK i \in 1 .. Size : Ids[i] = item
  BY IdsAre DEF Enumerates
<1>3. Size \in Nat /\ Size > 0
  BY <1>2, IdsAre
<1>4. Ids # <<>> /\ Start # <<>>
  <2>1. DOMAIN Ids # {} /\ DOMAIN Start # {} /\ DOMAIN <<>> = {}
    BY <1>2, IdsAre, EmptySeq
  <2> QED
    BY <2>1
<1> QED
  BY <1>1, <1>3, <1>4 DEF Readiness

\* A playback of the playlist: a play order of all of it, and an item.
GoodPlayback(pb) ==
  /\ pb \in [order : [1 .. Size -> Elements(Ids)], item : Elements(Ids), shuffle : BOOLEAN]
  /\ Enumerates(pb.order, Size, Elements(Ids))
  /\ pb.shuffle \/ pb.order = Ids

\* What is stored of one.
GoodPositions(at) ==
  /\ at \in StoredPositions /\ at.index \in 1 .. Size
  /\ at.shuffled = <<>> \/ Enumerates(at.shuffled, Size, 1 .. Size)

\* The stored form of a play order.
OrderOf(pb) == ToTransient(Start, pb).shuffled

LEMMA StoredForm ==
  ASSUME NEW pb, GoodPlayback(pb)
  PROVE  /\ ToTransient(Start, pb) =
              [index    |-> Position(pb.order, pb.item),
               shuffled |-> IF pb.shuffle THEN [i \in 1 .. Size |-> Position(Ids, pb.order[i])]
                                          ELSE <<>>]
         /\ GoodPositions(ToTransient(Start, pb))
         /\ ToTransient(Start, pb) # NoPlayback
         /\ OrderOf(pb) = IF pb.shuffle THEN [i \in 1 .. Size |-> Position(Ids, pb.order[i])] ELSE <<>>
<1> PICK o, item : o = pb.order /\ item = pb.item
  OBVIOUS
<1>1. Enumerates(o, Size, Elements(Ids)) /\ item \in Elements(Ids) /\ Size \in Nat
  BY IdsAre DEF GoodPlayback
<1>2. DOMAIN o = 1 .. Size /\ Elements(o) = Elements(Ids) /\ Position(o, item) \in 1 .. Size
  BY <1>1, PositionIs, ElementsAre
<1> DEFINE s == [i \in 1 .. Size |-> Position(Ids, o[i])]
           at == [index |-> Position(o, item), shuffled |-> IF pb.shuffle THEN s ELSE <<>>]
<1>3. \A i \in 1 .. Size : s[i] \in 1 .. Size /\ Ids[s[i]] = o[i]
  <2> SUFFICES ASSUME NEW i \in 1 .. Size
               PROVE  Position(Ids, o[i]) \in 1 .. Size /\ Ids[Position(Ids, o[i])] = o[i]
    OBVIOUS
  <2> PICK e \in Elements(Ids) : e = o[i]
    BY <1>1 DEF Enumerates
  <2> QED
    BY PositionIs, IdsAre
<1>4. Enumerates(s, Size, 1 .. Size)
  <2>1. s \in [1 .. Size -> 1 .. Size]
    BY <1>3
  <2>2. ASSUME NEW i \in 1 .. Size, NEW j \in 1 .. Size, s[i] = s[j] PROVE i = j
    <3>1. o[i] = o[j]
      BY <1>3, <2>2
    <3> QED
      BY <1>1, <3>1 DEF Enumerates
  <2>3. ASSUME NEW p \in 1 .. Size PROVE \E i \in 1 .. Size : s[i] = p
    <3>1. Ids[p] \in Elements(Ids)
      BY IdsAre DEF Enumerates
    <3>2. PICK i \in 1 .. Size : o[i] = Ids[p]
      BY <1>1, <3>1 DEF Enumerates
    <3>3. Position(Ids, Ids[p]) = p
      BY IdsAre, PositionAt
    <3> QED
      BY <3>2, <3>3
  <2> HIDE DEF s
  <2> QED
    BY <2>1, <2>2, <2>3 DEF Enumerates
<1>5. ToTransient(Start, pb) = at
  BY <1>2, <1>1 DEF ToTransient, Ids
<1>6. pb.shuffle \in BOOLEAN
  BY DEF GoodPlayback
<1>7. at.index = Position(o, item) /\ at.shuffled = (IF pb.shuffle THEN s ELSE <<>>)
  OBVIOUS
<1>8. at # NoPlayback /\ at \in StoredPositions
  <2>1. s \in Seq(Nat) /\ <<>> \in Seq(Nat)
    <3>1. s \in [1 .. Size -> Nat]
      BY <1>1, <1>3
    <3> QED
      BY <1>1, <3>1, IsASeq, EmptySeq
  <2>2. at \in StoredPositions
    BY <1>1, <1>2, <1>6, <2>1 DEF StoredPositions
  <2> QED
    BY <2>2, AbsentAssumption
<1> HIDE DEF at, s
<1>9. GoodPositions(at)
  BY <1>2, <1>4, <1>6, <1>7, <1>8 DEF GoodPositions
<1> QED
  BY <1>5, <1>7, <1>8, <1>9 DEF OrderOf, at, s

\* The order at a list of all positions is one of all items.
LEMMA IdsAtIs ==
  ASSUME NEW ps, Enumerates(ps, Size, 1 .. Size)
  PROVE  /\ IdsAt(Ids, ps) = [i \in 1 .. Size |-> Ids[ps[i]]]
         /\ Enumerates(IdsAt(Ids, ps), Size, Elements(Ids))
<1>1. /\ ps \in [1 .. Size -> 1 .. Size] /\ DOMAIN ps = 1 .. Size /\ Size \in Nat
      /\ DOMAIN Ids = 1 .. Size /\ Enumerates(Ids, Size, Elements(Ids))
  BY IdsAre DEF Enumerates
<1>2. {i \in DOMAIN ps : ps[i] \in DOMAIN Ids} = 1 .. Size
  BY <1>1
<1>3. Picked(ps, {i \in DOMAIN ps : ps[i] \in DOMAIN Ids}) = ps
  BY <1>1, <1>2, PickedAll
<1> PICK o : o = [i \in 1 .. Size |-> Ids[ps[i]]]
  OBVIOUS
<1>4. IdsAt(Ids, ps) = o
  BY <1>1, <1>3 DEF IdsAt
<1>5. DOMAIN o = 1 .. Size /\ \A i \in 1 .. Size : ps[i] \in 1 .. Size /\ o[i] = Ids[ps[i]]
  BY <1>1
<1>6. o \in [1 .. Size -> Elements(Ids)]
  <2>1. \A i \in 1 .. Size : Ids[i] \in Elements(Ids)
    BY <1>1 DEF Enumerates
  <2> QED
    BY <1>1, <2>1
<1>7. \A i, j \in 1 .. Size : o[i] = o[j] => i = j
  BY <1>1, <1>5 DEF Enumerates
<1>8. ASSUME NEW e \in Elements(Ids) PROVE \E i \in 1 .. Size : o[i] = e
  <2>1. PICK p \in 1 .. Size : Ids[p] = e
    BY <1>1 DEF Enumerates
  <2>2. PICK i \in 1 .. Size : ps[i] = p
    BY DEF Enumerates
  <2> QED
    BY <1>5, <2>1, <2>2
<1>9. Enumerates(o, Size, Elements(Ids))
  BY <1>6, <1>7, <1>8 DEF Enumerates
<1> QED
  BY <1>4, <1>9

\* What was stored leads to a playback of the playlist.
LEMMA LedTo ==
  ASSUME NEW at, GoodPositions(at)
  PROVE  /\ GoodPlayback(FromTransient(Start, at))
         /\ FromTransient(Start, at).order = IF at.shuffled = <<>> THEN Ids ELSE IdsAt(Ids, at.shuffled)
         /\ FromTransient(Start, at).shuffle = (at.shuffled # <<>>)
         /\ FromTransient(Start, at).item =
              Ids[IF at.shuffled = <<>> THEN at.index ELSE at.shuffled[at.index]]
<1> PICK index, ps : index = at.index /\ ps = at.shuffled
  OBVIOUS
<1>1. /\ index \in 1 .. Size /\ (ps = <<>> \/ Enumerates(ps, Size, 1 .. Size))
      /\ DOMAIN Ids = 1 .. Size /\ Enumerates(Ids, Size, Elements(Ids))
  BY IdsAre DEF GoodPositions
<1>2. ps # <<>> => index \in DOMAIN ps /\ ps[index] \in 1 .. Size
  BY <1>1 DEF Enumerates
<1> PICK real : real = IF ps = <<>> THEN index ELSE ps[index]
  OBVIOUS
<1>3. real \in 1 .. Size /\ Ids[real] \in Elements(Ids)
  <2>1. real \in 1 .. Size
    BY <1>1, <1>2
  <2> QED
    BY <1>1, <2>1 DEF Enumerates
<1> PICK o : o = IF ps = <<>> THEN Ids ELSE IdsAt(Ids, ps)
  OBVIOUS
<1>4. Enumerates(o, Size, Elements(Ids))
  BY <1>1, IdsAtIs
<1>5. real = IF ps = <<>> THEN index ELSE IF index \in DOMAIN ps THEN ps[index] ELSE 0
  BY <1>2
<1> DEFINE pb == [order |-> o, item |-> Ids[real], shuffle |-> ps # <<>>]
<1>6. FromTransient(Start, at) = pb
  BY <1>1, <1>3, <1>5 DEF FromTransient, Ids
<1>7. GoodPlayback(pb)
  <2>1. o \in [1 .. Size -> Elements(Ids)]
    BY <1>4 DEF Enumerates
  <2> QED
    BY <1>3, <1>4, <2>1 DEF GoodPlayback
<1> QED
  BY <1>6, <1>7

LEMMA SamePlayback ==
  ASSUME NEW p, NEW q, GoodPlayback(p), GoodPlayback(q),
         p.order = q.order, p.item = q.item, p.shuffle = q.shuffle
  PROVE  p = q
<1> DEFINE Playbacks == [order : [1 .. Size -> Elements(Ids)], item : Elements(Ids), shuffle : BOOLEAN]
<1>1. ASSUME NEW r \in Playbacks PROVE r = [order |-> r.order, item |-> r.item, shuffle |-> r.shuffle]
  OBVIOUS
<1>2. p \in Playbacks /\ q \in Playbacks
  BY DEF GoodPlayback
<1> HIDE DEF Playbacks
<1>3. /\ p = [order |-> p.order, item |-> p.item, shuffle |-> p.shuffle]
      /\ q = [order |-> q.order, item |-> q.item, shuffle |-> q.shuffle]
  BY <1>1, <1>2
<1> QED
  BY <1>3

\* A playback that was stored comes back as it was; its order is known from the stored one.
LEMMA BackAgain ==
  ASSUME NEW pb, GoodPlayback(pb)
  PROVE  /\ FromTransient(Start, ToTransient(Start, pb)) = pb
         /\ pb.order = IF OrderOf(pb) = <<>> THEN Ids ELSE IdsAt(Ids, OrderOf(pb))
         /\ pb.shuffle = (OrderOf(pb) # <<>>)
<1> PICK o, item : o = pb.order /\ item = pb.item
  OBVIOUS
<1>1. Enumerates(o, Size, Elements(Ids)) /\ item \in Elements(Ids) /\ Size \in Nat /\ Size > 0
  BY IdsAre, ReadinessAll DEF GoodPlayback
<1> PICK at : at = ToTransient(Start, pb)
  OBVIOUS
<1>2. GoodPositions(at) /\ at.index = Position(o, item) /\ at.shuffled = OrderOf(pb)
  <2>1. GoodPositions(at)
    BY StoredForm
  <2>2. at.index = Position(pb.order, pb.item)
    BY StoredForm
  <2>3. at.shuffled = OrderOf(pb)
    BY DEF OrderOf
  <2> QED
    BY <2>1, <2>2, <2>3
<1>3. Position(o, item) \in 1 .. Size /\ o[Position(o, item)] = item
  BY <1>1, PositionIs
<1> PICK to : to = FromTransient(Start, at)
  OBVIOUS
<1>4. /\ GoodPlayback(to) /\ to.shuffle = (at.shuffled # <<>>)
      /\ to.order = IF at.shuffled = <<>> THEN Ids ELSE IdsAt(Ids, at.shuffled)
      /\ to.item = Ids[IF at.shuffled = <<>> THEN at.index ELSE at.shuffled[at.index]]
  BY <1>2, LedTo
<1>5. CASE pb.shuffle
  <2> DEFINE s == [i \in 1 .. Size |-> Position(Ids, o[i])]
  <2>1. OrderOf(pb) = s
    BY <1>5, StoredForm
  <2>2. \A i \in 1 .. Size : Ids[s[i]] = o[i]
    <3> SUFFICES ASSUME NEW i \in 1 .. Size PROVE Ids[Position(Ids, o[i])] = o[i]
      OBVIOUS
    <3> PICK e \in Elements(Ids) : e = o[i]
      BY <1>1 DEF Enumerates
    <3> QED
      BY PositionIs, IdsAre
  <2>3. s # <<>>
    <3>1. 1 \in DOMAIN s
      BY <1>1
    <3>2. DOMAIN <<>> = {}
      BY EmptySeq
    <3> QED
      BY <3>1, <3>2
  <2> HIDE DEF s
  <2>4. Enumerates(s, Size, 1 .. Size)
    BY <1>2, <2>1, <2>3 DEF GoodPositions
  <2>5. IdsAt(Ids, s) = o
    <3>1. IdsAt(Ids, s) = [i \in 1 .. Size |-> o[i]]
      BY <2>2, <2>4, IdsAtIs
    <3> QED
      BY <1>1, <3>1 DEF Enumerates
  <2>6. Ids[s[at.index]] = item
    BY <1>2, <1>3, <2>2
  <2>7. to.order = pb.order /\ to.item = pb.item /\ to.shuffle = pb.shuffle
    BY <1>2, <1>5, <1>4, <2>1, <2>3, <2>5, <2>6
  <2>8. to = pb
    BY <1>4, <2>7, SamePlayback
  <2> QED
    BY <1>5, <2>1, <2>3, <2>5, <2>8
<1>6. CASE ~pb.shuffle
  <2>1. OrderOf(pb) = <<>> /\ o = Ids
    BY <1>6, StoredForm DEF GoodPlayback
  <2>2. pb.shuffle = FALSE
    BY <1>6 DEF GoodPlayback
  <2>3. to.order = pb.order /\ to.item = pb.item /\ to.shuffle = pb.shuffle
    BY <1>2, <1>3, <1>4, <2>1, <2>2
  <2>4. to = pb
    BY <1>4, <2>3, SamePlayback
  <2> QED
    BY <2>1, <2>2, <2>4
<1> QED
  BY <1>5, <1>6

\* Going on in a playback of the playlist leads to one.
LEMMA NavigateIs ==
  ASSUME NEW pb, GoodPlayback(pb), NEW step
  PROVE  \/ Navigate(Start, pb, step) = Boundary
         \/ \E to : GoodPlayback(to) /\ Navigate(Start, pb, step) = Target(to)
<1> PICK o, item : o = pb.order /\ item = pb.item
  OBVIOUS
<1>1. Enumerates(o, Size, Elements(Ids)) /\ item \in Elements(Ids)
  BY DEF GoodPlayback
<1>2. Reconciled(Ids, o) = o /\ Readiness(Ids, item) = "ready"
  BY <1>1, ReconciledAll, ReadinessAll
<1> PICK at : at = Position(o, item) + step
  OBVIOUS
<1>3. Navigate(Start, pb, step) =
        IF at \notin DOMAIN o THEN Boundary ELSE Target([pb EXCEPT !.order = o, !.item = o[at]])
  BY <1>2 DEF Navigate, Ids
<1>4. ASSUME at \in DOMAIN o PROVE GoodPlayback([pb EXCEPT !.order = o, !.item = o[at]])
  <2> PICK there : there = o[at]
    OBVIOUS
  <2>1. there \in Elements(Ids) /\ o \in [1 .. Size -> Elements(Ids)]
    BY <1>1, <1>4 DEF Enumerates
  <2> PICK to : to = [pb EXCEPT !.order = o, !.item = there]
    OBVIOUS
  <2>2. /\ to \in [order : [1 .. Size -> Elements(Ids)], item : Elements(Ids), shuffle : BOOLEAN]
        /\ to.order = o /\ to.shuffle = pb.shuffle
    BY <2>1 DEF GoodPlayback
  <2>3. GoodPlayback(to)
    BY <1>1, <2>2 DEF GoodPlayback
  <2> QED
    BY <2>3
<1> QED
  BY <1>3, <1>4

\* `order` is o up to place `at`, and then s, which draws what is behind it anew.
IsRedrawn(order, o, n, T, at, m, s) ==
  /\ n \in Nat /\ at \in 1 .. n /\ m \in Nat /\ n = at + m /\ Enumerates(o, n, T)
  /\ \A i \in 1 .. m : \E q \in 1 .. m : s[i] = o[at + q]
  /\ \A q \in 1 .. m : \E i \in 1 .. m : s[i] = o[at + q]
  /\ \A i, j \in 1 .. m : s[i] = s[j] => i = j
  /\ order \in [1 .. n -> T]
  /\ \A i \in 1 .. at : order[i] = o[i]
  /\ \A i \in 1 .. m : order[at + i] = s[i]

LEMMA Redrawn ==
  ASSUME NEW order, NEW o, NEW n, NEW T, NEW at, NEW m, NEW s, IsRedrawn(order, o, n, T, at, m, s)
  PROVE  Enumerates(order, n, T)
<1> USE DEF IsRedrawn
<1>1. \A i, j \in 1 .. n : o[i] = o[j] => i = j
  BY DEF Enumerates
<1>2. \A e \in T : \E i \in 1 .. n : o[i] = e
  BY DEF Enumerates
<1>3. \A i \in 1 .. n : i \in 1 .. at \/ \E j \in 1 .. m : i = at + j
  <2> SUFFICES ASSUME NEW i \in 1 .. n, i \notin 1 .. at PROVE \E j \in 1 .. m : i = at + j
    OBVIOUS
  <2>1. i - at \in 1 .. m /\ i = at + (i - at)
    OBVIOUS
  <2> QED
    BY <2>1
<1>4. \A i \in 1 .. at : i \in 1 .. n
  OBVIOUS
<1>5. \A q \in 1 .. m : at + q \in 1 .. n /\ at + q \notin 1 .. at
  OBVIOUS
<1>6. ASSUME NEW a \in 1 .. at, NEW b \in 1 .. m PROVE order[a] # order[at + b]
  <2>1. PICK q \in 1 .. m : s[b] = o[at + q]
    OBVIOUS
  <2> PICK p \in 1 .. n : p = at + q
    BY <1>5
  <2>2. o[a] # o[p]
    BY <1>1, <1>4, <1>5
  <2> QED
    BY <2>1, <2>2
<1>7. ASSUME NEW i \in 1 .. n, NEW j \in 1 .. n, order[i] = order[j] PROVE i = j
  <2>1. CASE i \in 1 .. at /\ j \in 1 .. at
    BY <1>1, <1>4, <1>7, <2>1
  <2>2. CASE i \in 1 .. at /\ j \notin 1 .. at
    <3> PICK b \in 1 .. m : j = at + b
      BY <1>3, <2>2
    <3>1. order[i] # order[at + b]
      BY <1>6, <2>2
    <3> QED
      BY <1>7, <3>1
  <2>3. CASE i \notin 1 .. at /\ j \in 1 .. at
    <3> PICK a \in 1 .. m : i = at + a
      BY <1>3, <2>3
    <3>1. order[j] # order[at + a]
      BY <1>6, <2>3
    <3> QED
      BY <1>7, <3>1
  <2>4. CASE i \notin 1 .. at /\ j \notin 1 .. at
    <3> PICK a \in 1 .. m, b \in 1 .. m : i = at + a /\ j = at + b
      BY <1>3, <2>4
    <3>1. s[a] = s[b]
      BY <1>7
    <3> QED
      BY <3>1
  <2> QED
    BY <2>1, <2>2, <2>3, <2>4
<1>8. ASSUME NEW e \in T PROVE \E i \in 1 .. n : order[i] = e
  <2>1. PICK p \in 1 .. n : o[p] = e
    BY <1>2
  <2>2. CASE p \in 1 .. at
    BY <2>1, <2>2
  <2>3. CASE p \notin 1 .. at
    <3> PICK q \in 1 .. m : p = at + q
      BY <1>3, <2>3
    <3> PICK i \in 1 .. m : s[i] = o[at + q]
      OBVIOUS
    <3> QED
      BY <1>5, <2>1
  <2> QED
    BY <2>2, <2>3
<1> QED
  BY <1>7, <1>8 DEF Enumerates

\* Shuffling what is behind the current item leaves what is before it, and the item, in place.
LEMMA ReshuffleIs ==
  ASSUME NEW pb, GoodPlayback(pb), NEW order \in ReshuffleAfterCurrent(Ids, pb.order, pb.item)
  PROVE  /\ Enumerates(order, Size, Elements(Ids))
         /\ Position(order, pb.item) = Position(pb.order, pb.item)
<1> PICK o, item, n : o = pb.order /\ item = pb.item /\ n = Size
  OBVIOUS
<1>1. Enumerates(o, n, Elements(Ids)) /\ item \in Elements(Ids) /\ n \in Nat
  BY IdsAre DEF GoodPlayback
<1>2. DOMAIN o = 1 .. n /\ o \in Seq(Elements(Ids)) /\ Len(o) = n
  <2>1. DOMAIN o = 1 .. n /\ o \in [1 .. n -> Elements(Ids)]
    BY <1>1 DEF Enumerates
  <2>2. o \in Seq(Elements(Ids))
    BY <1>1, <2>1, IsASeq
  <2> QED
    BY <1>1, <2>1, <2>2, LenProperties
<1> PICK at : at = Position(o, item)
  OBVIOUS
<1>3. at \in 1 .. n /\ o[at] = item
  BY <1>1, PositionIs
<1> PICK front, rest : front = SubSeq(o, 1, at) /\ rest = SubSeq(o, at + 1, n)
  OBVIOUS
<1>4. PICK s \in Shuffles(rest) : order = front \o s
  BY <1>1, <1>2, ReconciledAll, ReadinessAll DEF ReshuffleAfterCurrent
<1> PICK m \in Nat : m = n - at
  BY <1>1, <1>3
<1>5. front \in Seq(Elements(Ids)) /\ Len(front) = at /\ \A i \in 1 .. at : front[i] = o[i]
  <2>1. \A i \in 1 .. at : o[i] \in Elements(Ids)
    <3>1. \A i \in 1 .. n : o[i] \in Elements(Ids)
      BY <1>1 DEF Enumerates
    <3>2. \A i \in 1 .. at : i \in 1 .. n
      BY <1>1, <1>3
    <3> QED
      BY <3>1, <3>2
  <2>2. at \in Nat /\ at >= 1
    BY <1>3
  <2> QED
    BY ONLY <2>1, <2>2, front = SubSeq(o, 1, at), SubSeqProperties
<1>6. rest \in Seq(Elements(Ids)) /\ Len(rest) = m /\ \A i \in 1 .. m : rest[i] = o[at + i]
  <2>1. \A i \in at + 1 .. n : o[i] \in Elements(Ids)
    BY <1>1, <1>3 DEF Enumerates
  <2>2. at \in Nat /\ n \in Nat /\ at <= n
    BY <1>1, <1>3
  <2>3. /\ rest \in Seq(Elements(Ids)) /\ Len(rest) = m /\ \A i \in 1 .. m : rest[i] = o[at + 1 + i - 1]
    BY ONLY <2>1, <2>2, m \in Nat, m = n - at, rest = SubSeq(o, at + 1, n), SubSeqProperties
  <2>4. \A i \in 1 .. m : at + 1 + i - 1 = at + i
    BY <2>2
  <2> QED
    BY <2>3, <2>4
<1>7. Enumerates(s, m, Elements(rest)) /\ DOMAIN rest = 1 .. m
  <2>1. s \in Bijection(1 .. m, Elements(rest))
    BY <1>4, <1>6 DEF Shuffles
  <2>2. DOMAIN rest = 1 .. m
    BY <1>6, LenProperties
  <2> QED
    BY <2>1, <2>2, BijectionIs
<1>8. /\ \A i \in 1 .. m : s[i] \in Elements(rest)
      /\ \A e \in Elements(rest) : \E i \in 1 .. m : s[i] = e
      /\ \A i, j \in 1 .. m : s[i] = s[j] => i = j
      /\ s \in [1 .. m -> Elements(rest)]
  BY <1>7 DEF Enumerates
<1>9. Elements(rest) = {rest[q] : q \in 1 .. m}
  BY <1>7 DEF Elements
<1>10. /\ \A i \in 1 .. m : \E q \in 1 .. m : s[i] = o[at + q]
       /\ \A q \in 1 .. m : \E i \in 1 .. m : s[i] = o[at + q]
  <2>1. \A i \in 1 .. m : \E q \in 1 .. m : s[i] = rest[q]
    BY ONLY <1>8, <1>9
  <2>2. \A q \in 1 .. m : \E i \in 1 .. m : s[i] = rest[q]
    BY ONLY <1>8, <1>9
  <2>3. \A q \in 1 .. m : rest[q] = o[at + q]
    BY <1>6
  <2>4. ASSUME NEW i \in 1 .. m PROVE \E q \in 1 .. m : s[i] = o[at + q]
    <3> PICK q \in 1 .. m : s[i] = rest[q]
      BY ONLY <2>1, i \in 1 .. m
    <3> QED
      BY ONLY <2>3, s[i] = rest[q], q \in 1 .. m
  <2>5. ASSUME NEW q \in 1 .. m PROVE \E i \in 1 .. m : s[i] = o[at + q]
    <3> PICK i \in 1 .. m : s[i] = rest[q]
      BY ONLY <2>2, q \in 1 .. m
    <3> QED
      BY ONLY <2>3, s[i] = rest[q], q \in 1 .. m, i \in 1 .. m
  <2> QED
    BY ONLY <2>4, <2>5
<1>11. s \in Seq(Elements(Ids)) /\ Len(s) = m
  <2>1. \A q \in 1 .. m : rest[q] \in Elements(Ids)
    BY <1>6, ElementOfSeq
  <2>2. Elements(rest) \subseteq Elements(Ids)
    BY <1>9, <2>1
  <2>3. s \in [1 .. m -> Elements(Ids)]
    BY <1>8, <2>2
  <2>4. s \in Seq(Elements(Ids))
    BY <2>3, IsASeq
  <2> QED
    BY <2>3, <2>4, LenProperties
<1>12. /\ order \in Seq(Elements(Ids)) /\ Len(order) = at + m
       /\ \A i \in 1 .. at + m : order[i] = IF i <= at THEN front[i] ELSE s[i - at]
  BY ONLY <1>4, <1>5, <1>11, ConcatProperties
<1>13. n = at + m /\ at \in Nat
  BY <1>1, <1>3
<1>14. /\ order \in [1 .. n -> Elements(Ids)]
       /\ \A i \in 1 .. at : order[i] = o[i]
       /\ \A i \in 1 .. m : order[at + i] = s[i]
  <2>1. order \in [1 .. n -> Elements(Ids)]
    BY <1>12, <1>13, LenProperties
  <2>2. \A i \in 1 .. at : i \in 1 .. at + m /\ i <= at
    BY <1>13
  <2>3. \A i \in 1 .. m : at + i \in 1 .. at + m /\ ~(at + i <= at) /\ (at + i) - at = i
    BY ONLY <1>13, m \in Nat
  <2>4. \A i \in 1 .. at : order[i] = o[i]
    BY ONLY <1>5, <1>12, <2>2
  <2>5. \A i \in 1 .. m : order[at + i] = s[i]
    BY ONLY <1>12, <2>3
  <2> QED
    BY <2>1, <2>4, <2>5
<1>16. Enumerates(order, n, Elements(Ids))
  <2>1. IsRedrawn(order, o, n, Elements(Ids), at, m, s)
    BY ONLY <1>1, <1>3, <1>8, <1>10, <1>13, <1>14, m \in Nat DEF IsRedrawn
  <2> QED
    BY <2>1, Redrawn
<1>17. order[at] = item
  <2>1. at \in 1 .. at
    BY ONLY <1>3, <1>1
  <2> QED
    BY ONLY <1>3, <1>14, <2>1
<1>18. Position(order, item) = at
  BY <1>1, <1>3, <1>16, <1>17, PositionAt
<1> QED
  BY <1>16, <1>18

-----------------------------------------------------------------------------
(* What is stored, read, and on its way to another page while the playlist *)
(* is the one at first.                                                    *)

GoodRecord(rec) == rec \in Records /\ GoodPositions(rec.at)

\* The record is what the page p stored of what it plays.
Stores(rec, p) ==
  p.mode = "playlist" /\ rec # NoPlayback /\ rec.owner = p.token /\ rec.generation = p.generation

\* A record that may be stored, or on its way, while the page is p.
Kept(rec, p) ==
  /\ GoodRecord(rec) /\ rec.owner <= p.token
  /\ rec.owner = p.token => rec.generation <= p.generation
  /\ Stores(rec, p) => rec.at.shuffled = OrderOf(p.playback)

KeptState(state, p) ==
  /\ state \in [playback : Records \cup {NoPlayback}, oped : BOOLEAN]
  /\ state.playback = NoPlayback \/ Kept(state.playback, p)

\* The page at this url is asked for an item, by one that stored a record of its order.
HandedOver(url) ==
  url.by = None \/ /\ GoodPlayback(url.by.playback) /\ GoodRecord(url.by.record)
                   /\ url.by.record.at.shuffled = OrderOf(url.by.playback)
                   /\ url.index = Position(Ids, url.by.playback.item)

Writers == {"putPlayback", "clearOwned", "dropPlayback", "opedOff", "opedOn"}
Listings == {"jumpList", "resumeList"}

\* A write follows its read, a playback is stored first of all, a list read at once.
InOrder(s) ==
  /\ \A i \in 1 .. Len(s) : s[i] \in Writers => i = 1 \/ s[i - 1] = "read"
  /\ \A i \in 1 .. Len(s) : s[i] = "putPlayback" => i = 1 \/ i = 2
  /\ \A i \in 1 .. Len(s) : s[i] \in Listings => i = 1

Has(t, step) == step \in Elements(t.todo)

\* What a task of the page p carries along.
GoodTask(t, p) ==
  /\ InOrder(t.todo)
  /\ t.todo # <<>> /\ Head(t.todo) \in Writers \cup Listings => KeptState(t.read, p)
  /\ t.todo # <<>> /\ Head(t.todo) \in Listings => t.read.playback # NoPlayback
  /\ Has(t, "putPlayback") => Kept(t.write, p)
  /\ Has(t, "ask") => /\ t.list = Start /\ GoodPlayback(t.next)
                      /\ GoodRecord(t.write) /\ t.write.at.shuffled = OrderOf(t.next)
  /\ Has(t, "advance") \/ Has(t, "switch") \/ Has(t, "menu") \/ Has(t, "restart") =>
       GoodPlayback(t.next)
  /\ Has(t, "menu") \/ Has(t, "restart") \/ Has(t, "paramsOrder") => t.list = Start
  /\ Has(t, "params") \/ Has(t, "paramsOrder") => HandedOver(t.ask)
  /\ Has(t, "paramsOrder") => t.ask.index \in 1 .. Size
  /\ Has(t, "switch") =>
       /\ ~t.remote /\ t.generation \in Nat /\ t.generation <= p.generation
       /\ t.generation = p.generation /\ p.mode = "playlist" =>
            t.next.order = p.playback.order /\ t.next.shuffle = p.playback.shuffle

GoodPage(p) ==
  /\ p.token \in Nat \ {0} /\ p.generation \in Nat /\ HandedOver(p.url)
  /\ p.mode = "playlist" => GoodPlayback(p.playback)

GoodUrls(us) == us \in Seq(Elements(us)) /\ \A i \in DOMAIN us : HandedOver(us[i])

InStep ==
  /\ GoodPage(page) /\ KeptState(stored, page) /\ GoodUrls(urls)
  /\ \A k \in Tasks : GoodTask(tasks[k], page)

OrderInv == playlist = Start => InStep

\* The page q comes after p: it plays on in the same order, or in a later generation.
Onward(p, q) ==
  /\ GoodPage(p) /\ GoodPage(q) /\ p.token <= q.token
  /\ q.token = p.token => p.generation <= q.generation
  /\ q.token = p.token /\ q.generation = p.generation /\ q.mode = "playlist" =>
       /\ p.mode = "playlist" /\ q.playback.order = p.playback.order
       /\ q.playback.shuffle = p.playback.shuffle

LEMMA Recorded ==
  ASSUME NEW rec, GoodRecord(rec)
  PROVE  /\ rec \in Records /\ rec # NoPlayback /\ rec.owner \in Nat /\ rec.generation \in Nat
         /\ GoodPositions(rec.at)
BY AbsentAssumption DEF GoodRecord, Records

\* The order alone decides how it is stored.
LEMMA SameOrder ==
  ASSUME NEW p, NEW q, GoodPlayback(p), GoodPlayback(q), p.order = q.order, p.shuffle = q.shuffle
  PROVE  OrderOf(p) = OrderOf(q)
<1>1. OrderOf(p) = IF p.shuffle THEN [i \in 1 .. Size |-> Position(Ids, p.order[i])] ELSE <<>>
  BY StoredForm
<1>2. OrderOf(q) = IF q.shuffle THEN [i \in 1 .. Size |-> Position(Ids, q.order[i])] ELSE <<>>
  BY StoredForm
<1> QED
  BY <1>1, <1>2

LEMMA KeptOnward ==
  ASSUME NEW p, NEW q, Onward(p, q), NEW rec, Kept(rec, p)
  PROVE  Kept(rec, q)
<1>1. /\ GoodRecord(rec) /\ rec.owner \in Nat /\ rec.generation \in Nat /\ rec.owner <= p.token
      /\ p.token \in Nat /\ q.token \in Nat /\ p.token <= q.token
      /\ p.generation \in Nat /\ q.generation \in Nat
  BY Recorded DEF Kept, Onward, GoodPage
<1>2. rec.owner = q.token => q.token = p.token /\ rec.generation <= p.generation
  BY <1>1 DEF Kept
<1>3. rec.owner <= q.token /\ (rec.owner = q.token => rec.generation <= q.generation)
  BY <1>1, <1>2 DEF Onward
<1>4. ASSUME Stores(rec, q) PROVE rec.at.shuffled = OrderOf(q.playback)
  <2>1. /\ q.mode = "playlist" /\ q.token = p.token /\ q.generation = p.generation
        /\ rec # NoPlayback /\ rec.owner = p.token /\ rec.generation = p.generation
    BY <1>1, <1>2, <1>4 DEF Stores, Onward
  <2>2. /\ p.mode = "playlist" /\ GoodPlayback(p.playback) /\ GoodPlayback(q.playback)
        /\ q.playback.order = p.playback.order /\ q.playback.shuffle = p.playback.shuffle
    BY <2>1 DEF Onward, GoodPage
  <2>3. rec.at.shuffled = OrderOf(p.playback)
    BY <2>1, <2>2 DEF Kept, Stores
  <2> QED
    BY <2>2, <2>3, SameOrder
<1> QED
  BY <1>1, <1>3, <1>4 DEF Kept

LEMMA StateOnward ==
  ASSUME NEW p, NEW q, Onward(p, q), NEW state, KeptState(state, p)
  PROVE  KeptState(state, q)
BY KeptOnward DEF KeptState

LEMMA TaskOnward ==
  ASSUME NEW p, NEW q, Onward(p, q), NEW t, GoodTask(t, p), q.token = p.token \/ t.remote
  PROVE  GoodTask(t, q)
<1>1. t.todo # <<>> /\ Head(t.todo) \in Writers \cup Listings => KeptState(t.read, q)
  BY StateOnward DEF GoodTask
<1>2. Has(t, "putPlayback") => Kept(t.write, q)
  BY KeptOnward DEF GoodTask
<1>3. ASSUME Has(t, "switch")
      PROVE  /\ ~t.remote /\ t.generation \in Nat /\ t.generation <= q.generation
             /\ t.generation = q.generation /\ q.mode = "playlist" =>
                  t.next.order = q.playback.order /\ t.next.shuffle = q.playback.shuffle
  <2>1. /\ ~t.remote /\ t.generation \in Nat /\ t.generation <= p.generation
        /\ t.generation = p.generation /\ p.mode = "playlist" =>
             t.next.order = p.playback.order /\ t.next.shuffle = p.playback.shuffle
    BY <1>3 DEF GoodTask
  <2>2. /\ p.generation \in Nat /\ q.generation \in Nat /\ p.generation <= q.generation
        /\ q.generation = p.generation /\ q.mode = "playlist" =>
             /\ p.mode = "playlist" /\ q.playback.order = p.playback.order
             /\ q.playback.shuffle = p.playback.shuffle
    BY <2>1 DEF Onward, GoodPage
  <2> QED
    BY <2>1, <2>2
<1> QED
  BY <1>1, <1>2, <1>3 DEF GoodTask

\* Lists of steps: what is left of one, and one after another.
LEMMA TailInOrder ==
  ASSUME NEW s \in Seq(Steps), InOrder(s), s # <<>>
  PROVE  /\ InOrder(Tail(s)) /\ Elements(Tail(s)) \subseteq Elements(s)
         /\ Tail(s) # <<>> => /\ Head(Tail(s)) \in Writers => Head(s) = "read"
                              /\ Head(Tail(s)) \notin Listings
                              /\ Head(Tail(s)) = "putPlayback" => Head(s) = "read"
<1> PICK n \in Nat : n = Len(s)
  BY LenProperties
<1> PICK r : r = Tail(s)
  OBVIOUS
<1>1. /\ n > 0 /\ r \in Seq(Steps) /\ Len(r) = n - 1 /\ Head(s) = s[1]
      /\ \A i \in 1 .. n - 1 : r[i] = s[i + 1]
  BY HeadTailProperties, EmptySeq, LenProperties
<1>2. DOMAIN s = 1 .. n /\ DOMAIN r = 1 .. n - 1
  BY <1>1, LenProperties
<1>3. ASSUME NEW i \in 1 .. n - 1
      PROVE  /\ i + 1 \in 1 .. n /\ r[i] = s[i + 1] /\ s[(i + 1) - 1] = s[i]
             /\ i # 1 => i - 1 \in 1 .. n - 1 /\ r[i - 1] = s[i]
  <2>1. i # 1 => i - 1 \in 1 .. n - 1 /\ (i - 1) + 1 = i
    BY <1>3
  <2> QED
    BY <1>1, <1>3, <2>1
<1>4. ASSUME NEW i \in 1 .. n - 1
      PROVE  /\ r[i] \in Writers => s[i] = "read"
             /\ r[i] = "putPlayback" => i = 1
             /\ r[i] \notin Listings
  <2> PICK j \in 1 .. n : j = i + 1
    BY <1>3
  <2>1. r[i] = s[j] /\ s[j - 1] = s[i] /\ j # 1 /\ (j = 2 => i = 1)
    BY <1>3
  <2> QED
    BY <2>1 DEF InOrder
<1>5. InOrder(r)
  BY <1>1, <1>3, <1>4 DEF InOrder
<1>6. Elements(r) \subseteq Elements(s)
  BY <1>2, <1>3 DEF Elements
<1>7. ASSUME r # <<>>
      PROVE  /\ Head(r) \in Writers => s[1] = "read"
             /\ Head(r) \notin Listings
             /\ Head(r) = "putPlayback" => s[1] = "read"
  <2>1. Head(r) = r[1] /\ n - 1 > 0
    BY <1>1, <1>7, HeadTailProperties, EmptySeq, LenProperties
  <2>2. 1 \in 1 .. n - 1 /\ "putPlayback" \in Writers
    BY <2>1 DEF Writers
  <2> QED
    BY <1>4, <2>1, <2>2
<1> QED
  BY <1>1, <1>5, <1>6, <1>7

\* What no step of a list is in, and one list behind another.
LEMMA JoinedInOrder ==
  ASSUME NEW a \in Seq(Steps), InOrder(a), NEW b \in Seq(Steps), InOrder(b),
         b # <<>> => Head(b) \notin Writers,
         Elements(b) \cap (Listings \cup {"putPlayback"}) = {}
  PROVE  /\ InOrder(a \o b) /\ Elements(a \o b) = Elements(a) \cup Elements(b)
         /\ a # <<>> => a \o b # <<>> /\ Head(a \o b) = Head(a)
<1> PICK m \in Nat, n \in Nat : m = Len(a) /\ n = Len(b)
  BY LenProperties
<1> PICK s : s = a \o b
  OBVIOUS
<1>1. /\ s \in Seq(Steps) /\ Len(s) = m + n
      /\ \A i \in 1 .. m + n : s[i] = IF i <= m THEN a[i] ELSE b[i - m]
  BY ConcatProperties
<1>2. DOMAIN a = 1 .. m /\ DOMAIN b = 1 .. n /\ DOMAIN s = 1 .. m + n
  BY <1>1, LenProperties
<1>3. \A i \in 1 .. m : i \in 1 .. m + n /\ s[i] = a[i]
  BY <1>1
<1>4. \A j \in 1 .. n : j + m \in 1 .. m + n /\ s[j + m] = b[j]
  BY <1>1
<1>5. \A i \in 1 .. m + n : i \in 1 .. m \/ \E j \in 1 .. n : i = j + m
  <2> SUFFICES ASSUME NEW i \in 1 .. m + n, i \notin 1 .. m PROVE \E j \in 1 .. n : i = j + m
    OBVIOUS
  <2>1. i - m \in 1 .. n /\ i = (i - m) + m
    OBVIOUS
  <2> QED
    BY <2>1
<1>6. ASSUME NEW i \in 1 .. m
      PROVE  /\ s[i] \in Writers => i = 1 \/ s[i - 1] = "read"
             /\ s[i] = "putPlayback" => i = 1 \/ i = 2
             /\ s[i] \in Listings => i = 1
  <2>1. i # 1 => i - 1 \in 1 .. m
    OBVIOUS
  <2>2. s[i] = a[i] /\ (i # 1 => s[i - 1] = a[i - 1])
    BY <1>3, <2>1
  <2>3. /\ a[i] \in Writers => i = 1 \/ a[i - 1] = "read"
        /\ a[i] = "putPlayback" => i = 1 \/ i = 2
        /\ a[i] \in Listings => i = 1
    BY DEF InOrder
  <2> QED
    BY <2>2, <2>3
<1>7. ASSUME NEW i \in 1 .. m + n, NEW j \in 1 .. n, i = j + m
      PROVE  /\ s[i] \in Writers => i = 1 \/ s[i - 1] = "read"
             /\ s[i] # "putPlayback" /\ s[i] \notin Listings
  <2>1. s[i] = b[j] /\ b[j] \in Elements(b)
    BY <1>2, <1>4, <1>7 DEF Elements
  <2>2. CASE j = 1
    <3>1. b # <<>> /\ Head(b) = b[1]
      <4>1. Len(b) # 0
        BY <1>7
      <4> QED
        BY <4>1, EmptySeq, HeadTailProperties
    <3> QED
      BY <2>1, <2>2, <3>1
  <2>3. CASE j # 1
    <3>1. j - 1 \in 1 .. n /\ i - 1 = (j - 1) + m
      BY <1>7, <2>3
    <3>2. s[i - 1] = b[j - 1]
      BY <1>4, <3>1
    <3>3. b[j] \in Writers => b[j - 1] = "read"
      BY <2>3 DEF InOrder
    <3> QED
      BY <2>1, <3>2, <3>3
  <2> QED
    BY <2>2, <2>3
<1>8. InOrder(s)
  <2>1. ASSUME NEW i \in 1 .. m + n
        PROVE  /\ s[i] \in Writers => i = 1 \/ s[i - 1] = "read"
               /\ s[i] = "putPlayback" => i = 1 \/ i = 2
               /\ s[i] \in Listings => i = 1
    <3>1. CASE i \in 1 .. m
      BY <1>6, <3>1
    <3>2. CASE i \notin 1 .. m
      BY <1>5, <1>7, <3>2
    <3> QED
      BY <3>1, <3>2
  <2> QED
    BY <1>1, <2>1 DEF InOrder
<1>9. Elements(s) = Elements(a) \cup Elements(b)
  <2>1. \A e : e \in Elements(a) <=> \E i \in 1 .. m : e = a[i]
    BY <1>2 DEF Elements
  <2>2. \A e : e \in Elements(b) <=> \E j \in 1 .. n : e = b[j]
    BY <1>2 DEF Elements
  <2>3. \A e : e \in Elements(s) <=> \E i \in 1 .. m + n : e = s[i]
    BY <1>2 DEF Elements
  <2>4. ASSUME NEW e \in Elements(s) PROVE e \in Elements(a) \cup Elements(b)
    <3>1. PICK i \in 1 .. m + n : e = s[i]
      BY <2>3
    <3> QED
      BY <1>3, <1>4, <1>5, <2>1, <2>2, <3>1
  <2>5. ASSUME NEW e \in Elements(a) PROVE e \in Elements(s)
    BY <1>3, <2>1, <2>3, <2>5
  <2>6. ASSUME NEW e \in Elements(b) PROVE e \in Elements(s)
    <3>1. PICK j \in 1 .. n : e = b[j]
      BY <2>2, <2>6
    <3>2. PICK i \in 1 .. m + n : i = j + m
      BY <1>4
    <3> QED
      BY <1>4, <2>3, <3>1, <3>2
  <2> QED
    BY <2>4, <2>5, <2>6
<1>10. ASSUME a # <<>> PROVE s # <<>> /\ Head(s) = Head(a)
  <2>1. m # 0
    BY <1>10, EmptySeq
  <2>2. s # <<>>
    BY <1>1, <2>1, EmptySeq
  <2>3. Head(s) = s[1] /\ Head(a) = a[1] /\ 1 \in 1 .. m
    BY <1>1, <1>10, <2>1, <2>2, HeadTailProperties
  <2> QED
    BY <1>3, <2>2, <2>3
<1> QED
  BY <1>8, <1>9, <1>10

\* The lists of one to three steps.
LEMMA SingleInOrder ==
  ASSUME NEW a \in Steps
  PROVE  /\ InOrder(<<a>>) /\ Elements(<<a>>) = {a} /\ <<a>> \in Seq(Steps)
         /\ <<a>> # <<>> /\ Head(<<a>>) = a
<1> PICK s : s = <<a>>
  OBVIOUS
<1>1. s \in Seq(Steps) /\ Len(s) = 1 /\ s[1] = a /\ s # <<>> /\ Head(s) = a /\ DOMAIN s = {1}
  OBVIOUS
<1> QED
  BY <1>1 DEF InOrder, Elements

LEMMA CoupleInOrder ==
  ASSUME NEW b \in Writers
  PROVE  LET s == <<"read", b>>
         IN /\ InOrder(s) /\ Elements(s) = {"read", b} /\ s \in Seq(Steps)
            /\ s # <<>> /\ Head(s) = "read"
<1> PICK s : s = <<"read", b>>
  OBVIOUS
<1>1. b \in Steps /\ "read" \in Steps /\ "read" \notin Writers /\ "read" \notin Listings /\ b \notin Listings
  BY DEF Writers, Steps, StoreCalls, Listings
<1>2. /\ s \in Seq(Steps) /\ Len(s) = 2 /\ s[1] = "read" /\ s[2] = b /\ s # <<>> /\ Head(s) = "read"
      /\ DOMAIN s = 1 .. 2
  BY <1>1
<1>3. \A i \in 1 .. 2 : i = 1 \/ i = 2
  OBVIOUS
<1>4. InOrder(s)
  BY <1>1, <1>2, <1>3 DEF InOrder
<1>5. Elements(s) = {"read", b}
  BY <1>2, <1>3 DEF Elements
<1> QED
  BY <1>2, <1>4, <1>5

LEMMA TripleInOrder ==
  ASSUME NEW b \in Writers, NEW c \in Steps, c \notin Writers \cup Listings
  PROVE  LET s == <<"read", b, c>>
         IN /\ InOrder(s) /\ Elements(s) = {"read", b, c} /\ s \in Seq(Steps)
            /\ s # <<>> /\ Head(s) = "read"
<1> PICK s : s = <<"read", b, c>>
  OBVIOUS
<1>1. b \in Steps /\ "read" \in Steps /\ "read" \notin Writers /\ "read" \notin Listings /\ b \notin Listings
  BY DEF Writers, Steps, StoreCalls, Listings
<1>2. /\ s \in Seq(Steps) /\ Len(s) = 3 /\ s[1] = "read" /\ s[2] = b /\ s[3] = c /\ s # <<>>
      /\ Head(s) = "read" /\ DOMAIN s = 1 .. 3
  BY <1>1
<1>3. \A i \in 1 .. 3 : i = 1 \/ i = 2 \/ i = 3
  OBVIOUS
<1>4. c # "putPlayback"
  BY DEF Writers
<1>5. InOrder(s)
  BY <1>1, <1>2, <1>3, <1>4 DEF InOrder
<1>6. Elements(s) = {"read", b, c}
  BY <1>2, <1>3 DEF Elements
<1> QED
  BY <1>2, <1>5, <1>6

LEMMA NothingInOrder == InOrder(<<>>) /\ Elements(<<>>) = {} /\ <<>> \in Seq(Steps)
<1>1. Len(<<>>) = 0 /\ DOMAIN <<>> = {} /\ <<>> \in Seq(Steps)
  BY EmptySeq
<1>2. \A i \in 1 .. 0 : FALSE
  OBVIOUS
<1> QED
  BY <1>1, <1>2 DEF InOrder, Elements

\* The steps of stopPlayback, and those with something behind them.
LEMMA StopInOrder ==
  /\ InOrder(StopSteps) /\ Elements(StopSteps) = {"read", "clearOwned", "opedOff", "stopped"}
  /\ StopSteps \in Seq(Steps) /\ StopSteps # <<>> /\ Head(StopSteps) = "read"
<1>1. {"read", "clearOwned", "opedOff", "stopped"} \subseteq Steps
  BY DEF Steps, StoreCalls
<1> PICK s : s = StopSteps
  OBVIOUS
<1>2. /\ s \in Seq(Steps) /\ Len(s) = 5 /\ s[1] = "read" /\ s[2] = "clearOwned" /\ s[3] = "read"
      /\ s[4] = "opedOff" /\ s[5] = "stopped" /\ s # <<>> /\ Head(s) = "read" /\ DOMAIN s = 1 .. 5
  BY <1>1 DEF StopSteps
<1>3. \A i \in 1 .. 5 : i = 1 \/ i = 2 \/ i = 3 \/ i = 4 \/ i = 5
  OBVIOUS
<1>4. /\ \A i \in 1 .. 5 : s[i] \in Writers => i = 1 \/ s[i - 1] = "read"
      /\ \A i \in 1 .. 5 : s[i] # "putPlayback" /\ s[i] \notin Listings
  BY <1>2, <1>3 DEF Writers, Listings
<1>5. InOrder(s)
  BY <1>2, <1>4 DEF InOrder
<1>6. Elements(s) = {"read", "clearOwned", "opedOff", "stopped"}
  BY <1>2, <1>3 DEF Elements
<1> QED
  BY <1>2, <1>5, <1>6

\* What is left of a list from one of its steps on.
LEMMA EndInOrder ==
  ASSUME NEW s \in Seq(Steps), InOrder(s), NEW i \in 1 .. Len(s), s[i] \notin Writers
  PROVE  LET r == SubSeq(s, i, Len(s))
         IN InOrder(r) /\ Elements(r) \subseteq Elements(s) /\ r # <<>> /\ Head(r) = s[i]
<1> PICK n \in Nat : n = Len(s)
  BY LenProperties
<1> PICK r : r = SubSeq(s, i, n)
  OBVIOUS
<1>1. /\ r \in Seq(Steps) /\ Len(r) = n - i + 1 /\ Len(r) \in Nat \ {0}
      /\ \A j \in 1 .. n - i + 1 : r[j] = s[i + j - 1]
  <2>1. i \in Int /\ n \in Int /\ i <= n /\ \A j \in i .. n : s[j] \in Steps
    BY ElementOfSeq
  <2> QED
    BY <2>1, SubSeqProperties
<1>2. DOMAIN s = 1 .. n /\ DOMAIN r = 1 .. Len(r)
  BY <1>1, LenProperties
<1>3. ASSUME NEW j \in 1 .. Len(r)
      PROVE  /\ i + j - 1 \in 1 .. n /\ r[j] = s[i + j - 1]
             /\ j # 1 => j - 1 \in 1 .. Len(r) /\ r[j - 1] = s[(i + j - 1) - 1]
  <2>1. i + j - 1 \in 1 .. n /\ j \in 1 .. n - i + 1
    BY <1>1
  <2>2. j # 1 => j - 1 \in 1 .. n - i + 1 /\ i + (j - 1) - 1 = (i + j - 1) - 1
    BY <1>1
  <2> QED
    BY <1>1, <2>1, <2>2
<1>4. 1 \in 1 .. Len(r) /\ i + 1 - 1 = i
  BY <1>1
<1>5. r # <<>> /\ Head(r) = r[1] /\ r[1] = s[i]
  <2>1. r # <<>>
    BY <1>1, EmptySeq
  <2> QED
    BY <1>1, <1>3, <1>4, <2>1, HeadTailProperties
<1>6. ASSUME NEW j \in 1 .. Len(r)
      PROVE  /\ r[j] \in Writers => j = 1 \/ r[j - 1] = "read"
             /\ r[j] = "putPlayback" => j = 1 \/ j = 2
             /\ r[j] \in Listings => j = 1
  <2> PICK k \in 1 .. n : k = i + j - 1
    BY <1>3
  <2>1. r[j] = s[k] /\ (j # 1 => r[j - 1] = s[k - 1]) /\ k >= j /\ (j # 1 => k # 1)
    BY <1>1, <1>3
  <2>2. (k = 1 => j = 1) /\ (k = 2 => j = 1 \/ j = 2)
    BY <1>1, <2>1
  <2>3. /\ s[k] \in Writers => k = 1 \/ s[k - 1] = "read"
        /\ s[k] = "putPlayback" => k = 1 \/ k = 2
        /\ s[k] \in Listings => k = 1
    BY DEF InOrder
  <2> QED
    BY <2>1, <2>2, <2>3
<1>7. Elements(r) \subseteq Elements(s)
  <2>1. \A e : e \in Elements(s) <=> \E k \in 1 .. n : e = s[k]
    BY <1>2 DEF Elements
  <2>2. \A e : e \in Elements(r) <=> \E j \in 1 .. Len(r) : e = r[j]
    BY <1>2 DEF Elements
  <2> QED
    BY <1>3, <2>1, <2>2
<1>8. InOrder(r)
  BY <1>6 DEF InOrder
<1> QED
  BY <1>5, <1>7, <1>8

\* What a flow goes on with when a call of it failed starts with no call.
LEMMA RecoveredInOrder ==
  ASSUME NEW s \in Seq(Steps), InOrder(s)
  PROVE  /\ InOrder(Recovered(s)) /\ Elements(Recovered(s)) \subseteq Elements(s)
         /\ Recovered(s) # <<>> => Head(Recovered(s)) \notin StoreCalls \cup Listings
<1> DEFINE points == {i \in DOMAIN s : s[i] \in {"settle", "ask", "stopped"}}
<1>1. DOMAIN s = 1 .. Len(s) /\ Len(s) \in Nat
  BY LenProperties
<1>2. CASE points = {}
  <2>1. Recovered(s) = Finally(s)
    BY <1>2 DEF Recovered
  <2>2. Recovered(s) = <<>> \/ (Recovered(s) = <<"release">> /\ "release" \in Elements(s))
    BY <2>1 DEF Finally
  <2>3. "release" \in Steps /\ "release" \notin StoreCalls \cup Listings
    BY DEF Steps, StoreCalls, Listings
  <2> QED
    BY <2>2, <2>3, NothingInOrder, SingleInOrder
<1>3. CASE points # {}
  <2>1. points \in SUBSET Nat
    BY <1>1
  <2>2. \E p \in points : \A j \in points : p <= j
    BY <1>3, <2>1, Least
  <2>3. PICK i \in points : Recovered(s) = SubSeq(s, i, Len(s))
    BY <1>3, <2>2 DEF Recovered
  <2>4. i \in 1 .. Len(s) /\ s[i] \in {"settle", "ask", "stopped"}
    BY <1>1, <2>3
  <2>5. s[i] \notin StoreCalls \cup Listings /\ s[i] \notin Writers
    BY <2>4 DEF StoreCalls, Listings, Writers
  <2> HIDE DEF points
  <2> QED
    BY <2>3, <2>4, <2>5, EndInOrder
<1> QED
  BY <1>2, <1>3

-----------------------------------------------------------------------------
(* A step of a task, and the changes of the page.                          *)

LEMMA NothingIsGood == ASSUME NEW p PROVE GoodTask(NoTask, p)
<1>1. NoTask.todo = <<>>
  BY DEF NoTask
<1> QED
  BY <1>1, NothingInOrder DEF GoodTask, Has

\* Task k becomes t, and the others stay what they were.
LEMMA StepIs ==
  ASSUME LockInv, InStep, NEW k \in Tasks, NEW t, Becomes(k, t), t.todo # <<>> => GoodTask(t, page'),
         Onward(page, page'), page'.token = page.token, KeptState(stored', page'),
         GoodUrls(urls) => GoodUrls(urls')
  PROVE  InStep'
<1> PICK u : u = IF t.todo = <<>> THEN NoTask ELSE t
  OBVIOUS
<1>1. tasks' = [tasks EXCEPT ![k] = u] /\ DOMAIN tasks = Tasks
  BY DEF Becomes, LockInv
<1>2. GoodTask(u, page')
  BY NothingIsGood
<1>3. ASSUME NEW j \in Tasks PROVE GoodTask(tasks'[j], page')
  <2>1. CASE j = k
    BY <1>1, <1>2, <2>1
  <2>2. CASE j # k
    <3>1. tasks'[j] = tasks[j] /\ GoodTask(tasks[j], page)
      BY <1>1, <2>2 DEF InStep
    <3> QED
      BY <3>1, TaskOnward
  <2> QED
    BY <2>1, <2>2
<1>4. GoodPage(page')
  BY DEF Onward
<1> QED
  BY <1>3, <1>4 DEF InStep

\* The page stays as it is, as far as this goes, or comes to play nothing.
LEMMA PageMoves ==
  ASSUME NEW p, GoodPage(p), NEW q, q.token = p.token, HandedOver(q.url),
         \/ q.generation = p.generation /\ q.mode = p.mode /\ q.playback = p.playback
         \/ q.generation = p.generation + 1 /\ q.mode # "playlist"
  PROVE  Onward(p, q)
BY DEF GoodPage, Onward

LEMMA PageAsIs == ASSUME NEW p, GoodPage(p) PROVE Onward(p, p)
BY DEF GoodPage, Onward

\* What the changes of the context change of this.
LEMMA PageChanges ==
  ASSUME NEW p, GoodPage(p), DOMAIN p = PageFields
  PROVE  /\ Onward(p, Stopped(p)) /\ Stopped(p).token = p.token /\ Stopped(p).mode # "playlist"
         /\ Onward(p, Previewing(p)) /\ Previewing(p).token = p.token
         /\ Onward(p, EnteredOpEd(p)) /\ EnteredOpEd(p).token = p.token
         /\ Onward(p, Release(p)) /\ Release(p).token = p.token
<1>1. HandedOver(p.url)
  BY DEF GoodPage
<1>2. /\ Stopped(p).token = p.token /\ Stopped(p).url = p.url /\ Stopped(p).mode = "idle"
      /\ Stopped(p).generation = p.generation + 1
  BY DEF PageFields, Fresh, Stopped
<1>3. /\ Previewing(p).token = p.token /\ Previewing(p).url = p.url /\ Previewing(p).mode = "preview"
      /\ Previewing(p).generation = p.generation + 1
  BY DEF PageFields, Fresh, Previewing
<1>4. /\ Release(p).token = p.token /\ Release(p).url = p.url /\ Release(p).mode = p.mode
      /\ Release(p).generation = p.generation /\ Release(p).playback = p.playback
  BY DEF PageFields, Fresh, Release
<1>5. \/ EnteredOpEd(p) = p
      \/ /\ EnteredOpEd(p).token = p.token /\ EnteredOpEd(p).url = p.url
         /\ EnteredOpEd(p).mode = "op-ed" /\ EnteredOpEd(p).generation = p.generation + 1
  BY DEF PageFields, Fresh, EnteredOpEd
<1>6. Onward(p, Stopped(p))
  BY <1>1, <1>2, PageMoves
<1>7. Onward(p, Previewing(p))
  BY <1>1, <1>3, PageMoves
<1>8. Onward(p, Release(p))
  BY <1>1, <1>4, PageMoves
<1>9. Onward(p, EnteredOpEd(p)) /\ EnteredOpEd(p).token = p.token
  <2>1. CASE EnteredOpEd(p) = p
    BY <2>1, PageAsIs
  <2>2. CASE EnteredOpEd(p) # p
    BY <1>1, <1>5, <2>2, PageMoves
  <2> QED
    BY <2>1, <2>2
<1> QED
  BY <1>2, <1>3, <1>4, <1>6, <1>7, <1>8, <1>9

\* u is t with other steps, and may have read the record anew.
Carries(u, t) ==
  /\ u.write = t.write /\ u.list = t.list /\ u.next = t.next /\ u.ask = t.ask
  /\ u.generation = t.generation /\ u.remote = t.remote

LEMMA RestIsGood ==
  ASSUME NEW p, NEW q, Onward(p, q), q.token = p.token, NEW t, GoodTask(t, p), NEW u, Carries(u, t),
         InOrder(u.todo), Elements(u.todo) \subseteq Elements(t.todo),
         u.todo # <<>> => Head(u.todo) \notin Listings,
         u.todo # <<>> /\ Head(u.todo) \in Writers => KeptState(u.read, q)
  PROVE  GoodTask(u, q)
<1>1. GoodTask(t, q)
  BY TaskOnward
<1>2. \A step : Has(u, step) => Has(t, step)
  BY DEF Has
<1> QED
  BY <1>1, <1>2 DEF GoodTask, Carries

LEMMA TaskIs ==
  ASSUME LockInv, NEW k \in Tasks, NEW s
  PROVE  /\ tasks[k].todo \in Seq(Steps) /\ DOMAIN tasks[k] = TaskFields /\ DOMAIN page = PageFields
         /\ Todo(k, s).todo = s /\ Todo(k, s).read = tasks[k].read /\ Carries(Todo(k, s), tasks[k])
<1>1. DOMAIN tasks[k] = TaskFields /\ Legal(tasks[k].todo) /\ DOMAIN page = PageFields
  BY DEF LockInv, TaskInv
<1>2. /\ Todo(k, s).todo = s /\ Todo(k, s).read = tasks[k].read /\ Carries(Todo(k, s), tasks[k])
  BY <1>1 DEF Todo, TaskFields, NoTask, Carries
<1> QED
  BY <1>1, <1>2, LegalSteps

\* The task takes its next step, with nothing new in its hands.
LEMMA GoesOn ==
  ASSUME LockInv, InStep, NEW k \in Tasks, NEW step, At(k, step), step # "read", Proceeds(k),
         Onward(page, page'), page'.token = page.token, KeptState(stored', page'),
         GoodUrls(urls) => GoodUrls(urls')
  PROVE  InStep'
<1> PICK s : s = tasks[k].todo
  OBVIOUS
<1> PICK t : t = Todo(k, Tail(s))
  OBVIOUS
<1>1. s \in Seq(Steps) /\ s # <<>> /\ Head(s) = step /\ InOrder(s) /\ GoodTask(tasks[k], page)
  BY TaskIs DEF At, InStep, GoodTask
<1>2. /\ InOrder(Tail(s)) /\ Elements(Tail(s)) \subseteq Elements(s)
      /\ Tail(s) # <<>> => Head(Tail(s)) \notin Writers /\ Head(Tail(s)) \notin Listings
  BY <1>1, TailInOrder
<1>3. Becomes(k, t) /\ t.todo = Tail(s) /\ Carries(t, tasks[k])
  BY TaskIs DEF Proceeds
<1>4. GoodTask(t, page')
  BY <1>1, <1>2, <1>3, RestIsGood
<1> QED
  BY <1>3, <1>4, StepIs

\* Nothing happens to the page, the store and the urls.
LEMMA AsItIs ==
  ASSUME InStep, UNCHANGED page
  PROVE  /\ Onward(page, page') /\ page'.token = page.token /\ GoodPage(page)
         /\ UNCHANGED stored => KeptState(stored', page')
BY PageAsIs DEF InStep

LEMMA StoreStays ==
  ASSUME InStep, Onward(page, page'), UNCHANGED stored PROVE KeptState(stored', page')
BY StateOnward DEF InStep

\* A task ends.
LEMMA EndsInStep ==
  ASSUME LockInv, InStep, NEW k \in Tasks, Ends(k), Onward(page, page'), page'.token = page.token,
         UNCHANGED <<stored, urls>>
  PROVE  InStep'
<1>1. NoTask.todo = <<>>
  BY DEF NoTask
<1> QED
  BY <1>1, StoreStays, StepIs DEF Ends

LEMMA ReadInStep == ASSUME LockInv, InStep, NEW k \in Tasks, Read(k) PROVE InStep'
<1> PICK s : s = tasks[k].todo
  OBVIOUS
<1> DEFINE t == [Todo(k, Tail(s)) EXCEPT !.read = stored]
<1>1. s \in Seq(Steps) /\ s # <<>> /\ InOrder(s) /\ GoodTask(tasks[k], page)
  BY TaskIs DEF Read, At, InStep, GoodTask
<1>2. /\ InOrder(Tail(s)) /\ Elements(Tail(s)) \subseteq Elements(s)
      /\ Tail(s) # <<>> => Head(Tail(s)) \notin Listings
  BY <1>1, TailInOrder
<1>3. t.todo = Tail(s) /\ t.read = stored /\ Carries(t, tasks[k])
  BY TaskIs DEF Todo, TaskFields, NoTask, Carries
<1>4. Becomes(k, t) /\ UNCHANGED <<stored, page, urls>>
  BY DEF Read
<1> HIDE DEF t
<1>5. Onward(page, page') /\ page'.token = page.token /\ KeptState(stored', page') /\ KeptState(stored, page')
  BY <1>4, AsItIs DEF InStep
<1>6. GoodTask(t, page')
  BY <1>1, <1>2, <1>3, <1>5, RestIsGood
<1> QED
  BY <1>4, <1>5, <1>6, StepIs

\* A write puts back what it read, but for one half of it.
LEMMA WriteInStep ==
  ASSUME LockInv, InStep, NEW k \in Tasks,
         PutPlayback(k) \/ ClearOwned(k) \/ DropPlayback(k) \/ OpedOn(k) \/ OpedOff(k)
  PROVE  InStep'
<1> PICK t : t = tasks[k]
  OBVIOUS
<1>1. PICK step \in Writers : At(k, step) /\ Proceeds(k) /\ UNCHANGED <<page, urls>>
  BY DEF PutPlayback, ClearOwned, DropPlayback, OpedOn, OpedOff, Writers, Writes
<1>2. /\ Onward(page, page') /\ page'.token = page.token
  BY <1>1, AsItIs
<1>3. GoodTask(t, page) /\ t.todo # <<>> /\ Head(t.todo) = step
  BY <1>1 DEF InStep, At
<1>4. KeptState(t.read, page)
  BY <1>3 DEF GoodTask
<1> PICK r : r = t.read
  OBVIOUS
<1>5. /\ r \in [playback : Records \cup {NoPlayback}, oped : BOOLEAN]
      /\ r.playback = NoPlayback \/ Kept(r.playback, page)
  BY <1>4 DEF KeptState
<1>6. ASSUME PutPlayback(k) PROVE KeptState(stored', page)
  <2>1. stored' = [r EXCEPT !.playback = t.write] /\ Head(t.todo) = "putPlayback"
    BY <1>6 DEF PutPlayback, Writes, At
  <2>2. Has(t, "putPlayback")
    <3>1. t.todo \in Seq(Steps)
      BY TaskIs
    <3>2. 1 \in DOMAIN t.todo /\ t.todo[1] = "putPlayback"
      BY <1>3, <2>1, <3>1
    <3> QED
      BY <3>2 DEF Has, Elements
  <2>3. Kept(t.write, page)
    BY <1>3, <2>2 DEF GoodTask
  <2>4. t.write \in Records
    BY <2>3 DEF Kept, GoodRecord
  <2> PICK w, v : w = t.write /\ v = [r EXCEPT !.playback = w]
    OBVIOUS
  <2>5. v \in [playback : Records \cup {NoPlayback}, oped : BOOLEAN] /\ v.playback = w
    BY <1>5, <2>4
  <2> QED
    BY <2>1, <2>3, <2>5 DEF KeptState
<1>7. ASSUME ClearOwned(k) \/ DropPlayback(k) PROVE KeptState(stored', page)
  <2> PICK v : v = [r EXCEPT !.playback = NoPlayback]
    OBVIOUS
  <2>1. stored' = r \/ stored' = v
    BY <1>7 DEF ClearOwned, DropPlayback, OwnedCleared, Writes
  <2>2. v \in [playback : Records \cup {NoPlayback}, oped : BOOLEAN] /\ v.playback = NoPlayback
    BY <1>5
  <2> QED
    BY <1>5, <2>1, <2>2 DEF KeptState
<1>8. ASSUME OpedOn(k) \/ OpedOff(k) PROVE KeptState(stored', page)
  <2>1. PICK b \in BOOLEAN : stored' = [r EXCEPT !.oped = b]
    BY <1>8 DEF OpedOn, OpedOff, Writes
  <2> PICK v : v = [r EXCEPT !.oped = b]
    OBVIOUS
  <2>2. v \in [playback : Records \cup {NoPlayback}, oped : BOOLEAN] /\ v.playback = r.playback
    BY <1>5
  <2> QED
    BY <1>5, <2>1, <2>2 DEF KeptState
<1>9. KeptState(stored', page')
  BY <1>1, <1>6, <1>7, <1>8
<1>10. step # "read"
  BY DEF Writers
<1> QED
  BY <1>1, <1>2, <1>9, <1>10, GoesOn

\* The field updates of the page that leave what plays as it is.
LEMMA FieldsInStep ==
  ASSUME NEW p, GoodPage(p), DOMAIN p = PageFields, NEW q,
         \/ \E part : q = [p EXCEPT !.flag = FALSE, !.url = Url(part, None, None)]
         \/ q = [p EXCEPT !.skip = "off", !.blocked = TRUE]
         \/ q = [p EXCEPT !.flag = FALSE]
         \/ q = [p EXCEPT !.testing = TRUE, !.skip = "native"]
         \/ q = [p EXCEPT !.seeking = FALSE, !.menu = FALSE]
         \/ q = [p EXCEPT !.advancing = TRUE]
         \/ q = [Release(p) EXCEPT !.menu = TRUE]
  PROVE  Onward(p, q) /\ q.token = p.token
<1>1. HandedOver(q.url)
  <2>1. ASSUME NEW part PROVE HandedOver(Url(part, None, None))
    BY DEF HandedOver, Url
  <2>2. q.url = p.url \/ \E part : q.url = Url(part, None, None)
    BY DEF PageFields, Fresh, Release
  <2> QED
    BY <2>1, <2>2 DEF GoodPage
<1>2. q.token = p.token /\ q.generation = p.generation /\ q.mode = p.mode /\ q.playback = p.playback
  BY DEF PageFields, Fresh, Release
<1> QED
  BY <1>1, <1>2, PageMoves

LEMMA PageIs == ASSUME LockInv, InStep PROVE GoodPage(page) /\ DOMAIN page = PageFields
BY DEF LockInv, InStep

LEMMA PageStepInStep ==
  ASSUME LockInv, InStep, NEW k \in Tasks,
         \/ Settle(k) \/ StopEnds(k) \/ Asked(k) \/ ReleaseAdvance(k)
         \/ EnterOpEd(k) \/ PreviewBegins(k) \/ Unflag(k)
  PROVE  InStep'
<1>1. /\ Proceeds(k) /\ UNCHANGED <<stored, urls>>
      /\ \E step : At(k, step) /\ step # "read"
  BY DEF Settle, StopEnds, Asked, ReleaseAdvance, EnterOpEd, PreviewBegins, Unflag
<1>2. Onward(page, page') /\ page'.token = page.token
  <2>1. CASE Asked(k)
    BY <2>1, AsItIs DEF Asked
  <2>2. CASE Settle(k) \/ StopEnds(k) \/ Unflag(k)
    <3>1. \/ page' = [page EXCEPT !.flag = FALSE, !.url = Url(page.url.part, None, None)]
          \/ page' = [page EXCEPT !.skip = "off", !.blocked = TRUE]
          \/ page' = [page EXCEPT !.flag = FALSE]
      BY <2>2 DEF Settle, StopEnds, Unflag
    <3> PICK q : q = page'
      OBVIOUS
    <3> QED
      BY <3>1, PageIs, FieldsInStep
  <2>3. CASE ReleaseAdvance(k) \/ EnterOpEd(k) \/ PreviewBegins(k)
    BY <2>3, PageIs, PageChanges DEF ReleaseAdvance, EnterOpEd, PreviewBegins
  <2> QED
    BY <2>1, <2>2, <2>3
<1> QED
  BY <1>1, <1>2, StoreStays, GoesOn

LEMMA HeadHas == ASSUME NEW s \in Seq(Steps), s # <<>> PROVE Head(s) \in Elements(s)
<1>1. 1 \in DOMAIN s /\ s[1] = Head(s)
  OBVIOUS
<1> QED
  BY <1>1 DEF Elements

\* The task at a step has it.
LEMMA AtHas ==
  ASSUME LockInv, InStep, NEW k \in Tasks, NEW step, At(k, step)
  PROVE  /\ Has(tasks[k], step) /\ GoodTask(tasks[k], page)
         /\ tasks[k].todo \in Seq(Steps) /\ tasks[k].todo # <<>> /\ Head(tasks[k].todo) = step
BY TaskIs, HeadHas DEF At, Has, InStep

LEMMA FailInStep == ASSUME LockInv, InStep, NEW k \in Tasks, Fail(k) PROVE InStep'
<1> PICK s : s = tasks[k].todo
  OBVIOUS
<1> PICK r : r = FailedTodo(k)
  OBVIOUS
<1>1. s \in Seq(Steps) /\ InOrder(s) /\ GoodTask(tasks[k], page)
  BY TaskIs DEF InStep, GoodTask
<1>2. /\ InOrder(r) /\ Elements(r) \subseteq Elements(s)
      /\ r # <<>> => Head(r) \notin StoreCalls \cup Listings
  BY <1>1, RecoveredInOrder, NothingInOrder DEF FailedTodo
<1> PICK t : t = Todo(k, r)
  OBVIOUS
<1>3. Becomes(k, t) /\ t.todo = r /\ Carries(t, tasks[k]) /\ UNCHANGED <<stored, page, urls>>
  BY TaskIs DEF Fail
<1>4. /\ Onward(page, page') /\ page'.token = page.token /\ KeptState(stored', page')
  BY <1>3, AsItIs
<1>5. Writers \subseteq StoreCalls
  BY DEF Writers, StoreCalls
<1>6. GoodTask(t, page')
  BY <1>1, <1>2, <1>3, <1>4, <1>5, RestIsGood
<1> QED
  BY <1>3, <1>4, <1>6, StepIs

\* The item at its position, and the url it is asked for at.
LEMMA ItemIs ==
  ASSUME NEW e \in Elements(Ids)
  PROVE  /\ Position(Ids, e) \in 1 .. Size /\ ItemOf(Start, e) = Start[Position(Ids, e)]
         /\ ItemOf(Start, e).id = e
<1>1. Position(Ids, e) \in 1 .. Size /\ Ids[Position(Ids, e)] = e
  BY IdsAre, PositionIs
<1>2. ItemOf(Start, e) = Start[Position(Ids, e)]
  BY DEF ItemOf, Ids
<1> QED
  BY <1>1, <1>2, IdsAre

LEMMA OwnElements == ASSUME NEW U, NEW s \in Seq(U) PROVE s \in Seq(Elements(s))
<1> PICK n \in Nat : s \in [1 .. n -> U]
  BY SeqDef
<1>1. DOMAIN s = 1 .. n /\ s = [i \in 1 .. n |-> s[i]]
  OBVIOUS
<1>2. \A i \in 1 .. n : s[i] \in Elements(s)
  BY <1>1 DEF Elements
<1> HIDE DEF Elements
<1>3. s \in [1 .. n -> Elements(s)]
  BY <1>1, <1>2
<1> QED
  BY <1>3, SeqDef

LEMMA UrlsGrow ==
  ASSUME GoodUrls(urls), NEW url, HandedOver(url), urls' = Append(urls, url)
  PROVE  GoodUrls(urls')
<1> PICK s, r : s = urls /\ r = urls'
  OBVIOUS
<1> DEFINE U == Elements(s) \cup {url}
<1>1. s \in Seq(U) /\ url \in U /\ r = Append(s, url)
  <2>1. Elements(s) \subseteq U
    OBVIOUS
  <2> QED
    BY <2>1 DEF GoodUrls
<1> HIDE DEF U
<1>2. /\ r \in Seq(U) /\ Len(r) = Len(s) + 1 /\ Len(s) \in Nat
      /\ \A i \in 1 .. Len(s) : r[i] = s[i]
      /\ r[Len(s) + 1] = url
  BY <1>1, AppendProperties, LenProperties
<1>3. DOMAIN r = 1 .. Len(r) /\ DOMAIN s = 1 .. Len(s)
  BY <1>1, <1>2, LenProperties
<1>4. \A i \in 1 .. Len(r) : i \in 1 .. Len(s) \/ i = Len(s) + 1
  BY <1>2
<1>5. \A i \in 1 .. Len(r) : HandedOver(r[i])
  BY <1>2, <1>3, <1>4 DEF GoodUrls
<1>6. r \in Seq(Elements(r))
  BY <1>2, OwnElements
<1> QED
  BY <1>3, <1>5, <1>6 DEF GoodUrls

LEMMA AskInStep == ASSUME LockInv, InStep, NEW k \in Tasks, Ask(k) PROVE InStep'
<1> PICK t : t = tasks[k]
  OBVIOUS
<1>1. /\ t.list = Start /\ GoodPlayback(t.next)
      /\ GoodRecord(t.write) /\ t.write.at.shuffled = OrderOf(t.next)
  BY AtHas DEF Ask, GoodTask
<1> PICK e \in Elements(Ids) : e = t.next.item
  BY <1>1 DEF GoodPlayback
<1> DEFINE url == [part |-> ItemOf(Start, e).part, index |-> Position(Ids, ItemOf(Start, e).id),
                   range |-> None, by |-> [record |-> t.write, playback |-> t.next]]
<1>2. urls' = Append(urls, url)
  BY <1>1 DEF Ask, Ids
<1>3. url.index = Position(Ids, t.next.item) /\ url.by.record = t.write /\ url.by.playback = t.next
  BY ItemIs
<1> HIDE DEF url
<1>4. HandedOver(url)
  BY <1>1, <1>3 DEF HandedOver
<1>5. GoodUrls(urls) => GoodUrls(urls')
  BY <1>2, <1>4, UrlsGrow
<1>6. At(k, "ask") /\ Proceeds(k) /\ UNCHANGED <<stored, page>>
  BY DEF Ask
<1> QED
  BY <1>5, <1>6, AsItIs, GoesOn

-----------------------------------------------------------------------------
(* A playback of the playlist is played.                                   *)

\* The record of what the page plays.
LEMMA RecordIs ==
  ASSUME NEW c, GoodPage(c), c.mode = "playlist"
  PROVE  LET rec == RecordOf(c, Start)
         IN /\ rec.at = ToTransient(Start, c.playback) /\ Kept(rec, c) /\ Stores(rec, c)
            /\ Persist(rec) = <<"read", "putPlayback">>
<1>1. GoodPlayback(c.playback) /\ c.token \in Nat /\ c.generation \in Nat
  BY DEF GoodPage
<1> PICK at : at = ToTransient(Start, c.playback)
  OBVIOUS
<1>2. GoodPositions(at) /\ at # NoPlayback /\ at.shuffled = OrderOf(c.playback)
  BY <1>1, StoredForm DEF OrderOf
<1> DEFINE rec == [at |-> at, owner |-> c.token, generation |-> c.generation, fresh |-> TRUE]
<1>3. RecordOf(c, Start) = rec
  BY <1>2 DEF RecordOf
<1>4. rec \in Records /\ rec.at = at /\ rec.owner = c.token /\ rec.generation = c.generation
  BY <1>1, <1>2 DEF Records, GoodPositions
<1> HIDE DEF rec
<1>5. rec # NoPlayback
  BY <1>4, AbsentAssumption
<1>6. Persist(rec) = <<"read", "putPlayback">>
  BY <1>5 DEF Persist
<1>7. Kept(rec, c) /\ Stores(rec, c)
  BY <1>1, <1>2, <1>4, <1>5 DEF Kept, Stores, GoodRecord
<1> QED
  BY <1>3, <1>4, <1>6, <1>7

\* What a flow goes on with once it has stored a playback.
After(then) ==
  then \in Seq(Steps) /\ InOrder(then) /\ Elements(then) \subseteq {"settle", "ask", "asked", "release"}

LEMMA PutFirst ==
  ASSUME NEW then, After(then)
  PROVE  LET s == <<"read", "putPlayback">> \o then
         IN /\ InOrder(s) /\ s # <<>> /\ Head(s) = "read"
            /\ Elements(s) \subseteq {"read", "putPlayback", "settle", "ask", "asked", "release"}
<1> PICK a : a = <<"read", "putPlayback">>
  OBVIOUS
<1>1. /\ InOrder(a) /\ Elements(a) = {"read", "putPlayback"} /\ a \in Seq(Steps)
      /\ a # <<>> /\ Head(a) = "read"
  BY CoupleInOrder DEF Writers
<1>2. /\ then \in Seq(Steps) /\ InOrder(then)
      /\ Elements(then) \cap (Listings \cup Writers) = {}
  BY DEF After, Listings, Writers
<1>3. then # <<>> => Head(then) \notin Writers
  BY <1>2, HeadHas
<1>4. Elements(then) \cap (Listings \cup {"putPlayback"}) = {}
  BY <1>2 DEF Writers
<1>5. /\ InOrder(a \o then) /\ Elements(a \o then) = Elements(a) \cup Elements(then)
      /\ a \o then # <<>> /\ Head(a \o then) = "read"
  BY <1>1, <1>2, <1>3, <1>4, JoinedInOrder
<1> QED
  BY <1>1, <1>5 DEF After

\* The page once it plays, and the task that stores that.
LEMMA PlayingPlays ==
  ASSUME LockInv, NEW playback, NEW seeking PROVE Playing(playback, seeking).playback = playback
<1>1. DOMAIN page = PageFields
  BY DEF LockInv
<1>2. "playback" \in DOMAIN page
  BY <1>1 DEF PageFields, Fresh
<1> QED
  BY <1>2 DEF Playing

LEMMA PlayingIs ==
  ASSUME LockInv, InStep, NEW playback, GoodPlayback(playback), NEW seeking
  PROVE  LET c == Playing(playback, seeking)
         IN /\ Onward(page, c) /\ GoodPage(c) /\ c.token = page.token /\ c.mode = "playlist"
            /\ c.playback = playback /\ c.generation = page.generation + 1
<1> PICK c : c = Playing(playback, seeking)
  OBVIOUS
<1>1. GoodPage(page) /\ DOMAIN page = PageFields
  BY PageIs
<1>2. /\ c.token = page.token /\ c.mode = "playlist" /\ c.playback = playback /\ c.url = page.url
      /\ c.generation = page.generation + 1
  BY <1>1 DEF Playing, PageFields, Fresh
<1>3. GoodPage(c)
  BY <1>1, <1>2 DEF GoodPage
<1>4. Onward(page, c)
  BY <1>1, <1>2, <1>3 DEF Onward, GoodPage
<1> QED
  BY <1>2, <1>3, <1>4

LEMMA PlaysInStep ==
  ASSUME LockInv, InStep, NEW k \in Tasks, NEW playback, GoodPlayback(playback), NEW seeking, NEW then,
         After(then), Plays(k, Start, playback, seeking, then), UNCHANGED <<stored, urls>>
  PROVE  InStep'
<1> PICK c : c = Playing(playback, seeking)
  OBVIOUS
<1> PICK rec : rec = RecordOf(c, Start)
  OBVIOUS
<1> DEFINE t == [tasks[k] EXCEPT !.todo = Persist(rec) \o then, !.write = rec, !.list = Start,
                                 !.next = playback, !.generation = c.generation]
<1>1. page' = c /\ Becomes(k, t)
  BY DEF Plays
<1>2. /\ Onward(page, c) /\ GoodPage(c) /\ c.token = page.token /\ c.mode = "playlist"
      /\ c.playback = playback
  BY PlayingIs
<1>3. /\ rec.at = ToTransient(Start, playback) /\ Kept(rec, c) /\ Persist(rec) = <<"read", "putPlayback">>
  BY <1>2, RecordIs
<1>4. /\ t.todo = <<"read", "putPlayback">> \o then /\ t.write = rec /\ t.list = Start
      /\ t.next = playback
  BY <1>3, TaskIs DEF TaskFields, NoTask
<1> HIDE DEF t
<1>5. /\ InOrder(t.todo) /\ Head(t.todo) = "read"
      /\ Elements(t.todo) \subseteq {"read", "putPlayback", "settle", "ask", "asked", "release"}
  BY <1>4, PutFirst
<1>6. GoodTask(t, c)
  <2>1. "read" \notin Writers \cup Listings
    BY DEF Writers, Listings
  <2>2. /\ ~Has(t, "advance") /\ ~Has(t, "switch") /\ ~Has(t, "menu") /\ ~Has(t, "restart")
        /\ ~Has(t, "paramsOrder") /\ ~Has(t, "params")
    BY <1>5 DEF Has
  <2>3. GoodRecord(rec) /\ rec.at.shuffled = OrderOf(playback)
    BY <1>3 DEF Kept, OrderOf
  <2> QED
    BY <1>3, <1>4, <1>5, <2>1, <2>2, <2>3 DEF GoodTask
<1> QED
  BY <1>1, <1>2, <1>6, StoreStays, StepIs

LEMMA AfterIs ==
  ASSUME NEW rest, After(rest)
  PROVE  After(<<>>) /\ After(<<"settle">>) /\ After(<<"settle">> \o rest) /\ After(<<"ask", "asked">> \o rest)
<1>1. /\ {"settle", "ask", "asked"} \subseteq Steps
      /\ {"settle", "ask", "asked", "release"} \cap (Writers \cup Listings) = {}
      /\ "putPlayback" \in Writers
  BY DEF Steps, Writers, Listings
<1>2. After(<<>>)
  BY NothingInOrder DEF After
<1>3. After(<<"settle">>)
  BY <1>1, SingleInOrder DEF After
<1>4. After(<<"ask", "asked">>)
  <2> PICK s : s = <<"ask", "asked">>
    OBVIOUS
  <2>1. s \in Seq(Steps) /\ Len(s) = 2 /\ s[1] = "ask" /\ s[2] = "asked" /\ DOMAIN s = 1 .. 2
    BY <1>1
  <2>2. \A i \in 1 .. 2 : i = 1 \/ i = 2
    OBVIOUS
  <2>3. \A i \in 1 .. 2 : s[i] \notin Writers \cup Listings /\ s[i] # "putPlayback"
    BY <1>1, <2>1, <2>2
  <2>4. InOrder(s)
    BY <2>1, <2>3 DEF InOrder
  <2>5. Elements(s) \subseteq {"settle", "ask", "asked", "release"}
    BY <2>1, <2>2 DEF Elements
  <2> QED
    BY <2>1, <2>4, <2>5 DEF After
<1>5. ASSUME NEW a, After(a) PROVE After(a \o rest)
  <2>1. a \in Seq(Steps) /\ InOrder(a) /\ rest \in Seq(Steps) /\ InOrder(rest)
    BY <1>5 DEF After
  <2>2. Elements(rest) \cap (Listings \cup {"putPlayback"}) = {}
    BY <1>1 DEF After
  <2>3. rest # <<>> => Head(rest) \notin Writers
    <3>1. rest # <<>> => Head(rest) \in Elements(rest)
      BY <2>1, HeadHas
    <3> QED
      BY <1>1, <3>1 DEF After
  <2>4. InOrder(a \o rest) /\ Elements(a \o rest) = Elements(a) \cup Elements(rest)
    BY <2>1, <2>2, <2>3, JoinedInOrder
  <2>5. a \o rest \in Seq(Steps)
    BY <2>1, ConcatProperties
  <2> QED
    BY <1>5, <2>4, <2>5 DEF After
<1> QED
  BY <1>2, <1>3, <1>4, <1>5

LEMMA ResolvedInStep ==
  ASSUME LockInv, InStep, NEW k \in Tasks, NEW playback, GoodPlayback(playback), NEW rest, After(rest),
         PlayResolvedItem(k, Start, playback, rest), UNCHANGED <<stored, urls>>
  PROVE  InStep'
BY AfterIs, PlaysInStep DEF PlayResolvedItem

\* Starting an item of the playlist plays it, in the order asked for.
LEMMA StartsIt ==
  ASSUME NEW k, NEW playback, GoodPlayback(playback), StartPlaylistItem(k, Start, playback)
  PROVE  Plays(k, Start, playback, TRUE, <<"settle">>)
<1> PICK o, item : o = playback.order /\ item = playback.item
  OBVIOUS
<1>1. Enumerates(o, Size, Elements(Ids)) /\ item \in Elements(Ids)
  BY DEF GoodPlayback
<1>2. Reconciled(Ids, o) = o /\ Readiness(Ids, item) = "ready"
  BY <1>1, ReconciledAll, ReadinessAll
<1> PICK to : to = [playback EXCEPT !.order = o]
  OBVIOUS
<1>3. Plays(k, Start, to, TRUE, <<"settle">>)
  BY <1>2 DEF StartPlaylistItem, Ids
<1>4. to \in [order : [1 .. Size -> Elements(Ids)], item : Elements(Ids), shuffle : BOOLEAN]
      /\ to.order = o /\ to.item = item /\ to.shuffle = playback.shuffle
  BY <1>1 DEF GoodPlayback, Enumerates
<1>5. GoodPlayback(to)
  BY <1>1, <1>4 DEF GoodPlayback
<1>6. to = playback
  BY <1>4, <1>5, SamePlayback
<1> QED
  BY <1>3, <1>6

LEMMA StartedInStep ==
  ASSUME LockInv, InStep, NEW k \in Tasks, NEW playback, GoodPlayback(playback),
         StartPlaylistItem(k, Start, playback), UNCHANGED <<stored, urls>>
  PROVE  InStep'
<1>1. After(<<"settle">>)
  BY AfterIs, NothingInOrder DEF After
<1> QED
  BY <1>1, StartsIt, PlaysInStep

\* Going to an item of the order is playing from the playlist.
LEMMA JumpInStep ==
  ASSUME LockInv, InStep, NEW k \in Tasks, NEW playback, GoodPlayback(playback), playlist = Start,
         JumpTo(k, playback), UNCHANGED <<stored, urls>>
  PROVE  InStep'
<1> PICK o, item, i : o = playback.order /\ item = playback.item /\ i = tasks[k].ask
  OBVIOUS
<1>1. Enumerates(o, Size, Elements(Ids)) /\ item \in Elements(Ids)
  BY DEF GoodPlayback
<1>2. Reconciled(Ids, o) = o /\ Readiness(Ids, item) = "ready"
  BY <1>1, ReconciledAll, ReadinessAll
<1>3. \/ Ends(k) /\ UNCHANGED page
      \/ /\ i \in DOMAIN o
         /\ PlayResolvedItem(k, Start, [playback EXCEPT !.order = o, !.item = o[i]], <<>>)
  BY <1>1, <1>2 DEF JumpTo, Ids
<1>4. CASE Ends(k) /\ UNCHANGED page
  BY <1>4, AsItIs, EndsInStep
<1>5. CASE /\ i \in DOMAIN o
           /\ PlayResolvedItem(k, Start, [playback EXCEPT !.order = o, !.item = o[i]], <<>>)
  <2>1. i \in 1 .. Size /\ o \in [1 .. Size -> Elements(Ids)]
    BY <1>1, <1>5 DEF Enumerates
  <2> PICK e \in Elements(Ids) : e = o[i]
    BY <2>1
  <2> PICK to : to = [playback EXCEPT !.order = o, !.item = e]
    OBVIOUS
  <2>2. to \in [order : [1 .. Size -> Elements(Ids)], item : Elements(Ids), shuffle : BOOLEAN]
        /\ to.order = o /\ to.shuffle = playback.shuffle
    BY <2>1 DEF GoodPlayback
  <2>3. GoodPlayback(to)
    BY <1>1, <2>2 DEF GoodPlayback
  <2>4. PlayResolvedItem(k, Start, to, <<>>)
    BY <1>5
  <2> QED
    BY <2>3, <2>4, AfterIs, NothingInOrder, ResolvedInStep DEF After
<1> QED
  BY <1>3, <1>4, <1>5

-----------------------------------------------------------------------------
(* The flows of the page.                                                  *)

\* Steps that go on with nothing of the playlist in hand.
Plain == Steps \ ({"putPlayback", "ask", "advance", "switch", "menu", "restart", "params", "paramsOrder"}
                  \cup Listings)

Easy(s) ==
  s \in Seq(Steps) /\ InOrder(s) /\ Elements(s) \subseteq Plain /\ (s # <<>> => Head(s) \notin Writers)

LEMMA EasyIsGood ==
  ASSUME NEW p, NEW t, Easy(t.todo) PROVE GoodTask(t, p)
<1>1. InOrder(t.todo) /\ \A step : Has(t, step) => step \in Plain
  BY DEF Easy, Has
<1>2. t.todo # <<>> => Head(t.todo) \notin Writers \cup Listings
  <2>1. t.todo # <<>> => Head(t.todo) \in Elements(t.todo)
    BY HeadHas DEF Easy
  <2> QED
    BY <2>1 DEF Easy, Plain
<1> QED
  BY <1>1, <1>2 DEF GoodTask, Plain

LEMMA EasyInStep ==
  ASSUME LockInv, InStep, NEW k \in Tasks, NEW t, Becomes(k, t), Easy(t.todo),
         Onward(page, page'), page'.token = page.token, UNCHANGED <<stored, urls>>
  PROVE  InStep'
BY EasyIsGood, StoreStays, StepIs

LEMMA EasyJoined ==
  ASSUME NEW a, Easy(a), NEW b, Easy(b)
  PROVE  Easy(a \o b)
<1>1. /\ a \in Seq(Steps) /\ InOrder(a) /\ b \in Seq(Steps) /\ InOrder(b)
      /\ b # <<>> => Head(b) \notin Writers
      /\ a # <<>> => Head(a) \notin Writers
  BY DEF Easy
<1>2. Elements(b) \cap (Listings \cup {"putPlayback"}) = {}
  BY DEF Easy, Plain
<1>3. /\ InOrder(a \o b) /\ Elements(a \o b) = Elements(a) \cup Elements(b)
      /\ a # <<>> => a \o b # <<>> /\ Head(a \o b) = Head(a)
  BY <1>1, <1>2, JoinedInOrder
<1>4. a = <<>> => a \o b = b
  BY <1>1, ConcatEmptySeq
<1>5. a \o b \in Seq(Steps)
  BY <1>1, ConcatProperties
<1> QED
  BY <1>1, <1>3, <1>4, <1>5 DEF Easy

LEMMA EasyLists ==
  /\ Easy(<<>>) /\ Easy(StopSteps) /\ Easy(DropSteps) /\ Easy(<<"read", "opedOff", "unflag">>)
  /\ Easy(<<"read", "opedOn", "enterOpEd">>) /\ Easy(<<"read", "dropPlayback">>)
  /\ \A step \in Plain \ Writers : Easy(<<step>>)
  /\ {"begin", "resume", "opedCheck", "jump", "jumpStored", "confirm", "notice", "release"}
       \subseteq Plain \ Writers
<1>1. /\ {"opedCheck", "unflag", "enterOpEd"} \subseteq Steps \ (Writers \cup Listings)
      /\ {"dropPlayback", "opedOff", "opedOn"} \subseteq Writers
      /\ {"read", "opedCheck", "unflag", "enterOpEd", "dropPlayback", "opedOff", "opedOn", "clearOwned",
          "stopped"} \subseteq Plain
      /\ "read" \notin Writers
  BY DEF Steps, StoreCalls, Writers, Listings, Plain
<1>2. Easy(StopSteps)
  BY <1>1, StopInOrder DEF Easy
<1>3. Easy(DropSteps)
  BY <1>1, TripleInOrder DEF Easy, DropSteps
<1>4. Easy(<<"read", "opedOff", "unflag">>) /\ Easy(<<"read", "opedOn", "enterOpEd">>)
  BY <1>1, TripleInOrder DEF Easy
<1>5. Easy(<<"read", "dropPlayback">>)
  BY <1>1, CoupleInOrder DEF Easy
<1>6. ASSUME NEW step \in Plain \ Writers PROVE Easy(<<step>>)
  <2>1. step \in Steps
    BY DEF Plain
  <2> QED
    BY <2>1, SingleInOrder DEF Easy
<1>7. Easy(<<>>)
  BY NothingInOrder DEF Easy
<1>8. {"begin", "resume", "opedCheck", "jump", "jumpStored", "confirm", "notice", "release"}
        \subseteq Plain \ Writers
  BY DEF Steps, StoreCalls, Writers, Listings, Plain
<1> QED
  BY <1>2, <1>3, <1>4, <1>5, <1>6, <1>7, <1>8

\* What is left to the finally is nothing, or the release.
LEMMA RestIs == ASSUME NEW k PROVE After(Rest(k)) /\ Easy(Rest(k))
<1>1. Rest(k) = <<>> \/ Rest(k) = <<"release">>
  BY DEF Rest, Finally
<1>2. "release" \in Steps /\ "release" \in Plain \ Writers
  BY EasyLists DEF Steps
<1>3. After(<<>>) /\ Easy(<<>>)
  BY NothingInOrder, EasyLists DEF After
<1>4. After(<<"release">>)
  BY <1>2, SingleInOrder DEF After
<1>5. Easy(<<"release">>)
  BY <1>2, EasyLists
<1> QED
  BY <1>1, <1>3, <1>4, <1>5

LEMMA TurnsInStep ==
  ASSUME LockInv, InStep, NEW k \in Tasks, NEW s, Becomes(k, Todo(k, s)), Easy(s),
         Onward(page, page'), page'.token = page.token, UNCHANGED <<stored, urls>>
  PROVE  InStep'
<1>1. Todo(k, s).todo = s
  BY TaskIs
<1> QED
  BY <1>1, EasyInStep

LEMMA StopsInStep ==
  ASSUME LockInv, InStep, page' = Stopped(page)
  PROVE  Onward(page, page') /\ page'.token = page.token
BY PageIs, PageChanges

LEMMA AdvanceFoundInStep ==
  ASSUME LockInv, InStep, playlist = Start, NEW k \in Tasks, AdvanceFound(k) PROVE InStep'
<1> PICK t : t = tasks[k]
  OBVIOUS
<1>1. GoodPlayback(t.next) /\ UNCHANGED <<stored, urls>>
  BY AtHas DEF AdvanceFound, GoodTask
<1> PICK result : result = Navigate(Start, t.next, t.ask)
  OBVIOUS
<1>2. result = Boundary \/ \E to : GoodPlayback(to) /\ result = Target(to)
  BY <1>1, NavigateIs
<1>3. \/ page' = Release(page) /\ Ends(k)
      \/ /\ page' = [Release(page) EXCEPT !.menu = TRUE]
         /\ Becomes(k, [t EXCEPT !.todo = <<"menu">>, !.list = Start])
      \/ page' = Stopped(page) /\ Becomes(k, Todo(k, StopSteps \o Rest(k)))
      \/ result # Boundary /\ PlayResolvedItem(k, Start, result.playback, Rest(k))
  BY DEF AdvanceFound
<1>4. CASE page' = Release(page) /\ Ends(k)
  BY <1>1, <1>4, PageIs, PageChanges, EndsInStep
<1>5. CASE /\ page' = [Release(page) EXCEPT !.menu = TRUE]
           /\ Becomes(k, [t EXCEPT !.todo = <<"menu">>, !.list = Start])
  <2> PICK q : q = page'
    OBVIOUS
  <2>1. Onward(page, q) /\ q.token = page.token
    BY <1>5, PageIs, FieldsInStep
  <2> DEFINE u == [t EXCEPT !.todo = <<"menu">>, !.list = Start]
  <2>2. u.todo = <<"menu">> /\ u.list = Start /\ u.next = t.next
    BY TaskIs DEF TaskFields, NoTask
  <2>3. Becomes(k, u)
    BY <1>5
  <2> HIDE DEF u
  <2>4. GoodTask(u, q)
    <3>1. /\ InOrder(u.todo) /\ Head(u.todo) = "menu" /\ "menu" \notin Writers \cup Listings
          /\ Elements(u.todo) = {"menu"}
      BY <2>2, SingleInOrder DEF Steps, Writers, Listings
    <3> QED
      BY <1>1, <2>2, <3>1 DEF GoodTask, Has
  <2> QED
    BY <1>1, <2>1, <2>3, <2>4, StoreStays, StepIs
<1>6. CASE page' = Stopped(page) /\ Becomes(k, Todo(k, StopSteps \o Rest(k)))
  BY <1>1, <1>6, RestIs, EasyLists, EasyJoined, StopsInStep, TurnsInStep
<1>7. CASE result # Boundary /\ PlayResolvedItem(k, Start, result.playback, Rest(k))
  <2>1. GoodPlayback(result.playback)
    <3>1. PICK to : GoodPlayback(to) /\ result = Target(to)
      BY <1>2, <1>7
    <3>2. Target(to).playback = to
      BY DEF Target
    <3> QED
      BY <3>1, <3>2
  <2> QED
    BY <1>1, <1>7, <2>1, RestIs, ResolvedInStep
<1> QED
  BY <1>3, <1>4, <1>5, <1>6, <1>7

LEMMA MenuInStep == ASSUME LockInv, InStep, NEW k \in Tasks, MenuCloses(k) PROVE InStep'
<1> PICK t : t = tasks[k]
  OBVIOUS
<1>1. GoodPlayback(t.next) /\ t.list = Start /\ UNCHANGED <<stored, urls>>
  BY AtHas DEF MenuCloses, GoodTask
<1>2. \/ Ends(k) /\ UNCHANGED page
      \/ page' = Stopped(page) /\ Becomes(k, Todo(k, StopSteps \o <<"restart">>))
      \/ page' = Stopped(page) /\ Becomes(k, Todo(k, StopSteps))
  BY DEF MenuCloses
<1>3. CASE Ends(k) /\ UNCHANGED page
  BY <1>1, <1>3, AsItIs, EndsInStep
<1>4. CASE page' = Stopped(page) /\ Becomes(k, Todo(k, StopSteps))
  BY <1>1, <1>4, EasyLists, StopsInStep, TurnsInStep
<1>5. CASE page' = Stopped(page) /\ Becomes(k, Todo(k, StopSteps \o <<"restart">>))
  <2> PICK s : s = StopSteps \o <<"restart">>
    OBVIOUS
  <2> PICK u : u = Todo(k, s)
    OBVIOUS
  <2>1. "restart" \in Steps /\ "restart" \notin Writers \cup Listings \cup {"putPlayback"}
    BY DEF Steps, Writers, Listings
  <2>2. /\ InOrder(s) /\ Elements(s) = {"read", "clearOwned", "opedOff", "stopped", "restart"}
        /\ Head(s) = "read"
    <3>1. /\ InOrder(<<"restart">>) /\ Elements(<<"restart">>) = {"restart"}
          /\ <<"restart">> \in Seq(Steps) /\ Head(<<"restart">>) = "restart"
      BY <2>1, SingleInOrder
    <3>2. Elements(<<"restart">>) \cap (Listings \cup {"putPlayback"}) = {}
      BY <2>1, <3>1
    <3>3. InOrder(s) /\ Elements(s) = Elements(StopSteps) \cup {"restart"} /\ Head(s) = "read"
      BY <2>1, <3>1, <3>2, StopInOrder, JoinedInOrder
    <3> QED
      BY <3>3, StopInOrder
  <2>3. u.todo = s /\ Carries(u, t)
    BY TaskIs
  <2>4. GoodTask(u, page')
    <3>1. /\ ~Has(u, "putPlayback") /\ ~Has(u, "ask") /\ ~Has(u, "advance") /\ ~Has(u, "switch")
          /\ ~Has(u, "params") /\ ~Has(u, "paramsOrder") /\ ~Has(u, "menu")
      <4>1. Elements(u.todo) = {"read", "clearOwned", "opedOff", "stopped", "restart"}
        BY <2>2, <2>3
      <4> HIDE DEF Elements
      <4> QED
        BY <4>1 DEF Has
    <3>2. "read" \notin Writers \cup Listings
      BY DEF Writers, Listings
    <3> QED
      BY <1>1, <2>2, <2>3, <3>1, <3>2 DEF GoodTask, Carries
  <2> QED
    BY <1>1, <1>5, <2>4, StopsInStep, StoreStays, StepIs
<1> QED
  BY <1>2, <1>3, <1>4, <1>5

LEMMA ConfirmInStep == ASSUME LockInv, InStep, NEW k \in Tasks, ConfirmCloses(k) PROVE InStep'
<1>1. UNCHANGED <<stored, urls>>
  BY DEF ConfirmCloses
<1>2. CASE Ends(k) /\ UNCHANGED page
  BY <1>1, <1>2, AsItIs, EndsInStep
<1>3. CASE page' = Stopped(page) /\ Becomes(k, Todo(k, StopSteps \o <<"begin">>))
  <2>1. Easy(StopSteps \o <<"begin">>)
    BY EasyLists, EasyJoined
  <2> QED
    BY <1>1, <1>3, <2>1, StopsInStep, TurnsInStep
<1> QED
  BY <1>2, <1>3 DEF ConfirmCloses

LEMMA ThenResumeInStep ==
  ASSUME LockInv, InStep, NEW k \in Tasks, ThenResume(k), UNCHANGED <<stored, urls>> PROVE InStep'
<1>1. Easy(<<"resume">>)
  BY EasyLists
<1> QED
  BY <1>1, AsItIs, EndsInStep, TurnsInStep DEF ThenResume

LEMMA NoticeInStep == ASSUME LockInv, InStep, NEW k \in Tasks, NoticeCloses(k) PROVE InStep'
BY ThenResumeInStep DEF NoticeCloses

\* The playlist from its first item, in its own order.
LEMMA InOwnOrder ==
  ASSUME NEW item \in Elements(Ids)
  PROVE  GoodPlayback([order |-> Ids, item |-> item, shuffle |-> FALSE])
BY IdsAre DEF GoodPlayback, Enumerates

LEMMA StartIs ==
  ASSUME NEW pb, GoodPlayback(pb) PROVE StartNavigation(Start, pb) = Target(pb)
<1> PICK o, item : o = pb.order /\ item = pb.item
  OBVIOUS
<1>1. Enumerates(o, Size, Elements(Ids)) /\ item \in Elements(Ids)
  BY DEF GoodPlayback
<1>2. Reconciled(Ids, o) = o /\ Readiness(Ids, item) = "ready"
  BY <1>1, ReconciledAll, ReadinessAll
<1> PICK to : to = [pb EXCEPT !.order = o]
  OBVIOUS
<1>3. StartNavigation(Start, pb) = Target(to)
  BY <1>2 DEF StartNavigation, Ids
<1>4. to \in [order : [1 .. Size -> Elements(Ids)], item : Elements(Ids), shuffle : BOOLEAN]
      /\ to.order = o /\ to.item = item /\ to.shuffle = pb.shuffle
  BY <1>1 DEF GoodPlayback, Enumerates
<1>5. GoodPlayback(to)
  BY <1>1, <1>4 DEF GoodPlayback
<1>6. to = pb
  BY <1>4, <1>5, SamePlayback
<1> QED
  BY <1>3, <1>6

LEMMA RestartInStep == ASSUME LockInv, InStep, NEW k \in Tasks, Restart(k) PROVE InStep'
<1>1. /\ GoodPlayback(tasks[k].next) /\ tasks[k].list = Start /\ UNCHANGED <<stored, urls>>
  BY AtHas DEF Restart, GoodTask
<1>2. Size > 0 /\ Size \in Nat
  BY <1>1, ReadinessAll, IdsAre DEF GoodPlayback
<1>3. Ids[1] \in Elements(Ids)
  <2>1. 1 \in 1 .. Size
    BY <1>2
  <2> QED
    BY <2>1, IdsAre DEF Enumerates
<1> PICK e \in Elements(Ids) : e = Ids[1]
  BY <1>3
<1> PICK pb : pb = [order |-> Ids, item |-> e, shuffle |-> FALSE]
  OBVIOUS
<1>4. GoodPlayback(pb)
  BY InOwnOrder
<1>5. StartNavigation(Start, pb) = Target(pb)
  BY <1>4, StartIs
<1>6. Target(pb).playback = pb
  BY DEF Target
<1>7. PlayResolvedItem(k, Start, pb, <<>>)
  BY <1>1, <1>5, <1>6 DEF Restart, Ids
<1> QED
  BY <1>1, <1>4, <1>7, AfterIs, NothingInOrder, ResolvedInStep DEF After

LEMMA JumpFoundInStep ==
  ASSUME LockInv, InStep, playlist = Start, NEW k \in Tasks, JumpFound(k) PROVE InStep'
<1>1. UNCHANGED <<stored, urls>>
  BY DEF JumpFound
<1>2. CASE Ends(k) /\ UNCHANGED page
  BY <1>1, <1>2, AsItIs, EndsInStep
<1>3. CASE page.mode = "playlist" /\ JumpTo(k, page.playback)
  BY <1>1, <1>3, PageIs, JumpInStep DEF GoodPage
<1> QED
  BY <1>2, <1>3 DEF JumpFound

LEMMA JumpListInStep ==
  ASSUME LockInv, InStep, playlist = Start, NEW k \in Tasks, JumpList(k) PROVE InStep'
<1>1. UNCHANGED <<stored, urls>>
  BY DEF JumpList
<1>2. CASE Ends(k) /\ UNCHANGED page
  BY <1>1, <1>2, AsItIs, EndsInStep
<1>3. CASE JumpTo(k, FromTransient(Start, tasks[k].read.playback.at))
  <2>1. KeptState(tasks[k].read, page) /\ tasks[k].read.playback # NoPlayback
    BY AtHas DEF JumpList, GoodTask, Listings
  <2>2. GoodPositions(tasks[k].read.playback.at)
    BY <2>1 DEF KeptState, Kept, GoodRecord
  <2> QED
    BY <1>1, <1>3, <2>2, LedTo, JumpInStep
<1> QED
  BY <1>2, <1>3 DEF JumpList

LEMMA JumpStoredInStep == ASSUME LockInv, InStep, NEW k \in Tasks, JumpStored(k) PROVE InStep'
<1>1. UNCHANGED <<stored, page, urls>>
  BY DEF JumpStored
<1>2. /\ Onward(page, page') /\ page'.token = page.token /\ KeptState(stored', page')
      /\ KeptState(stored, page')
  BY <1>1, AsItIs DEF InStep
<1>3. CASE Ends(k)
  BY <1>1, <1>2, <1>3, EndsInStep
<1>4. CASE /\ stored.playback # NoPlayback
           /\ Becomes(k, [Todo(k, <<"jumpList">>) EXCEPT !.read = stored])
  <2> DEFINE t == [Todo(k, <<"jumpList">>) EXCEPT !.read = stored]
  <2>1. t.todo = <<"jumpList">> /\ t.read = stored
    BY TaskIs DEF Todo, TaskFields, NoTask
  <2>2. Becomes(k, t)
    BY <1>4
  <2> HIDE DEF t
  <2>3. /\ InOrder(t.todo) /\ Elements(t.todo) = {"jumpList"}
    BY <2>1, SingleInOrder DEF Steps
  <2>4. GoodTask(t, page')
    BY <1>2, <1>4, <2>1, <2>3 DEF GoodTask, Has
  <2> QED
    BY <1>1, <1>2, <2>2, <2>4, StepIs
<1> QED
  BY <1>3, <1>4 DEF JumpStored

LEMMA ParamsInStep ==
  ASSUME LockInv, InStep, playlist = Start, NEW k \in Tasks, Params(k) PROVE InStep'
<1> PICK t : t = tasks[k]
  OBVIOUS
<1>1. UNCHANGED <<stored, urls>> /\ HandedOver(t.ask)
  BY AtHas DEF Params, GoodTask
<1>2. CASE ThenResume(k)
  BY <1>1, <1>2, ThenResumeInStep
<1>3. CASE /\ t.ask.index \in DOMAIN Start /\ UNCHANGED page
           /\ Becomes(k, [Todo(k, <<"paramsOrder">>) EXCEPT !.list = playlist])
  <2> DEFINE u == [Todo(k, <<"paramsOrder">>) EXCEPT !.list = playlist]
  <2>1. u.todo = <<"paramsOrder">> /\ u.list = Start /\ u.ask = t.ask
    BY TaskIs DEF Todo, TaskFields, NoTask
  <2>2. Becomes(k, u)
    BY <1>3
  <2> HIDE DEF u
  <2>3. /\ InOrder(u.todo) /\ Elements(u.todo) = {"paramsOrder"} /\ Head(u.todo) = "paramsOrder"
        /\ "paramsOrder" \notin Writers \cup Listings
    <3>1. "paramsOrder" \in Steps /\ "paramsOrder" \notin Writers \cup Listings
      BY DEF Steps, StoreCalls, Writers, Listings
    <3> QED
      BY <2>1, <3>1, SingleInOrder
  <2>4. t.ask.index \in 1 .. Size
    BY <1>3, IdsAre
  <2>5. GoodTask(u, page')
    BY <1>1, <2>1, <2>3, <2>4 DEF GoodTask, Has
  <2> QED
    BY <1>1, <1>3, <2>2, <2>5, AsItIs, StepIs
<1> QED
  BY <1>2, <1>3 DEF Params

\* The order the page takes up is the stored one, and the item the one asked for.
LEMMA ParamsPlays ==
  ASSUME LockInv, InStep, NEW k \in Tasks, ParamsOrder(k), page' # page
  PROVE  LET index    == tasks[k].ask.index
             at       == stored.playback.at
             hasOrder == stored.playback # NoPlayback /\ at.shuffled # <<>>
             order    == IF hasOrder THEN IdsAt(Ids, at.shuffled) ELSE Ids
             playback == [order |-> order, item |-> Ids[index], shuffle |-> hasOrder]
         IN GoodPlayback(playback) /\ Plays(k, Start, playback, TRUE, <<"settle">>)
<1> PICK t, rec, index : t = tasks[k] /\ rec = stored.playback /\ index = tasks[k].ask.index
  OBVIOUS
<1> PICK hasOrder : hasOrder = (rec # NoPlayback /\ rec.at.shuffled # <<>>)
  OBVIOUS
<1> PICK order : order = IF hasOrder THEN IdsAt(Ids, rec.at.shuffled) ELSE Ids
  OBVIOUS
<1>1. t.list = Start /\ index \in 1 .. Size
  BY AtHas DEF ParamsOrder, GoodTask
<1>2. rec # NoPlayback => GoodPositions(rec.at)
  BY DEF InStep, KeptState, Kept, GoodRecord
<1>3. Enumerates(order, Size, Elements(Ids)) /\ Ids[index] \in Elements(Ids)
  <2>1. ASSUME hasOrder PROVE Enumerates(order, Size, Elements(Ids))
    <3>1. Enumerates(rec.at.shuffled, Size, 1 .. Size)
      BY <1>2, <2>1 DEF GoodPositions
    <3> QED
      BY <2>1, <3>1, IdsAtIs
  <2>2. ASSUME ~hasOrder PROVE Enumerates(order, Size, Elements(Ids))
    BY <2>2, IdsAre
  <2>3. Ids[index] \in Elements(Ids)
    BY <1>1, IdsAre DEF Enumerates
  <2> QED
    BY <2>1, <2>2, <2>3
<1> PICK e \in Elements(Ids) : e = Ids[index]
  BY <1>3
<1> PICK pb : pb = [order |-> order, item |-> e, shuffle |-> hasOrder]
  OBVIOUS
<1>4. GoodPlayback(pb)
  <2>1. order \in [1 .. Size -> Elements(Ids)] /\ hasOrder \in BOOLEAN
    BY <1>3 DEF Enumerates
  <2> QED
    BY <1>3, <2>1 DEF GoodPlayback
<1>5. Start[index].id = e
  BY <1>1, IdsAre
<1>6. StartPlaylistItem(k, Start, pb)
  BY <1>1, <1>5 DEF ParamsOrder, Ids
<1>7. Plays(k, Start, pb, TRUE, <<"settle">>)
  BY <1>4, <1>6, StartsIt
<1> QED
  BY <1>4, <1>7

LEMMA ParamsOrderInStep == ASSUME LockInv, InStep, NEW k \in Tasks, ParamsOrder(k) PROVE InStep'
<1>1. UNCHANGED <<stored, urls>>
  BY DEF ParamsOrder
<1>2. CASE page' # page
  <2>1. \E playback : GoodPlayback(playback) /\ Plays(k, Start, playback, TRUE, <<"settle">>)
    BY <1>2, ParamsPlays
  <2>2. After(<<"settle">>)
    BY AfterIs, NothingInOrder DEF After
  <2> QED
    BY <1>1, <2>1, <2>2, PlaysInStep
<1>3. CASE Ends(k) /\ UNCHANGED page
  BY <1>1, <1>3, AsItIs, EndsInStep
<1>4. CASE page' = page /\ ~Ends(k)
  <2>1. \E items, playback : Plays(k, items, playback, TRUE, <<"settle">>)
    BY <1>4 DEF ParamsOrder, StartPlaylistItem
  <2>2. \E playback : page' = Playing(playback, TRUE)
    BY <2>1 DEF Plays
  <2>3. page'.generation = page.generation + 1 /\ page.generation \in Nat
    BY <2>2, PageIs DEF Playing, PageFields, Fresh, GoodPage
  <2> QED
    BY <1>4, <2>3
<1> QED
  BY <1>2, <1>3, <1>4

LEMMA ResumeInStep == ASSUME LockInv, InStep, NEW k \in Tasks, Resume(k) PROVE InStep'
<1> DEFINE t(s) == [Todo(k, s) EXCEPT !.read = stored]
<1>1. UNCHANGED <<stored, page, urls>>
  BY DEF Resume
<1>2. /\ Onward(page, page') /\ page'.token = page.token /\ KeptState(stored', page')
      /\ KeptState(stored, page')
  BY <1>1, AsItIs DEF InStep
<1>3. \A s : t(s).todo = s /\ t(s).read = stored
  BY TaskIs DEF Todo, TaskFields, NoTask
<1>4. \/ Becomes(k, NoTask)
      \/ Becomes(k, t(<<"opedCheck">>)) \/ Becomes(k, t(DropSteps))
      \/ stored.playback # NoPlayback /\ Becomes(k, t(<<"resumeList">>))
  BY DEF Resume
<1> HIDE DEF t
<1>5. CASE Becomes(k, NoTask)
  BY <1>1, <1>2, <1>5, EndsInStep DEF Ends
<1>6. CASE Becomes(k, t(<<"opedCheck">>)) \/ Becomes(k, t(DropSteps))
  <2>1. PICK s : Becomes(k, t(s)) /\ Easy(s)
    BY <1>6, EasyLists
  <2> QED
    BY <1>1, <1>2, <1>3, <2>1, EasyInStep
<1>7. CASE stored.playback # NoPlayback /\ Becomes(k, t(<<"resumeList">>))
  <2> PICK u : u = t(<<"resumeList">>)
    OBVIOUS
  <2>1. u.todo = <<"resumeList">> /\ u.read = stored
    BY <1>3
  <2>2. /\ InOrder(u.todo) /\ Elements(u.todo) = {"resumeList"}
    BY <2>1, SingleInOrder DEF Steps
  <2>3. GoodTask(u, page')
    BY <1>2, <1>7, <2>1, <2>2 DEF GoodTask, Has
  <2> QED
    BY <1>1, <1>2, <1>7, <2>3, StepIs
<1> QED
  BY <1>4, <1>5, <1>6, <1>7

LEMMA ResumeListInStep ==
  ASSUME LockInv, InStep, playlist = Start, NEW k \in Tasks, ResumeList(k) PROVE InStep'
<1> PICK restored : restored = FromTransient(Start, tasks[k].read.playback.at)
  OBVIOUS
<1>1. UNCHANGED <<stored, urls>>
  BY DEF ResumeList
<1>2. GoodPlayback(restored)
  <2>1. KeptState(tasks[k].read, page) /\ tasks[k].read.playback # NoPlayback
    BY AtHas DEF ResumeList, GoodTask, Listings
  <2>2. GoodPositions(tasks[k].read.playback.at)
    BY <2>1 DEF KeptState, Kept, GoodRecord
  <2> QED
    BY <2>2, LedTo
<1>3. \/ Ends(k) /\ UNCHANGED page
      \/ Becomes(k, Todo(k, DropSteps)) /\ UNCHANGED page
      \/ StartPlaylistItem(k, Start, restored)
      \/ PlayResolvedItem(k, Start, restored, <<>>)
  BY DEF ResumeList
<1>4. CASE Ends(k) /\ UNCHANGED page
  BY <1>1, <1>4, AsItIs, EndsInStep
<1>5. CASE Becomes(k, Todo(k, DropSteps)) /\ UNCHANGED page
  BY <1>1, <1>5, AsItIs, EasyLists, TurnsInStep
<1>6. CASE StartPlaylistItem(k, Start, restored)
  BY <1>1, <1>2, <1>6, StartedInStep
<1>7. CASE PlayResolvedItem(k, Start, restored, <<>>)
  BY <1>1, <1>2, <1>7, AfterIs, NothingInOrder, ResolvedInStep DEF After
<1> QED
  BY <1>3, <1>4, <1>5, <1>6, <1>7

LEMMA OpEdCheckInStep == ASSUME LockInv, InStep, NEW k \in Tasks, OpEdCheck(k) PROVE InStep'
<1>1. UNCHANGED <<stored, urls>>
  BY DEF OpEdCheck
<1>2. \/ Ends(k) /\ (UNCHANGED page \/ page' = EnteredOpEd(page))
      \/ Becomes(k, Todo(k, <<"read", "opedOff", "unflag">>)) /\ UNCHANGED page
  BY DEF OpEdCheck
<1>3. Onward(page, page') /\ page'.token = page.token
  BY <1>2, PageIs, PageAsIs, PageChanges
<1> QED
  BY <1>1, <1>2, <1>3, EasyLists, EndsInStep, TurnsInStep

\* Another item of the order that plays, in the generation that plays it.
LEMMA SwitchedTo ==
  ASSUME LockInv, InStep, NEW k \in Tasks, SwitchFound(k), page' # page \/ ~Ends(k), playlist = Start
  PROVE  /\ page.mode = "playlist" /\ page' = [page EXCEPT !.playback = [tasks[k].next EXCEPT !.item = tasks[k].ask]]
         /\ Onward(page, page') /\ page'.token = page.token /\ page'.generation = page.generation
         /\ page'.mode = "playlist"
         /\ Becomes(k, [Todo(k, <<"read", "putPlayback">>) EXCEPT !.write = RecordOf(page', Start)])
<1> PICK t : t = tasks[k]
  OBVIOUS
<1> PICK next, item : next = t.next /\ item = t.ask
  OBVIOUS
<1> PICK to : to = [next EXCEPT !.item = item]
  OBVIOUS
<1>1. /\ Alive(k) /\ page.mode = "playlist" /\ item \in Elements(Ids)
      /\ page' = [page EXCEPT !.playback = to]
      /\ Becomes(k, [Todo(k, Persist(RecordOf(page', Start))) EXCEPT !.write = RecordOf(page', Start)])
  BY DEF SwitchFound, Ids
<1>2. /\ GoodPlayback(next) /\ next.order = page.playback.order
      /\ next.shuffle = page.playback.shuffle
  BY <1>1, AtHas DEF SwitchFound, GoodTask, Alive
<1>3. /\ to \in [order : [1 .. Size -> Elements(Ids)], item : Elements(Ids), shuffle : BOOLEAN]
      /\ to.order = next.order /\ to.shuffle = next.shuffle
  BY <1>1, <1>2 DEF GoodPlayback
<1>4. GoodPlayback(to)
  BY <1>2, <1>3 DEF GoodPlayback
<1> PICK q : q = page'
  OBVIOUS
<1>5. /\ q.token = page.token /\ q.generation = page.generation /\ q.mode = "playlist"
      /\ q.url = page.url /\ q.playback = to
  BY <1>1, PageIs DEF PageFields, Fresh
<1>6. GoodPage(q)
  BY <1>4, <1>5, PageIs DEF GoodPage
<1>7. Onward(page, q)
  BY <1>1, <1>2, <1>3, <1>5, <1>6, PageIs DEF Onward, GoodPage
<1>8. Persist(RecordOf(q, Start)) = <<"read", "putPlayback">>
  BY <1>5, <1>6, RecordIs
<1> QED
  BY <1>1, <1>5, <1>7, <1>8

LEMMA SwitchInStep ==
  ASSUME LockInv, InStep, playlist = Start, NEW k \in Tasks, SwitchFound(k) PROVE InStep'
<1>1. UNCHANGED <<stored, urls>>
  BY DEF SwitchFound
<1>2. CASE Ends(k) /\ UNCHANGED page
  BY <1>1, <1>2, AsItIs, EndsInStep
<1>3. CASE page' # page \/ ~Ends(k)
  <2> PICK rec : rec = RecordOf(page', Start)
    OBVIOUS
  <2> DEFINE u == [Todo(k, <<"read", "putPlayback">>) EXCEPT !.write = rec]
  <2>1. Becomes(k, u) /\ Onward(page, page') /\ page'.token = page.token /\ page'.mode = "playlist"
    BY <1>3, SwitchedTo
  <2>2. u.todo = <<"read", "putPlayback">> /\ u.write = rec
    BY TaskIs DEF Todo, TaskFields, NoTask
  <2> HIDE DEF u
  <2>3. Kept(rec, page')
    BY <2>1, RecordIs DEF Onward
  <2>4. InOrder(u.todo) /\ Elements(u.todo) = {"read", "putPlayback"} /\ Head(u.todo) = "read"
    BY <2>2, CoupleInOrder DEF Writers
  <2>5. "read" \notin Writers \cup Listings
    BY DEF Writers, Listings
  <2>6. GoodTask(u, page')
    BY <2>2, <2>3, <2>4, <2>5 DEF GoodTask, Has
  <2> QED
    BY <1>1, <2>1, <2>6, StoreStays, StepIs
<1> QED
  BY <1>2, <1>3

LEMMA RunsInStep == ASSUME LockInv, InStep, playlist = Start, NEW k \in Tasks, Runs(k) PROVE InStep'
BY ReadInStep, WriteInStep, PageStepInStep, AskInStep, AdvanceFoundInStep, RestartInStep,
   JumpFoundInStep, JumpStoredInStep, JumpListInStep, ParamsInStep, ParamsOrderInStep, ResumeInStep,
   ResumeListInStep, OpEdCheckInStep, SwitchInStep
   DEF Runs

-----------------------------------------------------------------------------
(* The user, the video, and the other surfaces.                            *)

LEMMA StillInStep ==
  ASSUME LockInv, InStep, UNCHANGED <<tasks, urls>>, Onward(page, page'), page'.token = page.token,
         KeptState(stored', page')
  PROVE  InStep'
<1>1. ASSUME NEW k \in Tasks PROVE GoodTask(tasks'[k], page')
  <2>1. GoodTask(tasks[k], page)
    BY DEF InStep
  <2> QED
    BY <2>1, TaskOnward
<1> QED
  BY <1>1 DEF InStep, Onward

\* A flow starts that asks for nothing of the playlist.
LEMMA StartsInStep ==
  ASSUME LockInv, InStep, NEW s, Easy(s), Starts(s) \/ \E ask : StartsWith(s, ask),
         Onward(page, page'), page'.token = page.token, UNCHANGED <<stored, urls>>
  PROVE  InStep'
<1>1. CASE Starts(s)
  <2> DEFINE t == [NoTask EXCEPT !.todo = s, !.generation = page.generation]
  <2>1. t.todo = s
    BY DEF NoTask
  <2>2. FreeTasks # {} /\ Becomes(NewTask, t)
    BY <1>1 DEF Starts
  <2> HIDE DEF t
  <2> QED
    BY <2>1, <2>2, NewTaskIs, EasyInStep
<1>2. ASSUME NEW ask, StartsWith(s, ask) PROVE InStep'
  <2> DEFINE t == [NoTask EXCEPT !.todo = s, !.generation = page.generation,
                                 !.next = page.playback, !.ask = ask]
  <2>1. t.todo = s
    BY DEF NoTask
  <2>2. FreeTasks # {} /\ Becomes(NewTask, t)
    BY <1>2 DEF StartsWith
  <2> HIDE DEF t
  <2> QED
    BY <2>1, <2>2, NewTaskIs, EasyInStep
<1> QED
  BY <1>1, <1>2

\* A flow that goes on from what plays: to the next item, or to another of this video.
LEMMA FollowsInStep ==
  ASSUME LockInv, InStep, page.mode = "playlist", NEW s, NEW ask, StartsWith(s, ask),
         s = <<"advance", "release">> \/ s = <<"switch">>,
         Onward(page, page'), page'.token = page.token, page'.mode = "playlist",
         page'.generation = page.generation, page'.playback = page.playback, UNCHANGED <<stored, urls>>
  PROVE  InStep'
<1> DEFINE t == [NoTask EXCEPT !.todo = s, !.generation = page.generation,
                               !.next = page.playback, !.ask = ask]
<1>1. /\ t.todo = s /\ t.next = page.playback /\ t.generation = page.generation /\ t.remote = FALSE
  BY DEF NoTask
<1>2. FreeTasks # {} /\ Becomes(NewTask, t)
  BY DEF StartsWith
<1> HIDE DEF t
<1>3. GoodPlayback(page.playback) /\ page.generation \in Nat
  BY PageIs DEF GoodPage
<1>4. InOrder(s) /\ Elements(s) \subseteq {"advance", "release", "switch"}
  <2>1. {"advance", "release", "switch"} \subseteq Steps \ (Writers \cup Listings)
        /\ "putPlayback" \in Writers
    BY DEF Steps, StoreCalls, Writers, Listings
  <2>2. CASE s = <<"switch">>
    BY <2>1, <2>2, SingleInOrder
  <2>3. CASE s = <<"advance", "release">>
    <3>1. Len(s) = 2 /\ s[1] = "advance" /\ s[2] = "release" /\ DOMAIN s = 1 .. 2
      BY <2>3
    <3>2. \A i \in 1 .. 2 : i = 1 \/ i = 2
      OBVIOUS
    <3>3. InOrder(s)
      BY <2>1, <3>1, <3>2 DEF InOrder
    <3>4. Elements(s) \subseteq {"advance", "release", "switch"}
      BY <3>1, <3>2 DEF Elements
    <3> QED
      BY <3>3, <3>4
  <2> QED
    BY <2>2, <2>3
<1>5. Head(s) \notin Writers \cup Listings
  BY DEF Writers, Listings
<1>6. GoodTask(t, page')
  <2>1. \A step : Has(t, step) => step \in {"advance", "release", "switch"}
    BY <1>1, <1>4 DEF Has
  <2>2. /\ ~Has(t, "putPlayback") /\ ~Has(t, "ask") /\ ~Has(t, "menu") /\ ~Has(t, "restart")
        /\ ~Has(t, "params") /\ ~Has(t, "paramsOrder")
    BY <2>1
  <2> QED
    BY <1>1, <1>3, <1>4, <1>5, <2>2 DEF GoodTask
<1> QED
  BY <1>2, <1>6, NewTaskIs, StoreStays, StepIs

LEMMA AdvanceInStep ==
  ASSUME LockInv, InStep, NEW step, Advance(step), UNCHANGED <<stored, urls>> PROVE InStep'
<1>1. /\ page.mode = "playlist" /\ page' = [page EXCEPT !.advancing = TRUE]
      /\ StartsWith(<<"advance", "release">>, step)
  BY DEF Advance
<1> PICK q : q = page'
  OBVIOUS
<1>2. Onward(page, q) /\ q.token = page.token
  BY <1>1, PageIs, FieldsInStep
<1>3. q.mode = page.mode /\ q.generation = page.generation /\ q.playback = page.playback
  BY <1>1, PageIs DEF PageFields, Fresh
<1> QED
  BY <1>1, <1>2, <1>3, FollowsInStep

LEMMA UserInStep ==
  ASSUME LockInv, InStep,
         \/ ClickStop \/ SwitchItem \/ BeginPreview \/ TestPreview \/ CancelPreview
         \/ InRange \/ Expire \/ \E i \in Wanted : Jump(i)
  PROVE  InStep'
<1>1. CASE ClickStop
  BY <1>1, StopsInStep, EasyLists, StartsInStep DEF ClickStop
<1>2. CASE SwitchItem
  BY <1>2, AsItIs, FollowsInStep DEF SwitchItem
<1>3. CASE BeginPreview
  <2>1. Onward(page, page') /\ page'.token = page.token /\ UNCHANGED <<stored, urls>>
    BY <1>3, PageIs, PageAsIs, PageChanges DEF BeginPreview
  <2>2. UNCHANGED tasks \/ Starts(<<"confirm">>)
    BY <1>3 DEF BeginPreview
  <2> QED
    BY <2>1, <2>2, StoreStays, StillInStep, EasyLists, StartsInStep
<1>4. CASE TestPreview \/ InRange
  <2> PICK q : q = page'
    OBVIOUS
  <2>1. UNCHANGED <<tasks, stored, urls>> /\ Onward(page, q) /\ q.token = page.token
    BY <1>4, PageIs, FieldsInStep DEF TestPreview, InRange
  <2> QED
    BY <2>1, StoreStays, StillInStep
<1>5. CASE CancelPreview
  <2> PICK q : q = page'
    OBVIOUS
  <2>1. /\ q.token = page.token /\ q.url = page.url /\ q.mode = "idle"
        /\ q.generation = page.generation + 1
    BY <1>5, PageIs DEF CancelPreview, PageFields, Fresh
  <2>2. Onward(page, q)
    BY <2>1, PageIs, PageMoves DEF GoodPage
  <2>3. UNCHANGED <<tasks, stored, urls>>
    BY <1>5 DEF CancelPreview
  <2> QED
    BY <2>1, <2>2, <2>3, StoreStays, StillInStep
<1>6. CASE Expire
  <2> PICK rec : rec = stored.playback
    OBVIOUS
  <2>1. rec = NoPlayback \/ Kept(rec, page)
    BY DEF InStep, KeptState
  <2> PICK old : old = [rec EXCEPT !.fresh = FALSE]
    OBVIOUS
  <2> PICK v : v = [playback |-> IF rec = NoPlayback THEN NoPlayback ELSE old, oped |-> FALSE]
    OBVIOUS
  <2>2. stored' = v /\ UNCHANGED <<tasks, page, urls>>
    BY <1>6 DEF Expire
  <2>3. rec # NoPlayback => Kept(old, page)
    <3> SUFFICES ASSUME rec # NoPlayback PROVE Kept(old, page)
      OBVIOUS
    <3>1. /\ old \in Records /\ old.at = rec.at /\ old.owner = rec.owner
          /\ old.generation = rec.generation /\ GoodPositions(rec.at)
      <4>1. rec \in Records /\ GoodPositions(rec.at)
        BY <2>1 DEF Kept, GoodRecord
      <4> QED
        BY <4>1 DEF Records
    <3>2. Stores(old, page) => Stores(rec, page)
      BY <3>1 DEF Stores
    <3> QED
      BY <2>1, <3>1, <3>2 DEF Kept, GoodRecord
  <2>4. KeptState(v, page)
    <3>1. rec # NoPlayback => old \in Records
      BY <2>3 DEF Kept, GoodRecord
    <3> QED
      BY <2>3, <3>1 DEF KeptState
  <2> QED
    BY <2>2, <2>4, AsItIs, StillInStep
<1>7. ASSUME NEW i \in Wanted, Jump(i) PROVE InStep'
  BY <1>7, AsItIs, EasyLists, StartsInStep DEF Jump
<1> QED
  BY <1>1, <1>2, <1>3, <1>4, <1>5, <1>6, <1>7

LEMMA ChaptersInStep == ASSUME LockInv, InStep, ChaptersArrive PROVE InStep'
<1> DEFINE c == [page EXCEPT !.seen = TRUE, !.url = Url(@.part, None, None),
                             !.skip = IF page.seen \/ page.mode # "idle" THEN @ ELSE "native",
                             !.blocked = @ /\ (page.seen \/ page.mode # "idle")]
           t(context, steps) ==
             [NoTask EXCEPT !.todo = steps, !.generation = context.generation, !.ask = page.url]
           Opened == StopSteps \o <<"read", "opedOn", "enterOpEd">>
<1>1. GoodPage(page) /\ DOMAIN page = PageFields
  BY PageIs
<1>2. /\ DOMAIN c = PageFields /\ c.token = page.token /\ c.generation = page.generation
      /\ c.mode = page.mode /\ c.playback = page.playback /\ c.url.by = None
  BY <1>1 DEF PageFields, Fresh, Url
<1>3. \A context, steps : t(context, steps).todo = steps /\ t(context, steps).ask = page.url
  BY DEF NoTask
<1>4. /\ FreeTasks # {}
      /\ \/ page' = c /\ Becomes(NewTask, t(c, <<"params">>))
         \/ page' = c /\ Becomes(NewTask, t(c, <<"notice">>))
         \/ page' = Stopped(c) /\ Becomes(NewTask, t(Stopped(c), Opened))
         \/ page' = c /\ Becomes(NewTask, t(c, <<"resume">>))
         \/ page' = c /\ Becomes(NewTask, t(c, <<>>))
  BY DEF ChaptersArrive
<1>5. UNCHANGED <<stored, urls>>
  BY DEF ChaptersArrive
<1> HIDE DEF c, t, Opened
<1>6. Onward(page, c)
  BY <1>1, <1>2, PageMoves DEF HandedOver
<1>7. Onward(page, Stopped(c)) /\ Stopped(c).token = page.token
  <2>1. Onward(c, Stopped(c)) /\ Stopped(c).token = c.token /\ Stopped(c).mode # "playlist"
    BY <1>2, <1>6, PageChanges DEF Onward
  <2> PICK q : q = Stopped(c)
    OBVIOUS
  <2>2. /\ GoodPage(q) /\ c.generation <= q.generation /\ q.token = c.token /\ q.mode # "playlist"
    BY <2>1 DEF Onward
  <2>3. Onward(page, q)
    BY <1>1, <1>2, <2>2 DEF Onward, GoodPage
  <2> QED
    BY <1>2, <2>2, <2>3
<1>8. Onward(page, page') /\ page'.token = page.token
  BY <1>2, <1>4, <1>6, <1>7
<1>9. CASE Becomes(NewTask, t(c, <<"params">>))
  <2> PICK u : u = t(c, <<"params">>)
    OBVIOUS
  <2>1. u.todo = <<"params">> /\ u.ask = page.url
    BY <1>3
  <2>2. /\ InOrder(u.todo) /\ Elements(u.todo) = {"params"} /\ Head(u.todo) = "params"
        /\ "params" \notin Writers \cup Listings
    BY <2>1, SingleInOrder DEF Steps, Writers, Listings
  <2>3. GoodTask(u, page')
    BY <1>1, <2>1, <2>2 DEF GoodTask, Has, GoodPage
  <2> QED
    BY <1>4, <1>5, <1>8, <1>9, <2>3, NewTaskIs, StoreStays, StepIs
<1>10. CASE ~Becomes(NewTask, t(c, <<"params">>))
  <2>1. Easy(Opened)
    BY EasyLists, EasyJoined DEF Opened
  <2>2. PICK context, steps : Becomes(NewTask, t(context, steps)) /\ Easy(steps)
    BY <1>4, <1>10, <2>1, EasyLists
  <2> QED
    BY <1>3, <1>4, <1>5, <1>8, <2>2, NewTaskIs, EasyInStep
<1> QED
  BY <1>9, <1>10

\* The popup's record belongs to no page, and leads to the playback it asks for.
LEMMA RemoteInStep ==
  ASSUME LockInv, InStep, playlist = Start, NEW playback, GoodPlayback(playback),
         NEW index \in 1 .. Size, StartsRemotely(playback, index)
  PROVE  InStep'
<1> DEFINE at  == [index |-> index, shuffled |-> ToTransient(Start, playback).shuffled]
           rec == [at |-> at, owner |-> Remote, generation |-> 1, fresh |-> TRUE]
           t   == [NoTask EXCEPT !.todo = <<"read", "putPlayback", "ask">>, !.remote = TRUE,
                                 !.write = rec, !.list = Start, !.next = playback]
<1>1. FreeTasks # {} /\ Becomes(NewTask, t) /\ UNCHANGED <<stored, page, urls>>
  BY DEF StartsRemotely
<1>2. /\ t.todo = <<"read", "putPlayback", "ask">> /\ t.write = rec /\ t.list = Start
      /\ t.next = playback
  BY DEF NoTask
<1> HIDE DEF t
<1>3. at.index = index /\ at.shuffled = OrderOf(playback)
  BY DEF OrderOf
<1>4. GoodPositions(at)
  <2>1. GoodPositions(ToTransient(Start, playback))
    BY StoredForm
  <2> PICK s : s = ToTransient(Start, playback).shuffled
    OBVIOUS
  <2>2. s \in Seq(Nat) /\ (s = <<>> \/ Enumerates(s, Size, 1 .. Size))
    BY <2>1 DEF GoodPositions, StoredPositions
  <2>3. index \in Nat
    BY IdsAre
  <2> QED
    BY <2>2, <2>3 DEF GoodPositions, StoredPositions
<1> HIDE DEF at
<1>5. rec \in Records /\ rec.at = at /\ rec.owner = 0
  BY <1>4 DEF Records, Remote, GoodPositions
<1> HIDE DEF rec
<1>6. GoodRecord(rec)
  BY <1>4, <1>5 DEF GoodRecord
<1>7. Kept(rec, page)
  <2>1. page.token \in Nat \ {0}
    BY PageIs DEF GoodPage
  <2> QED
    BY <1>5, <1>6, <2>1 DEF Kept, Stores
<1>8. /\ InOrder(t.todo) /\ Elements(t.todo) = {"read", "putPlayback", "ask"} /\ Head(t.todo) = "read"
  <2>1. "putPlayback" \in Writers /\ "ask" \in Steps /\ "ask" \notin Writers \cup Listings
    BY DEF Steps, Writers, Listings
  <2> QED
    BY <1>2, <2>1, TripleInOrder
<1>9. GoodTask(t, page)
  <2>1. "read" \notin Writers \cup Listings
    BY DEF Writers, Listings
  <2>2. /\ ~Has(t, "advance") /\ ~Has(t, "switch") /\ ~Has(t, "menu") /\ ~Has(t, "restart")
        /\ ~Has(t, "params") /\ ~Has(t, "paramsOrder")
    BY <1>8 DEF Has
  <2> QED
    BY <1>2, <1>3, <1>5, <1>6, <1>7, <1>8, <2>1, <2>2 DEF GoodTask
<1> QED
  BY <1>1, <1>9, NewTaskIs, AsItIs, StepIs

LEMMA StartItemInStep ==
  ASSUME LockInv, InStep, playlist = Start, NEW i, StartItem(i) PROVE InStep'
<1>1. i \in 1 .. Size /\ Start[i].id = Ids[i] /\ Ids[i] \in Elements(Ids)
  BY IdsAre DEF StartItem, Enumerates
<1> PICK e \in Elements(Ids) : e = Ids[i]
  BY <1>1
<1>2. StartsRemotely([order |-> Ids, item |-> e, shuffle |-> FALSE], i)
  BY <1>1 DEF StartItem, Ids
<1> QED
  BY <1>1, <1>2, InOwnOrder, RemoteInStep

LEMMA StartShuffleInStep ==
  ASSUME LockInv, InStep, playlist = Start, StartShuffle PROVE InStep'
<1>1. Ids # <<>> /\ \E order \in Shuffles(Ids) :
        StartsRemotely([order |-> order, item |-> order[1], shuffle |-> TRUE], 1)
  BY DEF StartShuffle, ShuffleAll, Ids
<1> PICK order \in Shuffles(Ids) :
      StartsRemotely([order |-> order, item |-> order[1], shuffle |-> TRUE], 1)
  BY <1>1
<1>2. Size \in Nat /\ Len(Ids) = Size /\ Size > 0 /\ 1 \in 1 .. Size
  <2>1. Ids \in Seq(Elements(Ids)) /\ Size \in Nat /\ DOMAIN Ids = 1 .. Size
    BY IdsAre, SeqDef DEF Enumerates
  <2>2. Len(Ids) = Size
    BY <2>1, LenProperties
  <2> QED
    BY <1>1, <2>1, <2>2, EmptySeq
<1>3. Enumerates(order, Size, Elements(Ids))
  BY <1>2, BijectionIs DEF Shuffles
<1>4. order \in [1 .. Size -> Elements(Ids)] /\ order[1] \in Elements(Ids)
  BY <1>2, <1>3 DEF Enumerates
<1> PICK pb : pb = [order |-> order, item |-> order[1], shuffle |-> TRUE]
  OBVIOUS
<1>5. GoodPlayback(pb)
  BY <1>3, <1>4 DEF GoodPlayback
<1> QED
  BY <1>2, <1>5, RemoteInStep

LEMMA ShuffleHereInStep ==
  ASSUME LockInv, InStep, playlist = Start, ShuffleFromHere PROVE InStep'
<1> PICK shown : shown = FromTransient(Start, stored.playback.at)
  OBVIOUS
<1>1. GoodPlayback(shown)
  BY LedTo DEF ShuffleFromHere, InStep, KeptState, Kept, GoodRecord
<1>2. \E order \in ReshuffleAfterCurrent(Ids, shown.order, shown.item) :
        StartsRemotely([order |-> order, item |-> shown.item, shuffle |-> TRUE],
                       Position(shown.order, shown.item))
  BY DEF ShuffleFromHere, Ids
<1> PICK order \in ReshuffleAfterCurrent(Ids, shown.order, shown.item) :
      StartsRemotely([order |-> order, item |-> shown.item, shuffle |-> TRUE],
                     Position(shown.order, shown.item))
  BY <1>2
<1>3. Enumerates(order, Size, Elements(Ids))
  BY <1>1, ReshuffleIs
<1>4. Position(shown.order, shown.item) \in 1 .. Size
  BY <1>1, PositionIs, IdsAre DEF GoodPlayback
<1> PICK pb : pb = [order |-> order, item |-> shown.item, shuffle |-> TRUE]
  OBVIOUS
<1>5. GoodPlayback(pb)
  <2>1. order \in [1 .. Size -> Elements(Ids)] /\ shown.item \in Elements(Ids)
    BY <1>1, <1>3 DEF GoodPlayback, Enumerates
  <2> QED
    BY <1>3, <2>1 DEF GoodPlayback
<1> QED
  BY <1>4, <1>5, RemoteInStep

\* A page loaded anew: the records that are kept are those of earlier pages.
LEMMA OpensInStep ==
  ASSUME LockInv, InStep, NEW url, HandedOver(url), Opens(url), GoodUrls(urls')
  PROVE  InStep'
<1>1. /\ page' = Fresh(url, page.token + 1, page.flag) /\ UNCHANGED stored
      /\ tasks' = [k \in Tasks |-> IF tasks[k].remote THEN tasks[k] ELSE NoTask]
  BY DEF Opens
<1>2. GoodPage(page) /\ page.token \in Nat \ {0}
  BY DEF InStep, GoodPage
<1>3. /\ page'.token = page.token + 1 /\ page'.generation = 1 /\ page'.mode = "idle"
      /\ page'.url = url
  BY <1>1 DEF Fresh
<1>4. GoodPage(page') /\ page.token <= page'.token /\ page'.token # page.token
  BY <1>2, <1>3 DEF GoodPage
<1>5. Onward(page, page')
  BY <1>2, <1>4 DEF Onward
<1>6. KeptState(stored', page')
  BY <1>1, <1>5, StateOnward DEF InStep
<1>7. ASSUME NEW k \in Tasks PROVE GoodTask(tasks[k], page)'
  <2>1. tasks'[k] = IF tasks[k].remote THEN tasks[k] ELSE NoTask
    BY <1>1
  <2>2. CASE tasks[k].remote
    <3>1. GoodTask(tasks[k], page')
      BY <1>5, <2>2, TaskOnward DEF InStep
    <3> QED
      BY <2>1, <2>2, <3>1
  <2>3. CASE ~tasks[k].remote
    BY <2>1, <2>3, NothingIsGood
  <2> QED
    BY <2>2, <2>3
<1> QED
  BY <1>4, <1>6, <1>7 DEF InStep

LEMMA LoadInStep == ASSUME LockInv, InStep, OpenUrl \/ Reload PROVE InStep'
<1>1. GoodPage(page) /\ GoodUrls(urls)
  BY DEF InStep
<1>2. CASE Reload
  BY <1>1, <1>2, OpensInStep DEF Reload, GoodPage
<1>3. CASE OpenUrl
  <2>1. urls # <<>> /\ Opens(Head(urls)) /\ urls' = Tail(urls)
    BY <1>3 DEF OpenUrl
  <2> PICK U : U = Elements(urls)
    OBVIOUS
  <2>2. urls \in Seq(U) /\ \A i \in DOMAIN urls : HandedOver(urls[i])
    BY <1>1 DEF GoodUrls
  <2>3. /\ Len(urls) \in Nat \ {0} /\ DOMAIN urls = 1 .. Len(urls) /\ Head(urls) = urls[1]
        /\ urls' \in Seq(U) /\ Len(urls') = Len(urls) - 1
        /\ \A i \in 1 .. Len(urls') : urls'[i] = urls[i + 1]
    BY <2>1, <2>2, EmptySeq, HeadTailProperties, LenProperties
  <2>4. 1 \in 1 .. Len(urls) /\ HandedOver(Head(urls))
    BY <2>2, <2>3
  <2>5. ASSUME NEW i \in DOMAIN urls' PROVE HandedOver(urls'[i])
    <3>1. DOMAIN urls' = 1 .. Len(urls')
      BY <2>3, LenProperties
    <3>2. urls'[i] = urls[i + 1] /\ i + 1 \in DOMAIN urls
      BY <2>3, <3>1
    <3> QED
      BY <2>2, <3>2
  <2>6. GoodUrls(urls')
    BY <2>3, <2>5, OwnElements DEF GoodUrls
  <2> QED
    BY <2>1, <2>4, <2>6, OpensInStep
<1> QED
  BY <1>2, <1>3

\* A list edited into another one is not the one at first again.
LEMMA OrderStep == ASSUME LockInv, OrderInv, [Next]_vars PROVE OrderInv'
<1> SUFFICES ASSUME playlist' = Start PROVE InStep'
  BY DEF OrderInv
<1>1. ASSUME NEW items \in Edits, EditPlaylist(items) PROVE FALSE
  BY <1>1, PlayerAssumption DEF EditPlaylist
<1>2. CASE \E items \in Edits : EditPlaylist(items)
  BY <1>1, <1>2
<1>3. CASE UNCHANGED vars
  BY <1>3 DEF vars, OrderInv, InStep
<1>4. ASSUME NEW k \in Tasks, Runs(k) \/ Answers(k) \/ Fail(k) PROVE InStep'
  <2>1. UNCHANGED playlist
    BY <1>4 DEF Runs, Answers, Fail, Read, PutPlayback, ClearOwned, DropPlayback, OpedOn, OpedOff, Writes,
       Settle, StopEnds, Ask, Asked, ReleaseAdvance, AdvanceFound, Restart, JumpFound, JumpStored, JumpList,
       EnterOpEd, PreviewBegins, Params, ParamsOrder, Resume, ResumeList, OpEdCheck, Unflag, SwitchFound,
       MenuCloses, ConfirmCloses, NoticeCloses
  <2> QED
    BY <1>4, <2>1, RunsInStep, MenuInStep, ConfirmInStep, NoticeInStep, FailInStep DEF Answers, OrderInv
<1>5. CASE ChaptersArrive
  BY <1>5, ChaptersInStep DEF ChaptersArrive, OrderInv
<1>6. CASE ClickNext \/ ClickPrevious \/ RunsOut
  <2>1. UNCHANGED <<playlist, stored, urls>> /\ \E step : Advance(step)
    BY <1>6 DEF ClickNext, ClickPrevious, RunsOut
  <2> QED
    BY <2>1, AdvanceInStep DEF OrderInv
<1>7. CASE \/ ClickStop \/ SwitchItem \/ BeginPreview \/ TestPreview \/ CancelPreview
           \/ InRange \/ Expire \/ \E i \in Wanted : Jump(i)
  <2>1. UNCHANGED playlist
    BY <1>7 DEF ClickStop, SwitchItem, BeginPreview, TestPreview, CancelPreview, InRange, Expire, Jump
  <2> QED
    BY <1>7, <2>1, UserInStep DEF OrderInv
<1>8. CASE StartShuffle \/ ShuffleFromHere \/ \E i \in Wanted : StartItem(i)
  <2>1. UNCHANGED playlist
    BY <1>8 DEF StartShuffle, ShuffleFromHere, StartItem, StartsRemotely
  <2> QED
    BY <1>8, <2>1, StartItemInStep, StartShuffleInStep, ShuffleHereInStep DEF OrderInv
<1>9. CASE OpenUrl \/ Reload
  BY <1>9, LoadInStep DEF OpenUrl, Reload, Opens, OrderInv
<1> QED
  BY <1>2, <1>3, <1>4, <1>5, <1>6, <1>7, <1>8, <1>9 DEF Next

LEMMA InitInOrder == Init => OrderInv
<1> SUFFICES ASSUME Init PROVE InStep
  BY DEF OrderInv
<1>1. PICK home \in Homes : page = Fresh(home, 1, FALSE)
  BY DEF Init
<1>2. GoodPage(page)
  <2>1. home.by = None
    BY PlayerAssumption
  <2> QED
    BY <1>1, <2>1 DEF GoodPage, Fresh, HandedOver
<1>3. KeptState(stored, page)
  BY DEF Init, KeptState
<1>4. GoodUrls(urls)
  <2>1. urls = <<>> /\ <<>> \in Seq(Elements(<<>>)) /\ DOMAIN <<>> = {}
    BY DEF Init
  <2> QED
    BY <2>1 DEF GoodUrls
<1>5. \A k \in Tasks : GoodTask(tasks[k], page)
  BY NothingIsGood DEF Init
<1> QED
  BY <1>2, <1>3, <1>4, <1>5 DEF InStep

\* As long as the playlist is not edited, every record that is stored, or on its
\* way into the store, is one of a playback of it, and the record this page
\* stored for its present generation has the order that plays here.
THEOREM OrderIsKept == Spec => []OrderInv
<1>1. Init => LockInv /\ OrderInv
  BY InitInv, InitInOrder
<1>2. LockInv /\ OrderInv /\ [Next]_vars => (LockInv /\ OrderInv)'
  BY StepKeeps, OrderStep
<1> QED
  BY <1>1, <1>2, PTL DEF Spec

\* The page the player is sent to plays the item that was asked for, and in the
\* order of the page that asked, as long as that page's record is the stored one.
THEOREM HandoffIsInOrder == Spec => HandoffKeepsOrder
<1> DEFINE Handed ==
      \A k \in Tasks :
        LET asked == tasks[k].ask.by
        IN page'.mode = "playlist" /\ page.mode = "idle" /\ playlist = Start /\ ParamsOrder(k)
                /\ asked # None /\ stored.playback = asked.record
             => page'.playback = asked.playback
<1>1. ASSUME LockInv, OrderInv, [Next]_vars PROVE Handed
  <2> SUFFICES ASSUME NEW k \in Tasks, page'.mode = "playlist", page.mode = "idle", playlist = Start,
                      ParamsOrder(k), tasks[k].ask.by # None,
                      stored.playback = tasks[k].ask.by.record
               PROVE  page'.playback = tasks[k].ask.by.playback
    OBVIOUS
  <2>1. InStep
    BY <1>1 DEF OrderInv
  <2> PICK url, pb, rec : url = tasks[k].ask /\ pb = url.by.playback /\ rec = url.by.record
    OBVIOUS
  <2>2. /\ GoodPlayback(pb) /\ GoodRecord(rec) /\ rec.at.shuffled = OrderOf(pb)
        /\ url.index = Position(Ids, pb.item)
    BY <1>1, <2>1, AtHas DEF ParamsOrder, GoodTask, HandedOver
  <2>3. rec # NoPlayback /\ stored.playback = rec
    BY <2>2, Recorded
  <2>4. Ids[url.index] = pb.item
    <3>1. pb.item \in Elements(Ids)
      BY <2>2 DEF GoodPlayback
    <3>2. Ids[Position(Ids, pb.item)] = pb.item
      BY <3>1, PositionIs, IdsAre
    <3> QED
      BY <2>2, <3>2
  <2>5. /\ pb.order = IF rec.at.shuffled = <<>> THEN Ids ELSE IdsAt(Ids, rec.at.shuffled)
        /\ pb.shuffle = (rec.at.shuffled # <<>>)
    BY <2>2, BackAgain
  <2> PICK playback : playback = [order   |-> IF rec.at.shuffled # <<>> THEN IdsAt(Ids, rec.at.shuffled) ELSE Ids,
                                  item    |-> Ids[url.index],
                                  shuffle |-> rec.at.shuffled # <<>>]
    OBVIOUS
  <2>6. GoodPlayback(playback) /\ Plays(k, Start, playback, TRUE, <<"settle">>)
    BY <1>1, <2>1, <2>3, ParamsPlays
  <2>7. playback = pb
    BY <2>2, <2>4, <2>5, <2>6, SamePlayback
  <2>8. page' = Playing(playback, TRUE)
    BY <2>6 DEF Plays
  <2>9. Playing(playback, TRUE).playback = playback
    BY <1>1, PlayingPlays
  <2> QED
    BY <2>7, <2>8, <2>9
<1>2. LockInv /\ OrderInv /\ [Next]_vars => [Handed]_vars
  BY <1>1
<1> HIDE DEF Handed
<1>3. Spec => [][Handed]_vars
  BY <1>2, LockIsKept, OrderIsKept, PTL DEF Spec
<1> QED
  BY <1>3 DEF HandoffKeepsOrder, Handed

-----------------------------------------------------------------------------
(* The line of transient calls: which tasks stand in it, and who is before *)
(* whom.  A step takes its task from the head and may put it at the end.   *)

Once(s) == \A i, j \in 1 .. Len(s) : s[i] = s[j] => i = j
Before(s, j, k) == \E a, b \in 1 .. Len(s) : a < b /\ s[a] = j /\ s[b] = k

Left(s, k) == IF s # <<>> /\ Head(s) = k THEN Tail(s) ELSE s

LEMMA MembersAre ==
  ASSUME NEW T, NEW s \in Seq(T)
  PROVE  /\ Len(s) \in Nat /\ DOMAIN s = 1 .. Len(s)
         /\ \A e : e \in Elements(s) <=> \E i \in 1 .. Len(s) : e = s[i]
<1>1. Len(s) \in Nat /\ DOMAIN s = 1 .. Len(s)
  BY LenProperties
<1> QED
  BY <1>1 DEF Elements

\* The one who may be at the head leaves.
LEMMA LeavesLine ==
  ASSUME NEW T, NEW s \in Seq(T), Once(s), NEW k \in T, k \in Elements(s) => s # <<>> /\ Head(s) = k
  PROVE  LET r == Left(s, k)
         IN /\ r \in Seq(T) /\ Once(r) /\ Elements(r) = Elements(s) \ {k}
            /\ \A i, j : i # k /\ j # k => (Before(r, i, j) <=> Before(s, i, j))
            /\ \A i : ~Before(s, i, k)
<1>1. Len(s) \in Nat /\ DOMAIN s = 1 .. Len(s) /\ \A e : e \in Elements(s) <=> \E i \in 1 .. Len(s) : e = s[i]
  BY MembersAre
<1>2. CASE s # <<>> /\ Head(s) = k
  <2> PICK r, n : r = Tail(s) /\ n = Len(s)
    OBVIOUS
  <2>1. Left(s, k) = r
    BY <1>2 DEF Left
  <2>2. /\ n \in Nat \ {0} /\ s[1] = k /\ r \in Seq(T) /\ Len(r) = n - 1
        /\ \A i \in 1 .. n - 1 : r[i] = s[i + 1]
    BY <1>1, <1>2, EmptySeq, HeadTailProperties
  <2>3. \A e : e \in Elements(r) <=> \E i \in 1 .. n - 1 : e = r[i]
    <3>0. r \in Seq(T)
      BY <2>2
    <3>1. \A e : e \in Elements(r) <=> \E i \in 1 .. Len(r) : e = r[i]
      BY ONLY <3>0, MembersAre
    <3> QED
      BY <2>2, <3>1
  <2>4. \A i \in 1 .. n - 1 : i + 1 \in 1 .. n /\ i + 1 # 1
    BY <2>2
  <2>5. 1 \in 1 .. n /\ \A i \in 1 .. n : s[i] = k => i = 1
    BY <2>2 DEF Once
  <2>6. \A i \in 1 .. n : i # 1 => i - 1 \in 1 .. n - 1 /\ r[i - 1] = s[i]
    <3> SUFFICES ASSUME NEW i \in 1 .. n, i # 1 PROVE i - 1 \in 1 .. n - 1 /\ r[i - 1] = s[i]
      OBVIOUS
    <3>1. i - 1 \in 1 .. n - 1 /\ (i - 1) + 1 = i
      BY <2>2
    <3> QED
      BY <2>2, <3>1
  <2>7. Once(r)
    <3> SUFFICES ASSUME NEW i \in 1 .. n - 1, NEW j \in 1 .. n - 1, r[i] = r[j] PROVE i = j
      BY <2>2 DEF Once
    <3>1. s[i + 1] = s[j + 1] /\ i + 1 \in 1 .. n /\ j + 1 \in 1 .. n
      BY <2>2, <2>4
    <3>2. i + 1 = j + 1
      BY <3>1 DEF Once
    <3> QED
      BY <2>2, <3>2
  <2>8. Elements(r) = Elements(s) \ {k}
    <3>1. ASSUME NEW e \in Elements(r) PROVE e \in Elements(s) \ {k}
      <4>1. PICK i \in 1 .. n - 1 : e = s[i + 1]
        BY <2>2, <2>3
      <4> QED
        BY <1>1, <2>4, <2>5, <4>1
    <3>2. ASSUME NEW e \in Elements(s), e # k PROVE e \in Elements(r)
      <4>1. PICK i \in 1 .. n : e = s[i]
        BY <1>1
      <4>2. i # 1
        BY <2>2, <3>2, <4>1
      <4> QED
        BY <2>3, <2>6, <4>1, <4>2
    <3> QED
      BY <3>1, <3>2
  <2>9. ASSUME NEW i, NEW j, i # k, j # k PROVE Before(r, i, j) <=> Before(s, i, j)
    <3>1. ASSUME NEW a \in 1 .. n - 1, NEW b \in 1 .. n - 1, a < b, r[a] = i, r[b] = j PROVE Before(s, i, j)
      <4>1. s[a + 1] = i /\ s[b + 1] = j /\ a + 1 \in 1 .. n /\ b + 1 \in 1 .. n /\ a + 1 < b + 1
        BY <2>2, <2>4, <3>1
      <4> QED
        BY <4>1 DEF Before
    <3>2. ASSUME NEW a \in 1 .. n, NEW b \in 1 .. n, a < b, s[a] = i, s[b] = j PROVE Before(r, i, j)
      <4>1. a # 1 /\ b # 1
        BY <2>2, <2>9, <3>2
      <4>2. /\ r[a - 1] = i /\ r[b - 1] = j /\ a - 1 \in 1 .. n - 1 /\ b - 1 \in 1 .. n - 1
            /\ a - 1 < b - 1
        BY <2>6, <3>2, <4>1
      <4> QED
        BY <2>2, <4>2 DEF Before
    <3> QED
      BY <2>2, <3>1, <3>2 DEF Before
  <2>10. \A i : ~Before(s, i, k)
    <3>1. ASSUME NEW i, NEW a \in 1 .. n, NEW b \in 1 .. n, a < b, s[a] = i, s[b] = k PROVE FALSE
      BY <2>2, <2>5, <3>1
    <3> QED
      BY <3>1 DEF Before
  <2> QED
    BY <2>1, <2>2, <2>7, <2>8, <2>9, <2>10
<1>3. CASE ~(s # <<>> /\ Head(s) = k)
  <2>1. Left(s, k) = s /\ k \notin Elements(s)
    BY <1>3 DEF Left
  <2>2. \A i : ~Before(s, i, k)
    BY <1>1, <2>1 DEF Before
  <2> QED
    BY <2>1, <2>2
<1> QED
  BY <1>2, <1>3

\* One who is not in the line joins its end, behind all who are.
LEMMA JoinsLine ==
  ASSUME NEW T, NEW r \in Seq(T), Once(r), NEW k \in T, k \notin Elements(r)
  PROVE  LET q == Append(r, k)
         IN /\ q \in Seq(T) /\ Once(q) /\ Elements(q) = Elements(r) \cup {k}
            /\ \A i, j : i # k /\ j # k => (Before(r, i, j) <=> Before(q, i, j))
            /\ \A i \in Elements(r) : Before(q, i, k)
<1> PICK q, n : q = Append(r, k) /\ n = Len(r)
  OBVIOUS
<1>1. /\ n \in Nat /\ q \in Seq(T) /\ Len(q) = n + 1 /\ q[n + 1] = k
      /\ \A i \in 1 .. n : q[i] = r[i]
  BY AppendProperties, LenProperties
<1>2. /\ \A e : e \in Elements(r) <=> \E i \in 1 .. n : e = r[i]
      /\ \A e : e \in Elements(q) <=> \E i \in 1 .. n + 1 : e = q[i]
  <2>1. \A e : e \in Elements(r) <=> \E i \in 1 .. Len(r) : e = r[i]
    BY MembersAre
  <2>0. q \in Seq(T)
    BY <1>1
  <2>2. \A e : e \in Elements(q) <=> \E i \in 1 .. Len(q) : e = q[i]
    BY ONLY <2>0, MembersAre
  <2> QED
    BY <1>1, <2>1, <2>2
<1>3. /\ \A i \in 1 .. n : i \in 1 .. n + 1 /\ i < n + 1
      /\ \A i \in 1 .. n + 1 : i # n + 1 => i \in 1 .. n
      /\ n + 1 \in 1 .. n + 1
  BY <1>1
<1>4. \A i \in 1 .. n : r[i] # k
  BY <1>2
<1>5. Once(q)
  <2> SUFFICES ASSUME NEW i \in 1 .. n + 1, NEW j \in 1 .. n + 1, q[i] = q[j] PROVE i = j
    BY <1>1 DEF Once
  <2>1. CASE i = n + 1
    BY <1>1, <1>3, <1>4, <2>1
  <2>2. CASE j = n + 1
    BY <1>1, <1>3, <1>4, <2>2
  <2>3. CASE i \in 1 .. n /\ j \in 1 .. n
    BY <1>1, <2>3 DEF Once
  <2> QED
    BY <1>3, <2>1, <2>2, <2>3
<1>6. Elements(q) = Elements(r) \cup {k}
  <2>1. ASSUME NEW e \in Elements(q) PROVE e \in Elements(r) \cup {k}
    BY <1>1, <1>2, <1>3
  <2>2. ASSUME NEW e \in Elements(r) PROVE e \in Elements(q)
    BY <1>1, <1>2, <1>3
  <2>3. k \in Elements(q)
    BY <1>1, <1>2, <1>3
  <2> QED
    BY <2>1, <2>2, <2>3
<1>7. ASSUME NEW i, NEW j, i # k, j # k PROVE Before(r, i, j) <=> Before(q, i, j)
  <2>1. ASSUME NEW a \in 1 .. n, NEW b \in 1 .. n, a < b, r[a] = i, r[b] = j PROVE Before(q, i, j)
    BY <1>1, <1>3, <2>1 DEF Before
  <2>2. ASSUME NEW a \in 1 .. n + 1, NEW b \in 1 .. n + 1, a < b, q[a] = i, q[b] = j PROVE Before(r, i, j)
    <3>1. a \in 1 .. n /\ b \in 1 .. n
      BY <1>1, <1>3, <1>7, <2>2
    <3> QED
      BY <1>1, <2>2, <3>1 DEF Before
  <2> QED
    BY <1>1, <2>1, <2>2 DEF Before
<1>8. ASSUME NEW i \in Elements(r) PROVE Before(q, i, k)
  <2>1. PICK a \in 1 .. n : r[a] = i
    BY <1>2
  <2> QED
    BY <1>1, <1>3, <2>1 DEF Before
<1> QED
  BY <1>1, <1>5, <1>6, <1>7, <1>8

-----------------------------------------------------------------------------
(* Who stands in the line, and what the popup's tasks do.                  *)

RemoteSteps == {"read", "putPlayback", "dropPlayback", "ask"}

\* The task has a transient call out that is served in the page's order.
Calls(t) == t.todo # <<>> /\ Head(t.todo) \in StoreCalls /\ ~t.remote

\* A task of another surface stores a record that belongs to no page.
OfRemote(t) ==
  t.remote => /\ Elements(t.todo) \subseteq RemoteSteps
              /\ Has(t, "putPlayback") => t.write.owner = Remote

Counts == [events : Nat, faults : Nat]

ServedInv ==
  /\ used \in Counts
  /\ line \in Seq(Tasks) /\ Once(line) /\ \A k \in Tasks : k \in Elements(line) <=> Calls(tasks[k])
  /\ \A k \in Tasks : OfRemote(tasks[k])

\* If the task stands in the line at all, it is its turn.
Ready(k) == k \in Elements(line) => line # <<>> /\ Head(line) = k

LEMMA LineMoves ==
  ASSUME LockInv, ServedInv, NEW k \in Tasks, Ready(k), NEW t, Becomes(k, t), OfRemote(t), used' \in Counts
  PROVE  /\ ServedInv'
         /\ \A i, j : i # k /\ j # k => (Before(line, i, j) <=> Before(line', i, j))
         /\ \A i \in Tasks \ {k} : Calls(tasks[i]) /\ Calls(t) => Before(line', i, k)
         /\ \A i : ~Before(line, i, k)
<1> PICK r : r = Left(line, k)
  OBVIOUS
<1>1. /\ r \in Seq(Tasks) /\ Once(r) /\ Elements(r) = Elements(line) \ {k}
      /\ \A i, j : i # k /\ j # k => (Before(r, i, j) <=> Before(line, i, j))
      /\ \A i : ~Before(line, i, k)
  BY LeavesLine DEF ServedInv, Ready
<1>2. /\ tasks' = [tasks EXCEPT ![k] = IF t.todo = <<>> THEN NoTask ELSE t]
      /\ line' = IF Calls(t) THEN Append(r, k) ELSE r
  BY DEF Becomes, Left, Calls
<1>3. /\ line' \in Seq(Tasks) /\ Once(line')
      /\ Elements(line') = (Elements(line) \ {k}) \cup (IF Calls(t) THEN {k} ELSE {})
      /\ \A i, j : i # k /\ j # k => (Before(line, i, j) <=> Before(line', i, j))
      /\ Calls(t) => \A i \in Elements(line) \ {k} : Before(line', i, k)
  <2>1. CASE Calls(t)
    <3>1. line' = Append(r, k) /\ k \notin Elements(r)
      BY <1>1, <1>2, <2>1
    <3>2. /\ Append(r, k) \in Seq(Tasks) /\ Once(Append(r, k)) /\ Elements(Append(r, k)) = Elements(r) \cup {k}
          /\ \A i, j : i # k /\ j # k => (Before(r, i, j) <=> Before(Append(r, k), i, j))
          /\ \A i \in Elements(r) : Before(Append(r, k), i, k)
      BY <1>1, <3>1, JoinsLine
    <3> QED
      BY <1>1, <2>1, <3>1, <3>2
  <2>2. CASE ~Calls(t)
    BY <1>1, <1>2, <2>2
  <2> QED
    BY <2>1, <2>2
<1>4. /\ \A i \in Tasks : i # k => tasks'[i] = tasks[i]
      /\ tasks'[k] = IF t.todo = <<>> THEN NoTask ELSE t
  BY <1>2 DEF LockInv
<1>5. Calls(tasks'[k]) <=> Calls(t)
  BY <1>4 DEF Calls, NoTask
<1>6. OfRemote(NoTask)
  BY DEF OfRemote, NoTask
<1>7. \A i \in Tasks : OfRemote(tasks'[i])
  BY <1>4, <1>6 DEF ServedInv
<1>8. \A i \in Tasks : i \in Elements(line') <=> Calls(tasks'[i])
  BY <1>3, <1>4, <1>5 DEF ServedInv
<1>9. \A i \in Tasks \ {k} : Calls(tasks[i]) => i \in Elements(line) \ {k}
  BY DEF ServedInv
<1>10. ServedInv'
  BY <1>3, <1>7, <1>8 DEF ServedInv
<1> QED
  BY <1>1, <1>3, <1>9, <1>10

LEMMA AtReady ==
  ASSUME LockInv, ServedInv, NEW k \in Tasks, NEW step, At(k, step)
  PROVE  Ready(k) /\ (step \notin RemoteSteps => ~tasks[k].remote)
<1>1. tasks[k].todo \in Seq(Steps) /\ tasks[k].todo # <<>> /\ Head(tasks[k].todo) = step
  BY TaskIs DEF At
<1>2. step \in Elements(tasks[k].todo)
  BY <1>1, HeadHas
<1>3. Ready(k)
  BY DEF ServedInv, Ready, Calls, At
<1>4. step \notin RemoteSteps => ~tasks[k].remote
  BY <1>2 DEF ServedInv, OfRemote
<1> QED
  BY <1>3, <1>4

LEMMA TailHas ==
  ASSUME NEW s \in Seq(Steps), s # <<>>
  PROVE  Elements(Tail(s)) \subseteq Elements(s) /\ Elements(s) \subseteq Elements(Tail(s)) \cup {Head(s)}
<1> PICK r, n : r = Tail(s) /\ n = Len(s)
  OBVIOUS
<1>1. /\ n \in Nat \ {0} /\ Head(s) = s[1] /\ r \in Seq(Steps) /\ Len(r) = n - 1
      /\ \A i \in 1 .. n - 1 : r[i] = s[i + 1]
  BY EmptySeq, HeadTailProperties, LenProperties
<1>2. \A e : e \in Elements(s) <=> \E i \in 1 .. n : e = s[i]
  BY MembersAre
<1>3. \A e : e \in Elements(r) <=> \E i \in 1 .. n - 1 : e = r[i]
  <2>0. r \in Seq(Steps)
    BY <1>1
  <2>1. \A e : e \in Elements(r) <=> \E i \in 1 .. Len(r) : e = r[i]
    BY ONLY <2>0, MembersAre
  <2> QED
    BY <1>1, <2>1
<1>4. ASSUME NEW i \in 1 .. n - 1 PROVE i + 1 \in 1 .. n
  BY <1>1
<1>5. ASSUME NEW i \in 1 .. n, i # 1 PROVE i - 1 \in 1 .. n - 1 /\ r[i - 1] = s[i]
  <2>1. i - 1 \in 1 .. n - 1 /\ (i - 1) + 1 = i
    BY <1>1, <1>5
  <2> QED
    BY <1>1, <2>1
<1>6. ASSUME NEW e \in Elements(r) PROVE e \in Elements(s)
  <2>1. PICK i \in 1 .. n - 1 : e = s[i + 1]
    BY <1>1, <1>3
  <2> QED
    BY <1>2, <1>4, <2>1
<1>7. ASSUME NEW e \in Elements(s) PROVE e \in Elements(r) \cup {Head(s)}
  <2>1. PICK i \in 1 .. n : e = s[i]
    BY <1>2
  <2>2. CASE i = 1
    BY <1>1, <2>1, <2>2
  <2>3. CASE i # 1
    BY <1>3, <1>5, <2>1, <2>3
  <2> QED
    BY <2>2, <2>3
<1> QED
  BY <1>6, <1>7

LEMMA RemoteGoesOn ==
  ASSUME LockInv, ServedInv, NEW k \in Tasks, NEW u, u.remote = tasks[k].remote, u.write = tasks[k].write,
         Elements(u.todo) \subseteq Elements(tasks[k].todo)
  PROVE  OfRemote(u)
BY DEF ServedInv, OfRemote, Has

\* A step of task k that leaves it the page's.
Owns(k) == \E t : Becomes(k, t) /\ (t.remote = tasks[k].remote \/ t = NoTask)

LEMMA OwnForms ==
  ASSUME LockInv, NEW k \in Tasks
  PROVE  /\ Ends(k) \/ Proceeds(k) => Owns(k)
         /\ \A s : Becomes(k, Todo(k, s)) => Owns(k)
         /\ \A s, r : Becomes(k, [Todo(k, s) EXCEPT !.read = r]) => Owns(k)
         /\ \A s, r : Becomes(k, [Todo(k, s) EXCEPT !.write = r]) => Owns(k)
         /\ \A s, r : Becomes(k, [Todo(k, s) EXCEPT !.list = r]) => Owns(k)
         /\ \A s, r : Becomes(k, [tasks[k] EXCEPT !.todo = s, !.list = r]) => Owns(k)
         /\ \A items, playback, seeking, then : Plays(k, items, playback, seeking, then) => Owns(k)
<1>1. DOMAIN tasks[k] = TaskFields /\ \A s : DOMAIN Todo(k, s) = TaskFields /\ Todo(k, s).remote = tasks[k].remote
  BY TodoIs DEF LockInv, TaskInv
<1>2. \A s : Becomes(k, Todo(k, s)) => Owns(k)
  BY <1>1 DEF Owns
<1>3. Ends(k) \/ Proceeds(k) => Owns(k)
  BY <1>2 DEF Ends, Proceeds, Owns
<1>4. ASSUME NEW s, NEW r, Becomes(k, [Todo(k, s) EXCEPT !.read = r]) PROVE Owns(k)
  <2>1. [Todo(k, s) EXCEPT !.read = r].remote = tasks[k].remote
    BY <1>1 DEF TaskFields, NoTask
  <2> QED
    BY <1>4, <2>1 DEF Owns
<1>5. ASSUME NEW s, NEW r, Becomes(k, [Todo(k, s) EXCEPT !.write = r]) PROVE Owns(k)
  <2>1. [Todo(k, s) EXCEPT !.write = r].remote = tasks[k].remote
    BY <1>1 DEF TaskFields, NoTask
  <2> QED
    BY <1>5, <2>1 DEF Owns
<1>6. ASSUME NEW s, NEW r, Becomes(k, [Todo(k, s) EXCEPT !.list = r]) PROVE Owns(k)
  <2>1. [Todo(k, s) EXCEPT !.list = r].remote = tasks[k].remote
    BY <1>1 DEF TaskFields, NoTask
  <2> QED
    BY <1>6, <2>1 DEF Owns
<1>7. ASSUME NEW s, NEW r, Becomes(k, [tasks[k] EXCEPT !.todo = s, !.list = r]) PROVE Owns(k)
  <2>1. [tasks[k] EXCEPT !.todo = s, !.list = r].remote = tasks[k].remote
    BY <1>1 DEF TaskFields, NoTask
  <2> QED
    BY <1>7, <2>1 DEF Owns
<1>8. ASSUME NEW items, NEW playback, NEW seeking, NEW then, Plays(k, items, playback, seeking, then)
      PROVE  Owns(k)
  <2> PICK s, record, generation :
        Becomes(k, [tasks[k] EXCEPT !.todo = s, !.write = record, !.list = items, !.next = playback,
                                    !.generation = generation])
    BY <1>8 DEF Plays
  <2>1. [tasks[k] EXCEPT !.todo = s, !.write = record, !.list = items, !.next = playback,
                         !.generation = generation].remote = tasks[k].remote
    BY <1>1 DEF TaskFields, NoTask
  <2> QED
    BY <2>1 DEF Owns
<1> QED
  BY <1>2, <1>3, <1>4, <1>5, <1>6, <1>7, <1>8

LEMMA OwnServed ==
  ASSUME LockInv, ServedInv, NEW k \in Tasks, NEW step, At(k, step), step \notin RemoteSteps, Owns(k),
         used' \in Counts
  PROVE  ServedInv'
<1>1. PICK t : Becomes(k, t) /\ (t.remote = tasks[k].remote \/ t = NoTask)
  BY DEF Owns
<1>2. Ready(k) /\ ~tasks[k].remote
  BY AtReady
<1>3. NoTask.remote = FALSE
  BY DEF NoTask
<1>4. ~t.remote
  BY <1>1, <1>2, <1>3
<1>5. OfRemote(t)
  BY <1>4 DEF OfRemote
<1> QED
  BY <1>1, <1>2, <1>5, LineMoves

\* What the steps of the flows of the page come to.
LEMMA RunsOwn ==
  ASSUME LockInv, NEW k \in Tasks,
         \/ Settle(k) \/ StopEnds(k) \/ Asked(k) \/ ReleaseAdvance(k) \/ EnterOpEd(k) \/ PreviewBegins(k)
         \/ Unflag(k) \/ AdvanceFound(k) \/ Restart(k) \/ JumpFound(k) \/ JumpStored(k) \/ JumpList(k)
         \/ Params(k) \/ ParamsOrder(k) \/ Resume(k) \/ ResumeList(k) \/ OpEdCheck(k) \/ SwitchFound(k)
         \/ Answers(k)
  PROVE  Owns(k)
<1>1. CASE \/ Settle(k) \/ StopEnds(k) \/ Asked(k) \/ ReleaseAdvance(k) \/ EnterOpEd(k) \/ PreviewBegins(k)
           \/ Unflag(k)
  BY <1>1, OwnForms DEF Settle, StopEnds, Asked, ReleaseAdvance, EnterOpEd, PreviewBegins, Unflag
<1>2. CASE AdvanceFound(k)
  <2>1. \/ Ends(k)
        \/ \E s, l : Becomes(k, [tasks[k] EXCEPT !.todo = s, !.list = l])
        \/ \E s : Becomes(k, Todo(k, s))
        \/ \E items, playback, seeking, then : Plays(k, items, playback, seeking, then)
    BY <1>2 DEF AdvanceFound, PlayResolvedItem
  <2> QED
    BY <2>1, OwnForms
<1>3. CASE Restart(k) \/ JumpFound(k) \/ JumpList(k) \/ ParamsOrder(k)
  <2>1. Ends(k) \/ \E items, playback, seeking, then : Plays(k, items, playback, seeking, then)
    <3>1. CASE Restart(k)
      BY <3>1 DEF Restart, PlayResolvedItem
    <3>2. CASE JumpFound(k) \/ JumpList(k)
      BY <3>2 DEF JumpFound, JumpList, JumpTo, PlayResolvedItem
    <3>3. CASE ParamsOrder(k)
      BY <3>3 DEF ParamsOrder, StartPlaylistItem
    <3> QED
      BY <1>3, <3>1, <3>2, <3>3
  <2> QED
    BY <2>1, OwnForms
<1>4. CASE JumpStored(k)
  BY <1>4, OwnForms DEF JumpStored
<1>5. CASE Params(k)
  BY <1>5, OwnForms DEF Params, ThenResume
<1>6. CASE Resume(k)
  <2>1. Ends(k) \/ \E s, r : Becomes(k, [Todo(k, s) EXCEPT !.read = r])
    BY <1>6 DEF Resume, Ends
  <2> QED
    BY <2>1, OwnForms
<1>7. CASE ResumeList(k)
  <2>1. \/ Ends(k) \/ \E s : Becomes(k, Todo(k, s))
        \/ \E items, playback, seeking, then : Plays(k, items, playback, seeking, then)
    BY <1>7 DEF ResumeList, StartPlaylistItem, PlayResolvedItem
  <2> QED
    BY <2>1, OwnForms
<1>8. CASE OpEdCheck(k)
  BY <1>8, OwnForms DEF OpEdCheck
<1>9. CASE SwitchFound(k)
  BY <1>9, OwnForms DEF SwitchFound
<1>10. CASE Answers(k)
  BY <1>10, OwnForms DEF Answers, MenuCloses, ConfirmCloses, NoticeCloses, ThenResume
<1> QED
  BY <1>1, <1>2, <1>3, <1>4, <1>5, <1>6, <1>7, <1>8, <1>9, <1>10

\* The step after which the code goes on that is not a call any surface makes.
LEMMA RunsAt ==
  ASSUME LockInv, NEW k \in Tasks,
         \/ Settle(k) \/ StopEnds(k) \/ Asked(k) \/ ReleaseAdvance(k) \/ EnterOpEd(k) \/ PreviewBegins(k)
         \/ Unflag(k) \/ AdvanceFound(k) \/ Restart(k) \/ JumpFound(k) \/ JumpStored(k) \/ JumpList(k)
         \/ Params(k) \/ ParamsOrder(k) \/ Resume(k) \/ ResumeList(k) \/ OpEdCheck(k) \/ SwitchFound(k)
         \/ Answers(k)
  PROVE  /\ \E step : At(k, step) /\ step \notin RemoteSteps
         /\ UNCHANGED <<playlist, stored, urls, used>>
<1>1. CASE \/ Settle(k) \/ StopEnds(k) \/ Asked(k) \/ ReleaseAdvance(k) \/ EnterOpEd(k) \/ PreviewBegins(k)
           \/ Unflag(k) \/ AdvanceFound(k) \/ Restart(k) \/ JumpFound(k)
  BY <1>1 DEF Settle, StopEnds, Asked, ReleaseAdvance, EnterOpEd, PreviewBegins, Unflag, AdvanceFound,
     Restart, JumpFound, RemoteSteps
<1>2. CASE JumpStored(k) \/ JumpList(k) \/ Params(k) \/ ParamsOrder(k)
  BY <1>2 DEF JumpStored, JumpList, Params, ParamsOrder, RemoteSteps
<1>3. CASE Resume(k) \/ ResumeList(k) \/ OpEdCheck(k) \/ SwitchFound(k)
  <2>1. CASE Resume(k) \/ ResumeList(k)
    BY <2>1 DEF Resume, ResumeList, RemoteSteps
  <2>2. CASE OpEdCheck(k)
    BY <2>2 DEF OpEdCheck, RemoteSteps
  <2>3. CASE SwitchFound(k)
    BY <2>3 DEF SwitchFound, RemoteSteps
  <2> QED
    BY <1>3, <2>1, <2>2, <2>3
<1>4. CASE Answers(k)
  BY <1>4 DEF Answers, MenuCloses, ConfirmCloses, NoticeCloses, RemoteSteps
<1> QED
  BY <1>1, <1>2, <1>3, <1>4

LEMMA RunsServed ==
  ASSUME LockInv, ServedInv, NEW k \in Tasks, Runs(k) \/ Answers(k) \/ Fail(k)
  PROVE  ServedInv'
<1>1. tasks[k].todo \in Seq(Steps)
  BY TaskIs
<1>2. ASSUME NEW step, At(k, step)
      PROVE  Ready(k) /\ Elements(Tail(tasks[k].todo)) \subseteq Elements(tasks[k].todo)
  BY <1>1, <1>2, AtReady, TailHas DEF At
<1>3. \A s : Todo(k, s).todo = s /\ Todo(k, s).write = tasks[k].write /\ Todo(k, s).remote = tasks[k].remote
  BY TaskIs DEF Carries
<1>4. used \in Counts
  BY DEF ServedInv
<1>5. CASE Read(k)
  <2> DEFINE t == [Todo(k, Tail(tasks[k].todo)) EXCEPT !.read = stored]
  <2>1. Becomes(k, t) /\ used' = used /\ At(k, "read")
    BY <1>5 DEF Read
  <2>2. t.todo = Tail(tasks[k].todo) /\ t.write = tasks[k].write /\ t.remote = tasks[k].remote
    BY <1>3, TodoIs DEF TaskFields, NoTask
  <2> HIDE DEF t
  <2>3. OfRemote(t)
    BY <1>2, <2>1, <2>2, RemoteGoesOn
  <2> QED
    BY <1>2, <1>4, <2>1, <2>3, LineMoves
<1>6. CASE PutPlayback(k) \/ ClearOwned(k) \/ DropPlayback(k) \/ OpedOn(k) \/ OpedOff(k) \/ Ask(k)
  <2>1. Proceeds(k) /\ used' = used /\ \E step : At(k, step)
    BY <1>6 DEF PutPlayback, ClearOwned, DropPlayback, OpedOn, OpedOff, Writes, Ask
  <2> DEFINE t == Todo(k, Tail(tasks[k].todo))
  <2>2. Becomes(k, t) /\ t.todo = Tail(tasks[k].todo) /\ t.write = tasks[k].write /\ t.remote = tasks[k].remote
    BY <1>3, <2>1 DEF Proceeds
  <2> HIDE DEF t
  <2>3. OfRemote(t)
    BY <1>2, <2>1, <2>2, RemoteGoesOn
  <2> QED
    BY <1>2, <1>4, <2>1, <2>2, <2>3, LineMoves
<1>7. CASE Fail(k)
  <2> PICK step : At(k, step)
    BY <1>7 DEF Fail
  <2> DEFINE t == Todo(k, FailedTodo(k))
  <2>1. Becomes(k, t) /\ t.todo = FailedTodo(k) /\ t.remote = tasks[k].remote
    BY <1>3, <1>7 DEF Fail
  <2> HIDE DEF t
  <2>2. Elements(<<>>) = {}
    BY DEF Elements
  <2>3. OfRemote(t)
    BY <2>1, <2>2 DEF OfRemote, FailedTodo, Has
  <2>4. used' \in Counts
    <3>1. used' = [used EXCEPT !.faults = used.faults + 1]
      BY <1>7 DEF Fail
    <3> QED
      BY <1>4, <3>1 DEF Counts
  <2> QED
    BY <1>2, <2>1, <2>3, <2>4, LineMoves
<1>8. CASE \/ Settle(k) \/ StopEnds(k) \/ Asked(k) \/ ReleaseAdvance(k) \/ EnterOpEd(k) \/ PreviewBegins(k)
           \/ Unflag(k) \/ AdvanceFound(k) \/ Restart(k) \/ JumpFound(k) \/ JumpStored(k) \/ JumpList(k)
           \/ Params(k) \/ ParamsOrder(k) \/ Resume(k) \/ ResumeList(k) \/ OpEdCheck(k) \/ SwitchFound(k)
           \/ Answers(k)
  BY <1>4, <1>8, RunsOwn, RunsAt, OwnServed
<1> QED
  BY <1>5, <1>6, <1>7, <1>8 DEF Runs

LEMMA NewReady ==
  ASSUME LockInv, ServedInv, FreeTasks # {}
  PROVE  NewTask \in Tasks /\ tasks[NewTask].todo = <<>> /\ Ready(NewTask)
BY NewTaskIs DEF ServedInv, Ready, Calls

LEMMA NewServed ==
  ASSUME LockInv, ServedInv, FreeTasks # {}, NEW t, Becomes(NewTask, t), OfRemote(t), used' \in Counts
  PROVE  ServedInv'
BY NewReady, LineMoves

LEMMA EventCounts ==
  ASSUME ServedInv, Event
  PROVE  used' \in Counts /\ used'.faults = used.faults
<1>1. used \in Counts /\ used' = [used EXCEPT !.events = used.events + 1]
  BY DEF ServedInv, Event
<1> QED
  BY <1>1 DEF Counts

\* A flow of the page begins.
Begun(s) == FreeTasks # {} /\ \E t : Becomes(NewTask, t) /\ t.todo = s /\ ~t.remote

LEMMA BegunIs ==
  ASSUME NEW s, Starts(s) \/ \E ask : StartsWith(s, ask)
  PROVE  Begun(s)
<1>1. CASE Starts(s)
  <2> DEFINE t == [NoTask EXCEPT !.todo = s, !.generation = page.generation]
  <2>1. FreeTasks # {} /\ Becomes(NewTask, t)
    BY <1>1 DEF Starts
  <2>2. t.todo = s /\ ~t.remote
    BY DEF NoTask
  <2> QED
    BY <2>1, <2>2 DEF Begun
<1>2. ASSUME NEW ask, StartsWith(s, ask) PROVE Begun(s)
  <2> DEFINE t == [NoTask EXCEPT !.todo = s, !.generation = page.generation, !.next = page.playback,
                                 !.ask = ask]
  <2>1. FreeTasks # {} /\ Becomes(NewTask, t)
    BY <1>2 DEF StartsWith
  <2>2. t.todo = s /\ ~t.remote
    BY DEF NoTask
  <2> QED
    BY <2>1, <2>2 DEF Begun
<1> QED
  BY <1>1, <1>2

LEMMA BegunServed ==
  ASSUME LockInv, ServedInv, NEW s, Begun(s), used' \in Counts PROVE ServedInv'
<1> PICK t : Becomes(NewTask, t) /\ t.todo = s /\ ~t.remote
  BY DEF Begun
<1>1. OfRemote(t)
  BY DEF OfRemote
<1> QED
  BY <1>1, NewServed DEF Begun

LEMMA StillServed ==
  ASSUME ServedInv, UNCHANGED <<tasks, line>>, used' \in Counts PROVE ServedInv'
BY DEF ServedInv, OfRemote, Calls, Has

LEMMA ChaptersBegin ==
  ASSUME ChaptersArrive
  PROVE  LET c == [page EXCEPT !.seen = TRUE, !.url = Url(@.part, None, None),
                               !.skip = IF page.seen \/ page.mode # "idle" THEN @ ELSE "native",
                               !.blocked = @ /\ (page.seen \/ page.mode # "idle")]
         IN /\ Event \/ UNCHANGED used
            /\ UNCHANGED <<playlist, stored, urls>>
            /\ \/ /\ page' = c
                  /\ \E s : Begun(s) /\ s \in {<<"params">>, <<"notice">>, <<"resume">>, <<>>}
               \/ /\ page' = Stopped(c)
                  /\ Begun(StopSteps \o <<"read", "opedOn", "enterOpEd">>)
<1> DEFINE c == [page EXCEPT !.seen = TRUE, !.url = Url(@.part, None, None),
                             !.skip = IF page.seen \/ page.mode # "idle" THEN @ ELSE "native",
                             !.blocked = @ /\ (page.seen \/ page.mode # "idle")]
           t(context, steps) ==
             [NoTask EXCEPT !.todo = steps, !.generation = context.generation, !.ask = page.url]
           Opened == StopSteps \o <<"read", "opedOn", "enterOpEd">>
<1>1. \A context, steps : t(context, steps).todo = steps /\ ~t(context, steps).remote
  BY DEF NoTask
<1>2. FreeTasks # {} /\ (Event \/ UNCHANGED used) /\ UNCHANGED <<playlist, stored, urls>>
  BY DEF ChaptersArrive
<1>3. \/ page' = c /\ \E s \in {<<"params">>, <<"notice">>, <<"resume">>, <<>>} : Becomes(NewTask, t(c, s))
      \/ page' = Stopped(c) /\ Becomes(NewTask, t(Stopped(c), Opened))
  <2>1. \/ page' = c /\ Becomes(NewTask, t(c, <<"params">>))
        \/ page' = c /\ Becomes(NewTask, t(c, <<"notice">>))
        \/ page' = Stopped(c) /\ Becomes(NewTask, t(Stopped(c), Opened))
        \/ page' = c /\ Becomes(NewTask, t(c, <<"resume">>))
        \/ page' = c /\ Becomes(NewTask, t(c, <<>>))
    BY DEF ChaptersArrive
  <2> HIDE DEF c, t, Opened
  <2> QED
    BY <2>1
<1> HIDE DEF t
<1>4. \A context, s : Becomes(NewTask, t(context, s)) => Begun(s)
  BY <1>1, <1>2 DEF Begun
<1> HIDE DEF c, Opened
<1>5. \/ page' = c /\ \E s : Begun(s) /\ s \in {<<"params">>, <<"notice">>, <<"resume">>, <<>>}
      \/ page' = Stopped(c) /\ Begun(Opened)
  BY <1>3, <1>4
<1> QED
  BY <1>2, <1>5 DEF c, Opened

LEMMA RemoteServed ==
  ASSUME LockInv, ServedInv, NEW playback, NEW index, StartsRemotely(playback, index)
  PROVE  ServedInv' /\ Event /\ UNCHANGED <<playlist, stored, page, urls>> /\ FreeTasks # {}
         /\ \E t : Becomes(NewTask, t) /\ t.remote /\ OfRemote(t) /\ t.todo = <<"read", "putPlayback", "ask">>
<1> PICK at :
      /\ Event /\ FreeTasks # {} /\ UNCHANGED <<playlist, stored, page, urls>>
      /\ Becomes(NewTask, [NoTask EXCEPT !.todo = <<"read", "putPlayback", "ask">>, !.remote = TRUE,
                    !.write = [at |-> at, owner |-> Remote, generation |-> 1, fresh |-> TRUE],
                    !.list = playlist, !.next = playback])
  BY DEF StartsRemotely
<1> PICK rec : rec = [at |-> at, owner |-> Remote, generation |-> 1, fresh |-> TRUE]
  OBVIOUS
<1> DEFINE t == [NoTask EXCEPT !.todo = <<"read", "putPlayback", "ask">>, !.remote = TRUE,
                               !.write = rec, !.list = playlist, !.next = playback]
<1>1. Becomes(NewTask, t)
  OBVIOUS
<1>2. t.todo = <<"read", "putPlayback", "ask">> /\ t.remote = TRUE /\ t.write.owner = Remote
  BY DEF NoTask
<1> HIDE DEF t
<1>3. OfRemote(t)
  <2>1. "putPlayback" \in Writers /\ "ask" \in Steps /\ "ask" \notin Writers \cup Listings
    BY DEF Steps, Writers, Listings
  <2>2. Elements(t.todo) = {"read", "putPlayback", "ask"}
    BY <1>2, <2>1, TripleInOrder
  <2> QED
    BY <1>2, <2>2 DEF OfRemote, RemoteSteps
<1>4. ServedInv'
  BY <1>1, <1>3, EventCounts, NewServed
<1> QED
  BY <1>1, <1>2, <1>3, <1>4

LEMMA EditServed == ASSUME LockInv, ServedInv, NEW items, EditPlaylist(items) PROVE ServedInv'
<1>1. used' \in Counts
  BY EventCounts DEF EditPlaylist
<1>2. CASE UNCHANGED <<tasks, line>>
  BY <1>1, <1>2, StillServed
<1>3. CASE ~UNCHANGED <<tasks, line>>
  <2> DEFINE t == [NoTask EXCEPT !.todo = <<"read", "dropPlayback">>, !.remote = TRUE]
  <2>1. FreeTasks # {} /\ Becomes(NewTask, t)
    BY <1>3 DEF EditPlaylist
  <2>2. t.todo = <<"read", "dropPlayback">>
    BY DEF NoTask
  <2> HIDE DEF t
  <2>3. Elements(t.todo) = {"read", "dropPlayback"}
    <3>1. "dropPlayback" \in Writers
      BY DEF Writers
    <3> QED
      BY <2>2, <3>1, CoupleInOrder
  <2>4. OfRemote(t)
    BY <2>3 DEF OfRemote, RemoteSteps, Has
  <2> QED
    BY <1>1, <2>1, <2>4, NewServed
<1> QED
  BY <1>2, <1>3

LEMMA OpensServed == ASSUME LockInv, ServedInv, NEW url, Opens(url), used' \in Counts PROVE ServedInv'
<1>1. line' = <<>> /\ tasks' = [k \in Tasks |-> IF tasks[k].remote THEN tasks[k] ELSE NoTask]
  BY DEF Opens
<1>2. \A k \in Tasks : (tasks'[k] = tasks[k] /\ tasks[k].remote) \/ tasks'[k] = NoTask
  BY <1>1
<1>3. OfRemote(NoTask) /\ ~Calls(NoTask)
  BY DEF OfRemote, Calls, NoTask
<1>4. \A k \in Tasks : OfRemote(tasks'[k]) /\ ~Calls(tasks'[k])
  BY <1>2, <1>3 DEF ServedInv, Calls
<1>5. line' \in Seq(Tasks) /\ Once(line') /\ Elements(line') = {}
  <2>1. <<>> \in Seq(Tasks) /\ Once(<<>>) /\ Elements(<<>>) = {}
    BY DEF Once, Elements
  <2> QED
    BY <1>1, <2>1
<1> QED
  BY <1>4, <1>5 DEF ServedInv

LEMMA ServedStep == ASSUME LockInv, ServedInv, [Next]_vars PROVE ServedInv'
<1>0. used \in Counts
  BY DEF ServedInv
<1>1. CASE \E k \in Tasks : Runs(k) \/ Answers(k) \/ Fail(k)
  BY <1>1, RunsServed
<1>2. CASE ChaptersArrive
  <2>1. (Event \/ UNCHANGED used) /\ \E s : Begun(s)
    BY <1>2, ChaptersBegin
  <2> QED
    BY <1>0, <2>1, EventCounts, BegunServed
<1>3. CASE ClickNext \/ ClickPrevious \/ RunsOut
  <2>1. Event /\ \E s, ask : StartsWith(s, ask)
    BY <1>3 DEF ClickNext, ClickPrevious, RunsOut, Advance
  <2> QED
    BY <2>1, EventCounts, BegunIs, BegunServed
<1>4. CASE \/ ClickStop \/ SwitchItem \/ \E i \in Wanted : Jump(i)
  <2>1. Event /\ \E s : Starts(s) \/ \E ask : StartsWith(s, ask)
    BY <1>4 DEF ClickStop, SwitchItem, Jump
  <2> QED
    BY <2>1, EventCounts, BegunIs, BegunServed
<1>5. CASE BeginPreview
  <2>1. Event /\ (UNCHANGED <<tasks, line>> \/ Starts(<<"confirm">>))
    BY <1>5 DEF BeginPreview
  <2> QED
    BY <2>1, EventCounts, BegunIs, BegunServed, StillServed
<1>6. CASE TestPreview \/ CancelPreview \/ InRange \/ Expire \/ UNCHANGED vars
  <2>1. (Event \/ UNCHANGED used) /\ UNCHANGED <<tasks, line>>
    BY <1>6 DEF TestPreview, CancelPreview, InRange, Expire, vars
  <2> QED
    BY <1>0, <2>1, EventCounts, StillServed
<1>7. CASE StartShuffle \/ ShuffleFromHere \/ \E i \in Wanted : StartItem(i)
  BY <1>7, RemoteServed DEF StartShuffle, ShuffleFromHere, StartItem
<1>8. CASE \E items \in Edits : EditPlaylist(items)
  BY <1>8, EditServed
<1>9. CASE OpenUrl \/ Reload
  BY <1>0, <1>9, EventCounts, OpensServed DEF OpenUrl, Reload
<1> QED
  BY <1>1, <1>2, <1>3, <1>4, <1>5, <1>6, <1>7, <1>8, <1>9 DEF Next

LEMMA InitServed == Init => ServedInv
<1> SUFFICES ASSUME Init PROVE ServedInv
  OBVIOUS
<1>1. \A k \in Tasks : OfRemote(tasks[k]) /\ ~Calls(tasks[k])
  BY DEF Init, OfRemote, Calls, NoTask
<1>2. line \in Seq(Tasks) /\ Once(line) /\ Elements(line) = {}
  <2>1. <<>> \in Seq(Tasks) /\ Once(<<>>) /\ Elements(<<>>) = {}
    BY DEF Once, Elements
  <2> QED
    BY <2>1 DEF Init
<1>3. used \in Counts
  BY DEF Init, Counts
<1> QED
  BY <1>1, <1>2, <1>3 DEF ServedInv

\* The tasks in the line are those with a transient call out, each once, and a
\* record that another surface stores belongs to no page.
THEOREM LineIsServed == Spec => []ServedInv
<1>1. LockInv /\ ServedInv /\ [Next]_vars => (LockInv /\ ServedInv)'
  BY StepKeeps, ServedStep
<1> QED
  BY <1>1, InitInv, InitServed, PTL DEF Spec

-----------------------------------------------------------------------------
(* The item as well: while no call fails, and no op-ed write was under way *)
(* when the generation began, the write that is served last leads back to  *)
(* what plays.                                                             *)

OpEd(s) == Elements(s) \cap {"opedOff", "opedOn"} # {}

\* The task has yet to store what plays on p, or played there, in its generation.
Saves(t, p) == ~t.remote /\ Has(t, "putPlayback") /\ Stores(t.write, p)

Storing(k) == Saves(tasks[k], page)
Reading(k) == Head(tasks[k].todo) = "read"

\* j writes before k: its answer has come already, or it is before k in the line.
Sooner(j, k) ==
  \/ ~Reading(j) /\ Reading(k)
  \/ (Reading(j) <=> Reading(k)) /\ Before(line, j, k)

Leads(rec, p) == rec.at = ToTransient(Start, p.playback)

Newest ==
  /\ \A k \in Tasks : ~WritesOpEd(k)
  /\ \A k \in Tasks : Storing(k) =>
       \/ Leads(tasks[k].write, page)
       \/ \E j \in Tasks : Storing(j) /\ Sooner(k, j) /\ Leads(tasks[j].write, page)
  /\ Stores(stored.playback, page) =>
       \/ Leads(stored.playback, page)
       \/ \E j \in Tasks : Storing(j) /\ Leads(tasks[j].write, page)

Undisturbed == page.mode = "playlist" /\ playlist = Start /\ used.faults = 0 /\ ~page.late

NewestInv == Undisturbed => Newest

\* What a page plays is left alone.
Same(p, q) ==
  /\ q.token = p.token /\ q.generation = p.generation /\ q.mode = p.mode
  /\ q.playback = p.playback /\ q.late = p.late

LEMMA NoTaskSaves == ASSUME NEW p PROVE ~Saves(NoTask, p) /\ ~OpEd(NoTask.todo) /\ NoTask.todo = <<>>
BY DEF Saves, OpEd, Has, NoTask, Elements

\* A record of the page as it was is none of the generation that has begun.
LEMMA OldRecords ==
  ASSUME NEW p, NEW q, GoodPage(p), q.token = p.token, q.generation = p.generation + 1, NEW rec, Kept(rec, p)
  PROVE  ~Stores(rec, q)
BY Recorded DEF Kept, Stores, GoodPage

LEMMA SameSaves ==
  ASSUME NEW p, NEW q, q.token = p.token, q.generation = p.generation, q.mode = p.mode, NEW t, NEW rec
  PROVE  (Saves(t, q) <=> Saves(t, p)) /\ (Stores(rec, q) <=> Stores(rec, p))
BY DEF Saves, Stores

\* A step of task k leaves the others where they are.
LEMMA OthersStay ==
  ASSUME LockInv, ServedInv, NEW k \in Tasks, Ready(k), NEW t, Becomes(k, t), OfRemote(t), used' \in Counts
  PROVE  /\ \A j \in Tasks : j # k => tasks'[j] = tasks[j] /\ (Reading(j)' <=> Reading(j))
         /\ \A i, j \in Tasks : i # k /\ j # k => (Sooner(i, j)' <=> Sooner(i, j))
         /\ tasks'[k] = IF t.todo = <<>> THEN NoTask ELSE t
<1>1. /\ \A j \in Tasks : j # k => tasks'[j] = tasks[j]
      /\ tasks'[k] = IF t.todo = <<>> THEN NoTask ELSE t
  BY DEF Becomes, LockInv
<1>2. \A j \in Tasks : j # k => (Reading(j)' <=> Reading(j))
  BY <1>1 DEF Reading
<1>3. \A i, j : i # k /\ j # k => (Before(line, i, j) <=> Before(line', i, j))
  BY LineMoves
<1>4. ASSUME NEW i \in Tasks, NEW j \in Tasks, i # k, j # k PROVE Sooner(i, j)' <=> Sooner(i, j)
  <2>1. (Reading(i)' <=> Reading(i)) /\ (Reading(j)' <=> Reading(j))
    BY <1>2, <1>4
  <2>2. Before(line, i, j)' <=> Before(line, i, j)
    BY <1>3, <1>4 DEF Before
  <2> QED
    BY <2>1, <2>2 DEF Sooner
<1> QED
  BY <1>1, <1>2, <1>4

\* A step of a task that stores nothing of what plays.
LEMMA NewestStays ==
  ASSUME LockInv, ServedInv, NewestInv, NEW k \in Tasks, Ready(k), ~Storing(k), NEW t, Becomes(k, t),
         OfRemote(t), ~Saves(t, page'), used' \in Counts, used'.faults = used.faults,
         page'.mode # "playlist" \/ (Same(page, page') /\ (OpEd(t.todo) => WritesOpEd(k))),
         UNCHANGED playlist, UNCHANGED stored \/ ~Stores(stored'.playback, page')
  PROVE  NewestInv'
<1> SUFFICES ASSUME Undisturbed' PROVE Newest'
  BY DEF NewestInv
<1>1. Same(page, page') /\ (OpEd(t.todo) => WritesOpEd(k))
  BY DEF Undisturbed
<1>2. Undisturbed
  BY <1>1 DEF Undisturbed, Same
<1>3. Newest
  BY <1>2 DEF NewestInv
<1>4. /\ \A j \in Tasks : j # k => tasks'[j] = tasks[j]
      /\ \A i, j \in Tasks : i # k /\ j # k => (Sooner(i, j)' <=> Sooner(i, j))
      /\ tasks'[k] = IF t.todo = <<>> THEN NoTask ELSE t
  BY OthersStay
<1>5. \A rec : Leads(rec, page') <=> Leads(rec, page)
  BY <1>1 DEF Leads, Same
<1>6. \A u, rec : (Saves(u, page') <=> Saves(u, page)) /\ (Stores(rec, page') <=> Stores(rec, page))
  BY <1>1, SameSaves DEF Same
<1>7. ~Saves(tasks'[k], page') /\ ~OpEd(tasks'[k].todo)
  BY <1>1, <1>3, <1>4, NoTaskSaves DEF Newest
<1>8. \A j \in Tasks : /\ j # k => (Storing(j)' <=> Storing(j))
                       /\ Storing(j) => j # k
                       /\ Storing(j)' => j # k
  BY <1>4, <1>6, <1>7 DEF Storing
<1>9. ASSUME NEW j \in Tasks PROVE ~WritesOpEd(j)'
  BY <1>3, <1>4, <1>7 DEF Newest, WritesOpEd, OpEd
<1>10. ASSUME NEW i \in Tasks, Storing(i)'
       PROVE  \/ Leads(tasks[i].write, page)'
              \/ \E j \in Tasks : Storing(j)' /\ Sooner(i, j)' /\ Leads(tasks[j].write, page)'
  <2>1. Storing(i) /\ i # k /\ tasks'[i] = tasks[i]
    BY <1>4, <1>8, <1>10
  <2>2. CASE Leads(tasks[i].write, page)
    BY <1>5, <2>1, <2>2
  <2>3. CASE \E j \in Tasks : Storing(j) /\ Sooner(i, j) /\ Leads(tasks[j].write, page)
    <3>1. PICK j \in Tasks : Storing(j) /\ Sooner(i, j) /\ Leads(tasks[j].write, page)
      BY <2>3
    <3> QED
      BY <1>4, <1>5, <1>8, <2>1, <3>1
  <2> QED
    BY <1>3, <2>1, <2>2, <2>3 DEF Newest
<1>11. ASSUME Stores(stored.playback, page)'
       PROVE  \/ Leads(stored.playback, page)'
              \/ \E j \in Tasks : Storing(j)' /\ Leads(tasks[j].write, page)'
  <2>1. stored' = stored /\ Stores(stored.playback, page)
    BY <1>6, <1>11
  <2>2. CASE Leads(stored.playback, page)
    BY <1>5, <2>1, <2>2
  <2>3. CASE \E j \in Tasks : Storing(j) /\ Leads(tasks[j].write, page)
    <3>1. PICK j \in Tasks : Storing(j) /\ Leads(tasks[j].write, page)
      BY <2>3
    <3> QED
      BY <1>4, <1>5, <1>8, <3>1
  <2> QED
    BY <1>3, <2>1, <2>2, <2>3 DEF Newest
<1> QED
  BY <1>9, <1>10, <1>11 DEF Newest

\* Where the write of a playback stands among the steps of a flow.
LEMMA PutStands ==
  ASSUME NEW s \in Seq(Steps), InOrder(s), "putPlayback" \in Elements(s)
  PROVE  /\ s # <<>> /\ Head(s) \in {"read", "putPlayback"}
         /\ Head(s) = "read" => Tail(s) # <<>> /\ Head(Tail(s)) = "putPlayback"
         /\ Head(s) = "putPlayback" => "putPlayback" \notin Elements(Tail(s))
<1> PICK n, r : n = Len(s) /\ r = Tail(s)
  OBVIOUS
<1>1. n \in Nat /\ \A e : e \in Elements(s) <=> \E i \in 1 .. n : e = s[i]
  BY MembersAre
<1>2. PICK i \in 1 .. n : s[i] = "putPlayback"
  BY <1>1
<1>3. /\ s # <<>> /\ n \in Nat \ {0} /\ Head(s) = s[1] /\ r \in Seq(Steps) /\ Len(r) = n - 1
      /\ \A j \in 1 .. n - 1 : r[j] = s[j + 1]
  BY <1>1, <1>2, EmptySeq, HeadTailProperties
<1>4. \A j \in 1 .. n : s[j] = "putPlayback" => j = 1 \/ (j = 2 /\ s[1] = "read")
  <2> SUFFICES ASSUME NEW j \in 1 .. n, s[j] = "putPlayback", j # 1 PROVE j = 2 /\ s[1] = "read"
    OBVIOUS
  <2>1. j = 2 /\ s[j - 1] = "read"
    BY DEF InOrder, Writers
  <2>2. j - 1 = 1
    BY <2>1
  <2> QED
    BY <2>1, <2>2
<1>5. CASE i = 1
  <2>1. s[1] = "putPlayback" /\ \A j \in 1 .. n : s[j] = "putPlayback" => j = 1
    BY <1>2, <1>4, <1>5
  <2>2. \A e : e \in Elements(r) <=> \E j \in 1 .. Len(r) : e = r[j]
    <3>0. r \in Seq(Steps)
      BY <1>3
    <3> QED
      BY ONLY <3>0, MembersAre
  <2>3. ASSUME "putPlayback" \in Elements(r) PROVE FALSE
    <3>1. PICK j \in 1 .. n - 1 : "putPlayback" = s[j + 1]
      BY <1>3, <2>2, <2>3
    <3>2. j + 1 \in 1 .. n /\ j + 1 # 1
      BY <1>3
    <3> QED
      BY <2>1, <3>1, <3>2
  <2> QED
    BY <1>3, <2>1, <2>3
<1>6. CASE i # 1
  <2>1. i = 2 /\ s[1] = "read"
    BY <1>2, <1>4, <1>6
  <2>2. 1 \in 1 .. n - 1 /\ 1 + 1 = 2 /\ n - 1 # 0
    BY <1>3, <2>1
  <2>3. r[1] = s[2]
    BY <1>3, <2>2
  <2>4. r # <<>> /\ r \in Seq(Steps)
    BY <1>3, <2>2, EmptySeq
  <2>5. Head(r) = r[1]
    BY <2>4, HeadTailProperties
  <2> QED
    BY <1>2, <1>3, <2>1, <2>3, <2>4, <2>5
<1> QED
  BY <1>5, <1>6

LEMMA StoringIs ==
  ASSUME LockInv, InStep, NEW k \in Tasks, Storing(k)
  PROVE  /\ tasks[k].todo \in Seq(Steps) /\ Head(tasks[k].todo) \in {"read", "putPlayback"}
         /\ Calls(tasks[k])
<1>1. tasks[k].todo \in Seq(Steps) /\ InOrder(tasks[k].todo) /\ "putPlayback" \in Elements(tasks[k].todo)
  BY TaskIs DEF InStep, GoodTask, Storing, Saves, Has
<1>2. tasks[k].todo # <<>> /\ Head(tasks[k].todo) \in {"read", "putPlayback"}
  BY <1>1, PutStands
<1> QED
  BY <1>1, <1>2 DEF Calls, StoreCalls, Storing, Saves

\* A task at another step stores no playback.
LEMMA NotStoring ==
  ASSUME LockInv, InStep, NEW k \in Tasks, NEW step, At(k, step), step \notin {"read", "putPlayback"}
  PROVE  "putPlayback" \notin Elements(tasks[k].todo) /\ ~Storing(k)
BY TaskIs, PutStands DEF InStep, GoodTask, At, Storing, Saves, Has

\* Who is served first joins the end of the line, and stays before all who read.
LEMMA ReadNewest ==
  ASSUME LockInv, ServedInv, InStep, NewestInv, NEW k \in Tasks, Read(k) PROVE NewestInv'
<1> DEFINE t == [Todo(k, Tail(tasks[k].todo)) EXCEPT !.read = stored]
<1>1. /\ Becomes(k, t) /\ At(k, "read") /\ UNCHANGED <<playlist, stored, page, used>>
      /\ used' \in Counts
  BY DEF Read, ServedInv
<1>2. t.todo = Tail(tasks[k].todo) /\ t.write = tasks[k].write /\ t.remote = tasks[k].remote
  BY TaskIs, TodoIs DEF TaskFields, NoTask, Carries
<1> HIDE DEF t
<1> PICK s : s = tasks[k].todo
  OBVIOUS
<1>3. /\ s \in Seq(Steps) /\ s # <<>> /\ Head(s) = "read"
      /\ Elements(Tail(s)) \subseteq Elements(s) /\ Elements(s) \subseteq Elements(Tail(s)) \cup {"read"}
      /\ InOrder(s)
  BY <1>1, TaskIs, TailHas DEF At, InStep, GoodTask
<1>4. Ready(k) /\ OfRemote(t)
  BY <1>1, <1>2, <1>3, AtReady, RemoteGoesOn
<1>5. OpEd(t.todo) => WritesOpEd(k)
  BY <1>2, <1>3 DEF OpEd, WritesOpEd
<1>6. Saves(t, page) <=> Storing(k)
  BY <1>2, <1>3 DEF Saves, Storing, Has
<1>7. CASE ~Storing(k)
  BY <1>1, <1>4, <1>5, <1>6, <1>7, NewestStays DEF Same
<1>8. CASE Storing(k)
  <2> SUFFICES ASSUME Undisturbed' PROVE Newest'
    BY DEF NewestInv
  <2>1. Newest
    BY <1>1 DEF NewestInv, Undisturbed
  <2>2. /\ \A j \in Tasks : j # k => tasks'[j] = tasks[j] /\ (Reading(j)' <=> Reading(j))
        /\ \A i, j \in Tasks : i # k /\ j # k => (Sooner(i, j)' <=> Sooner(i, j))
        /\ tasks'[k] = IF t.todo = <<>> THEN NoTask ELSE t
    BY <1>1, <1>4, OthersStay
  <2>3. Tail(s) # <<>> /\ Head(Tail(s)) = "putPlayback"
    BY <1>3, <1>8, PutStands DEF Storing, Saves, Has
  <2>4. tasks'[k] = t /\ ~Reading(k)' /\ Reading(k) /\ Calls(t)
    BY <1>2, <1>3, <1>8, <2>2, <2>3 DEF Reading, Calls, StoreCalls, Storing, Saves
  <2>5. \A j \in Tasks : (Storing(j)' <=> Storing(j)) /\ tasks'[j].write = tasks[j].write
    BY <1>1, <1>2, <1>6, <2>2, <2>4 DEF Storing
  <2>6. ASSUME NEW i \in Tasks, Storing(i), NEW j \in Tasks, Sooner(i, j)
        PROVE  Sooner(i, j)'
    <3>1. CASE i # k /\ j # k
      BY <2>2, <2>6, <3>1
    <3>2. \A x : ~Before(line, x, k)
      BY <1>1, <1>4, LineMoves
    <3>3. CASE i = k /\ j # k
      BY <2>2, <2>4, <2>6, <3>3 DEF Sooner
    <3>4. CASE i # k /\ j = k
      <4>1. ~Reading(i)
        BY <2>4, <2>6, <3>2, <3>4 DEF Sooner
      <4>2. Before(line', i, k)
        BY <1>1, <1>4, <2>4, <2>6, <3>4, StoringIs, LineMoves
      <4>3. Before(line, i, j)'
        BY <3>4, <4>2 DEF Before
      <4> QED
        BY <2>2, <2>4, <3>4, <4>1, <4>3 DEF Sooner
    <3>5. CASE i = k /\ j = k
      BY <2>6, <3>2, <3>5 DEF Sooner
    <3> QED
      BY <3>1, <3>3, <3>4, <3>5
  <2>7. \A rec : Leads(rec, page') <=> Leads(rec, page)
    BY <1>1
  <2>8. ASSUME NEW j \in Tasks PROVE ~WritesOpEd(j)'
    <3>1. Elements(tasks'[j].todo) \subseteq Elements(tasks[j].todo)
      BY <1>2, <1>3, <2>2, <2>4
    <3> QED
      BY <2>1, <3>1 DEF Newest, WritesOpEd
  <2>9. ASSUME NEW i \in Tasks, Storing(i)'
        PROVE  \/ Leads(tasks[i].write, page)'
               \/ \E j \in Tasks : Storing(j)' /\ Sooner(i, j)' /\ Leads(tasks[j].write, page)'
    <3>1. Storing(i)
      BY <2>5, <2>9
    <3>2. CASE Leads(tasks[i].write, page)
      BY <2>5, <2>7, <3>2
    <3>3. CASE \E j \in Tasks : Storing(j) /\ Sooner(i, j) /\ Leads(tasks[j].write, page)
      <4>1. PICK j \in Tasks : Storing(j) /\ Sooner(i, j) /\ Leads(tasks[j].write, page)
        BY <3>3
      <4>2. Storing(j)' /\ Sooner(i, j)' /\ Leads(tasks'[j].write, page')
        BY <2>5, <2>6, <2>7, <3>1, <4>1
      <4> QED
        BY <4>2
    <3> QED
      BY <2>1, <3>1, <3>2, <3>3 DEF Newest
  <2>10. ASSUME Stores(stored.playback, page)'
         PROVE  \/ Leads(stored.playback, page)'
                \/ \E j \in Tasks : Storing(j)' /\ Leads(tasks[j].write, page)'
    <3>1. Stores(stored.playback, page)
      BY <1>1, <2>10
    <3>2. CASE Leads(stored.playback, page)
      BY <1>1, <2>7, <3>2
    <3>3. CASE \E j \in Tasks : Storing(j) /\ Leads(tasks[j].write, page)
      <4>1. PICK j \in Tasks : Storing(j) /\ Leads(tasks[j].write, page)
        BY <3>3
      <4>2. Storing(j)' /\ Leads(tasks'[j].write, page')
        BY <2>5, <2>7, <4>1
      <4> QED
        BY <4>2
    <3> QED
      BY <2>1, <3>1, <3>2, <3>3 DEF Newest
  <2> QED
    BY <2>8, <2>9, <2>10 DEF Newest
<1> QED
  BY <1>7, <1>8

\* The write that is served: of what plays, it is the soonest.
LEMMA PutNewest ==
  ASSUME LockInv, ServedInv, InStep, NewestInv, NEW k \in Tasks, PutPlayback(k) PROVE NewestInv'
<1> PICK t : t = Todo(k, Tail(tasks[k].todo))
  OBVIOUS
<1>1. /\ Becomes(k, t) /\ At(k, "putPlayback") /\ UNCHANGED <<playlist, page, used>>
      /\ used' \in Counts /\ stored' = [tasks[k].read EXCEPT !.playback = tasks[k].write]
  BY DEF PutPlayback, Writes, Proceeds, ServedInv
<1>2. t.todo = Tail(tasks[k].todo) /\ t.write = tasks[k].write /\ t.remote = tasks[k].remote
  BY TaskIs DEF Carries
<1> PICK s : s = tasks[k].todo
  OBVIOUS
<1>3. /\ s \in Seq(Steps) /\ s # <<>> /\ Head(s) = "putPlayback" /\ InOrder(s)
      /\ "putPlayback" \in Elements(s) /\ Elements(Tail(s)) \subseteq Elements(s)
  BY <1>1, TaskIs, TailHas, HeadHas DEF At, InStep, GoodTask
<1>4. Ready(k) /\ OfRemote(t)
  BY <1>1, <1>2, <1>3, AtReady, RemoteGoesOn
<1>5. (OpEd(t.todo) => WritesOpEd(k)) /\ ~Saves(t, page)
  BY <1>2, <1>3, PutStands DEF OpEd, WritesOpEd, Saves, Has
<1>6. stored'.playback = tasks[k].write
  <2>1. KeptState(tasks[k].read, page)
    BY <1>3 DEF InStep, GoodTask, Writers
  <2>2. tasks[k].read \in [playback : Records \cup {NoPlayback}, oped : BOOLEAN]
    BY <2>1 DEF KeptState
  <2> QED
    BY <1>1, <2>2
<1>7. CASE tasks[k].remote
  <2>1. tasks[k].write.owner = 0
    BY <1>3, <1>7 DEF ServedInv, OfRemote, Has, Remote
  <2>2. page.token # 0
    BY DEF InStep, GoodPage
  <2>3. ~Stores(stored'.playback, page') /\ ~Storing(k)
    BY <1>1, <1>6, <1>7, <2>1, <2>2 DEF Stores, Storing, Saves
  <2> QED
    BY <1>1, <1>4, <1>5, <2>3, NewestStays DEF Same
<1>8. CASE ~tasks[k].remote /\ ~Storing(k)
  <2>1. ~Stores(stored'.playback, page')
    BY <1>1, <1>3, <1>6, <1>8 DEF Storing, Saves, Has
  <2> QED
    BY <1>1, <1>4, <1>5, <1>8, <2>1, NewestStays DEF Same
<1>9. CASE Storing(k)
  <2> SUFFICES ASSUME Undisturbed' PROVE Newest'
    BY DEF NewestInv
  <2>1. Newest
    BY <1>1 DEF NewestInv, Undisturbed
  <2>2. /\ \A j \in Tasks : j # k => tasks'[j] = tasks[j]
        /\ \A i, j \in Tasks : i # k /\ j # k => (Sooner(i, j)' <=> Sooner(i, j))
        /\ tasks'[k] = IF t.todo = <<>> THEN NoTask ELSE t
    BY <1>1, <1>4, OthersStay
  <2>3. ~Saves(tasks'[k], page') /\ Elements(tasks'[k].todo) \subseteq Elements(tasks[k].todo)
    <3>1. tasks'[k].todo = t.todo /\ ~Saves(tasks'[k], page')
      BY <1>1, <1>5, <2>2, NoTaskSaves
    <3> QED
      BY <1>2, <1>3, <3>1
  <2>4. ~Reading(k) /\ \A i : ~Before(line, i, k)
    BY <1>1, <1>3, <1>4, LineMoves DEF Reading
  <2>5. \A i \in Tasks : ~Sooner(i, k)
    BY <2>4 DEF Sooner
  <2>6. \A j \in Tasks : /\ j # k => (Storing(j)' <=> Storing(j))
                         /\ Storing(j)' => j # k
    BY <1>1, <2>2, <2>3 DEF Storing
  <2>7. \A rec : Leads(rec, page') <=> Leads(rec, page)
    BY <1>1
  <2>8. \A j \in Tasks : ~WritesOpEd(j)'
    BY <2>1, <2>2, <2>3 DEF Newest, WritesOpEd
  <2>9. ASSUME NEW i \in Tasks, Storing(i)'
        PROVE  \/ Leads(tasks[i].write, page)'
               \/ \E j \in Tasks : Storing(j)' /\ Sooner(i, j)' /\ Leads(tasks[j].write, page)'
    <3>1. Storing(i) /\ i # k /\ tasks'[i] = tasks[i]
      BY <2>2, <2>6, <2>9
    <3>2. CASE Leads(tasks[i].write, page)
      BY <2>7, <3>1, <3>2
    <3>3. CASE \E j \in Tasks : Storing(j) /\ Sooner(i, j) /\ Leads(tasks[j].write, page)
      <4>1. PICK j \in Tasks : Storing(j) /\ Sooner(i, j) /\ Leads(tasks[j].write, page)
        BY <3>3
      <4>2. j # k
        BY <2>5, <4>1
      <4>3. Storing(j)' /\ Sooner(i, j)' /\ Leads(tasks'[j].write, page')
        BY <2>2, <2>6, <2>7, <3>1, <4>1, <4>2
      <4> QED
        BY <4>3
    <3> QED
      BY <2>1, <3>1, <3>2, <3>3 DEF Newest
  <2>10. \/ Leads(stored.playback, page)'
         \/ \E j \in Tasks : Storing(j)' /\ Leads(tasks[j].write, page)'
    <3>1. CASE Leads(tasks[k].write, page)
      BY <1>6, <2>7, <3>1
    <3>2. CASE \E j \in Tasks : Storing(j) /\ Sooner(k, j) /\ Leads(tasks[j].write, page)
      <4>1. PICK j \in Tasks : Storing(j) /\ Sooner(k, j) /\ Leads(tasks[j].write, page)
        BY <3>2
      <4>2. j # k
        BY <2>5, <4>1
      <4>3. Storing(j)' /\ Leads(tasks'[j].write, page')
        BY <2>2, <2>6, <2>7, <4>1, <4>2
      <4> QED
        BY <4>3
    <3> QED
      BY <1>9, <2>1, <3>1, <3>2 DEF Newest
  <2> QED
    BY <2>8, <2>9, <2>10 DEF Newest
<1> QED
  BY <1>7, <1>8, <1>9

\* The other writes put nothing of what plays into the store.
LEMMA OtherWriteNewest ==
  ASSUME LockInv, ServedInv, InStep, NewestInv, NEW k \in Tasks,
         ClearOwned(k) \/ DropPlayback(k) \/ OpedOn(k) \/ OpedOff(k)
  PROVE  NewestInv'
<1> PICK t : t = Todo(k, Tail(tasks[k].todo))
  OBVIOUS
<1>1. /\ Becomes(k, t) /\ UNCHANGED <<playlist, page, used>> /\ used' \in Counts
      /\ \E step \in {"clearOwned", "dropPlayback", "opedOn", "opedOff"} : At(k, step)
  BY DEF ClearOwned, DropPlayback, OpedOn, OpedOff, Writes, Proceeds, ServedInv
<1>2. t.todo = Tail(tasks[k].todo) /\ t.write = tasks[k].write /\ t.remote = tasks[k].remote
  BY TaskIs DEF Carries
<1>3. PICK step \in {"clearOwned", "dropPlayback", "opedOn", "opedOff"} : At(k, step)
  BY <1>1
<1>4. step \in Writers /\ step \notin {"read", "putPlayback"}
  BY DEF Writers
<1> PICK s : s = tasks[k].todo
  OBVIOUS
<1>5. /\ s \in Seq(Steps) /\ s # <<>> /\ Head(s) = step
      /\ step \in Elements(s) /\ Elements(Tail(s)) \subseteq Elements(s)
  BY <1>3, TaskIs, TailHas, HeadHas DEF At
<1>6. "putPlayback" \notin Elements(s) /\ ~Storing(k)
  BY <1>3, <1>4, NotStoring
<1>7. Ready(k) /\ OfRemote(t)
  BY <1>2, <1>3, <1>5, AtReady, RemoteGoesOn
<1>8. (OpEd(t.todo) => WritesOpEd(k)) /\ ~Saves(t, page)
  BY <1>2, <1>5, <1>6 DEF OpEd, WritesOpEd, Saves, Has
<1>9. CASE step \in {"opedOn", "opedOff"}
  <2>1. WritesOpEd(k)
    BY <1>5, <1>9 DEF WritesOpEd
  <2> QED
    BY <1>1, <2>1 DEF NewestInv, Undisturbed, Newest
<1>10. CASE step \in {"clearOwned", "dropPlayback"}
  <2>1. tasks[k].read \in [playback : Records \cup {NoPlayback}, oped : BOOLEAN]
    BY <1>4, <1>5 DEF InStep, GoodTask, KeptState
  <2>2. \/ stored' = OwnedCleared(tasks[k].read, page.token)
        \/ stored' = [tasks[k].read EXCEPT !.playback = NoPlayback]
    BY <1>3, <1>10 DEF ClearOwned, DropPlayback, OpedOn, OpedOff, Writes, At
  <2>3. stored'.playback = NoPlayback \/ stored'.playback.owner # page.token
    BY <2>1, <2>2 DEF OwnedCleared
  <2>4. ~Stores(stored'.playback, page')
    BY <1>1, <2>3 DEF Stores
  <2> QED
    BY <1>1, <1>6, <1>7, <1>8, <2>4, NewestStays DEF Same
<1> QED
  BY <1>9, <1>10

\* A generation begins: its one record is the one about to be stored.
LEMMA PlaysNewest ==
  ASSUME LockInv, ServedInv, InStep, NEW k \in Tasks, Ready(k), ~tasks[k].remote, NEW playback, NEW seeking,
         NEW then, After(then), Plays(k, Start, playback, seeking, then), UNCHANGED <<stored, used>>
  PROVE  NewestInv'
<1> PICK c : c = Playing(playback, seeking)
  OBVIOUS
<1> PICK rec : rec = RecordOf(c, Start)
  OBVIOUS
<1> DEFINE t == [tasks[k] EXCEPT !.todo = Persist(rec) \o then, !.write = rec, !.list = Start,
                                 !.next = playback, !.generation = c.generation]
<1>1. page' = c /\ Becomes(k, t)
  BY DEF Plays
<1>2. t.todo = Persist(rec) \o then /\ t.write = rec /\ t.remote = tasks[k].remote
  BY TaskIs DEF TaskFields, NoTask
<1> HIDE DEF t
<1>3. /\ c.token = page.token /\ c.generation = page.generation + 1 /\ c.mode = "playlist"
      /\ c.playback = playback /\ c.late = (\E j \in Tasks : WritesOpEd(j))
  BY TaskIs DEF Playing, PageFields, Fresh
<1>4. ~OpEd(t.todo)
  <2>1. then \in Seq(Steps) /\ Elements(then) \subseteq {"settle", "ask", "asked", "release"}
    BY DEF After
  <2>2. CASE rec = NoPlayback
    <3>1. t.todo = then
      BY <1>2, <2>1, <2>2, ConcatEmptySeq DEF Persist
    <3> QED
      BY <2>1, <3>1 DEF OpEd
  <2>3. CASE rec # NoPlayback
    <3>1. Elements(t.todo) \subseteq {"read", "putPlayback", "settle", "ask", "asked", "release"}
      BY <1>2, <2>3, PutFirst DEF Persist
    <3> QED
      BY <3>1 DEF OpEd
  <2> QED
    BY <2>2, <2>3
<1>5. Stores(rec, c) => Leads(rec, c)
  BY DEF RecordOf, Stores, Leads
<1>6. OfRemote(t)
  BY <1>2 DEF OfRemote
<1>7. /\ \A j \in Tasks : j # k => tasks'[j] = tasks[j]
      /\ tasks'[k] = IF t.todo = <<>> THEN NoTask ELSE t
  BY <1>1, <1>6, OthersStay DEF ServedInv
<1>8. ASSUME NEW j \in Tasks, j # k PROVE ~Storing(j)'
  <2>1. GoodTask(tasks[j], page) /\ GoodPage(page)
    BY DEF InStep
  <2>2. Has(tasks[j], "putPlayback") => ~Stores(tasks[j].write, c)
    BY <1>3, <2>1, OldRecords DEF GoodTask
  <2> QED
    BY <1>1, <1>7, <1>8, <2>2 DEF Storing, Saves
<1>9. ~Stores(stored.playback, page)'
  <2>1. stored.playback = NoPlayback \/ Kept(stored.playback, page)
    BY DEF InStep, KeptState
  <2>2. ~Stores(stored.playback, c)
    BY <1>3, <2>1, OldRecords DEF InStep, Stores
  <2> QED
    BY <1>1, <2>2
<1> SUFFICES ASSUME Undisturbed' PROVE Newest'
  BY DEF NewestInv
<1>10. \A j \in Tasks : ~WritesOpEd(j)
  BY <1>1, <1>3 DEF Undisturbed
<1>11. tasks'[k] = NoTask \/ tasks'[k] = t
  BY <1>7
<1>12. \A j \in Tasks : ~WritesOpEd(j)'
  <2>1. ~OpEd(tasks'[k].todo)
    BY <1>4, <1>11, NoTaskSaves
  <2> QED
    BY <1>7, <1>10, <2>1 DEF WritesOpEd, OpEd
<1>13. Storing(k)' => Leads(tasks[k].write, page)'
  <2>1. CASE tasks'[k] = NoTask
    BY <1>1, <2>1, NoTaskSaves DEF Storing
  <2>2. CASE tasks'[k] = t
    BY <1>1, <1>2, <1>5, <2>2 DEF Storing, Saves
  <2> QED
    BY <1>11, <2>1, <2>2
<1> QED
  BY <1>8, <1>9, <1>12, <1>13 DEF Newest

\* Another item of the video plays: its record is stored after all that are
\* under way.
LEMMA SwitchNewest ==
  ASSUME LockInv, ServedInv, InStep, NewestInv, playlist = Start, NEW k \in Tasks, SwitchFound(k)
  PROVE  NewestInv'
<1>1. /\ At(k, "switch") /\ UNCHANGED <<playlist, stored, used>> /\ used' \in Counts
      /\ "switch" \notin RemoteSteps /\ "switch" \notin {"read", "putPlayback"}
  BY DEF SwitchFound, ServedInv, RemoteSteps
<1>2. Ready(k) /\ ~tasks[k].remote /\ ~Storing(k)
  BY <1>1, AtReady, NotStoring
<1>3. CASE page' = page /\ Ends(k)
  BY <1>1, <1>2, <1>3, NoTaskSaves, NewestStays DEF Ends, Same, OfRemote, NoTask
<1>4. CASE page' # page \/ ~Ends(k)
  <2> PICK rec : rec = RecordOf(page', Start)
    OBVIOUS
  <2> DEFINE t == [Todo(k, <<"read", "putPlayback">>) EXCEPT !.write = rec]
  <2>1. /\ page' = [page EXCEPT !.playback = [tasks[k].next EXCEPT !.item = tasks[k].ask]]
        /\ page'.token = page.token /\ page'.generation = page.generation /\ page'.mode = "playlist"
        /\ page.mode = "playlist" /\ Becomes(k, t)
    BY <1>4, SwitchedTo
  <2>2. t.todo = <<"read", "putPlayback">> /\ t.write = rec /\ ~t.remote
    BY <1>2, TodoIs DEF TaskFields, NoTask
  <2> HIDE DEF t
  <2>3. page'.late = page.late
    BY <2>1, TaskIs DEF PageFields, Fresh
  <2>4. OfRemote(t)
    BY <2>2 DEF OfRemote
  <2> SUFFICES ASSUME Undisturbed' PROVE Newest'
    BY DEF NewestInv
  <2>5. Newest
    BY <1>1, <2>1, <2>3 DEF NewestInv, Undisturbed
  <2>6. /\ \A j \in Tasks : j # k => tasks'[j] = tasks[j] /\ (Reading(j)' <=> Reading(j))
        /\ tasks'[k] = IF t.todo = <<>> THEN NoTask ELSE t
        /\ \A i \in Tasks \ {k} : Calls(tasks[i]) /\ Calls(t) => Before(line', i, k)
    BY <1>1, <1>2, <2>1, <2>4, OthersStay, LineMoves
  <2>7. t.todo # <<>> /\ Head(t.todo) = "read" /\ Elements(t.todo) = {"read", "putPlayback"}
    <3>1. "putPlayback" \in Writers
      BY DEF Writers
    <3> QED
      BY <2>2, <3>1, CoupleInOrder
  <2>8. tasks'[k] = t /\ Calls(t) /\ Reading(k)'
    BY <2>2, <2>6, <2>7 DEF Calls, StoreCalls, Reading
  <2>9. \A u, r : (Saves(u, page') <=> Saves(u, page)) /\ (Stores(r, page') <=> Stores(r, page))
    BY <2>1, SameSaves
  <2>10. \A j \in Tasks : ~WritesOpEd(j)'
    BY <2>5, <2>6, <2>7, <2>8 DEF Newest, WritesOpEd
  <2>11. Stores(rec, page') => Leads(rec, page')
    BY DEF RecordOf, Stores, Leads
  <2>12. Storing(k)' => Leads(tasks[k].write, page)'
    BY <2>2, <2>8, <2>11 DEF Storing, Saves
  <2>13. Stores(rec, page')
    <3>1. KeptState(stored, page) /\ GoodPage(page') /\ page'.mode = "playlist"
      BY <1>4, <2>1, SwitchedTo DEF InStep, Onward
    <3> QED
      BY <3>1, RecordIs
  <2>14. Storing(k)'
    BY <2>2, <2>7, <2>8, <2>13 DEF Storing, Saves, Has
  <2>15. ASSUME NEW i \in Tasks, i # k, Storing(i)' PROVE Sooner(i, k)'
    <3>1. Storing(i)
      BY <2>6, <2>9, <2>15 DEF Storing
    <3>2. Calls(tasks[i])
      BY <3>1, StoringIs
    <3>3. Before(line', i, k)
      BY <2>6, <2>8, <2>15, <3>2
    <3>4. Before(line, i, k)'
      BY <3>3 DEF Before
    <3> QED
      BY <2>8, <3>4 DEF Sooner
  <2> QED
    BY <2>10, <2>12, <2>14, <2>15 DEF Newest
<1> QED
  BY <1>3, <1>4

\* Steps that store no playback, and steps that write nothing of the op-ed mode.
NoPut(s)  == "putPlayback" \notin Elements(s)
Silent(s) == NoPut(s) /\ ~OpEd(s)

\* What the page plays is left alone, or it plays nothing; the task goes on with s.
Quietly(s) == page'.mode # "playlist" \/ (Same(page, page') /\ ~OpEd(s))

Steady(k) ==
  \E t : /\ Becomes(k, t) /\ (t.remote = tasks[k].remote \/ t = NoTask) /\ NoPut(t.todo)
         /\ page'.mode # "playlist" \/ (Same(page, page') /\ (OpEd(t.todo) => WritesOpEd(k)))

LEMMA SteadyNewest ==
  ASSUME LockInv, ServedInv, InStep, NewestInv, NEW k \in Tasks, NEW step, At(k, step),
         step \notin RemoteSteps, Steady(k), UNCHANGED <<playlist, stored, used>>
  PROVE  NewestInv'
<1>1. PICK t : /\ Becomes(k, t) /\ (t.remote = tasks[k].remote \/ t = NoTask) /\ NoPut(t.todo)
               /\ page'.mode # "playlist" \/ (Same(page, page') /\ (OpEd(t.todo) => WritesOpEd(k)))
  BY DEF Steady
<1>2. Ready(k) /\ ~tasks[k].remote /\ ~Storing(k)
  BY AtReady, NotStoring DEF RemoteSteps
<1>3. NoTask.remote = FALSE
  BY DEF NoTask
<1>4. ~t.remote
  BY <1>1, <1>2, <1>3
<1>5. OfRemote(t) /\ ~Saves(t, page')
  BY <1>1, <1>4 DEF OfRemote, Saves, NoPut, Has
<1>6. used' \in Counts /\ used'.faults = used.faults
  BY DEF ServedInv
<1> QED
  BY <1>1, <1>2, <1>5, <1>6, NewestStays

LEMMA SilentLists ==
  /\ Silent(<<>>) /\ Silent(DropSteps) /\ Silent(<<"advance", "release">>)
  /\ \A step \in Steps \ {"putPlayback", "opedOn", "opedOff"} : Silent(<<step>>)
  /\ \A s : Easy(s) => NoPut(s)
<1>1. Silent(<<>>)
  BY NothingInOrder DEF Silent, NoPut, OpEd
<1>2. ASSUME NEW step \in Steps \ {"putPlayback", "opedOn", "opedOff"} PROVE Silent(<<step>>)
  BY SingleInOrder DEF Silent, NoPut, OpEd
<1>3. Silent(DropSteps)
  <2> PICK s : s = DropSteps
    OBVIOUS
  <2>1. "opedCheck" \in Steps /\ "dropPlayback" \in Writers /\ "opedCheck" \notin Writers \cup Listings
    BY DEF Steps, StoreCalls, Writers, Listings
  <2>2. Elements(s) = {"read", "dropPlayback", "opedCheck"}
    BY <2>1, TripleInOrder DEF DropSteps
  <2> QED
    BY <2>2 DEF Silent, NoPut, OpEd
<1>4. Silent(<<"advance", "release">>)
  <2> PICK s : s = <<"advance", "release">>
    OBVIOUS
  <2>1. s \in Seq(Steps) /\ Len(s) = 2 /\ s[1] = "advance" /\ s[2] = "release"
    BY Opening
  <2>2. \A e : e \in Elements(s) <=> \E i \in 1 .. Len(s) : e = s[i]
    <3>0. s \in Seq(Steps)
      BY <2>1
    <3> QED
      BY ONLY <3>0, MembersAre
  <2>3. Elements(s) \subseteq {"advance", "release"}
    BY <2>1, <2>2
  <2> QED
    BY <2>3 DEF Silent, NoPut, OpEd
<1>5. ASSUME NEW s, Easy(s) PROVE NoPut(s)
  BY <1>5 DEF Easy, Plain, NoPut
<1> QED
  BY <1>1, <1>2, <1>3, <1>4, <1>5

\* The ways a task goes on quietly.
LEMMA SteadyForms ==
  ASSUME LockInv, InStep, NEW k \in Tasks, NEW step, At(k, step), step \notin {"read", "putPlayback"}
  PROVE  /\ Proceeds(k) /\ (page'.mode # "playlist" \/ Same(page, page')) => Steady(k)
         /\ Ends(k) /\ (page'.mode # "playlist" \/ Same(page, page')) => Steady(k)
         /\ \A s : NoPut(s) /\ Quietly(s) /\ Becomes(k, Todo(k, s)) => Steady(k)
         /\ \A s, r : NoPut(s) /\ Quietly(s) /\ Becomes(k, [Todo(k, s) EXCEPT !.read = r]) => Steady(k)
         /\ \A s, r : NoPut(s) /\ Quietly(s) /\ Becomes(k, [Todo(k, s) EXCEPT !.list = r]) => Steady(k)
         /\ \A s, r : NoPut(s) /\ Quietly(s) /\ Becomes(k, [tasks[k] EXCEPT !.todo = s, !.list = r])
              => Steady(k)
<1>1. /\ DOMAIN tasks[k] = TaskFields
      /\ \A s : DOMAIN Todo(k, s) = TaskFields /\ Todo(k, s).todo = s /\ Todo(k, s).remote = tasks[k].remote
  BY TodoIs DEF LockInv, TaskInv
<1>2. ASSUME NEW s, NoPut(s), Quietly(s), Becomes(k, Todo(k, s)) PROVE Steady(k)
  BY <1>1, <1>2 DEF Steady, Quietly
<1>3. ASSUME NEW s, NEW r, NoPut(s), Quietly(s), Becomes(k, [Todo(k, s) EXCEPT !.read = r]) PROVE Steady(k)
  <2>1. /\ [Todo(k, s) EXCEPT !.read = r].remote = tasks[k].remote
        /\ [Todo(k, s) EXCEPT !.read = r].todo = s
    BY <1>1 DEF TaskFields, NoTask
  <2> QED
    BY <1>3, <2>1 DEF Steady, Quietly
<1>4. ASSUME NEW s, NEW r, NoPut(s), Quietly(s), Becomes(k, [Todo(k, s) EXCEPT !.list = r]) PROVE Steady(k)
  <2>1. /\ [Todo(k, s) EXCEPT !.list = r].remote = tasks[k].remote
        /\ [Todo(k, s) EXCEPT !.list = r].todo = s
    BY <1>1 DEF TaskFields, NoTask
  <2> QED
    BY <1>4, <2>1 DEF Steady, Quietly
<1>5. ASSUME NEW s, NEW r, NoPut(s), Quietly(s), Becomes(k, [tasks[k] EXCEPT !.todo = s, !.list = r])
      PROVE  Steady(k)
  <2>1. /\ [tasks[k] EXCEPT !.todo = s, !.list = r].remote = tasks[k].remote
        /\ [tasks[k] EXCEPT !.todo = s, !.list = r].todo = s
    BY <1>1 DEF TaskFields, NoTask
  <2> QED
    BY <1>5, <2>1 DEF Steady, Quietly
<1>6. ASSUME Ends(k), page'.mode # "playlist" \/ Same(page, page') PROVE Steady(k)
  <2>1. NoPut(NoTask.todo) /\ ~OpEd(NoTask.todo)
    BY NoTaskSaves, SilentLists DEF Silent
  <2> QED
    BY <1>6, <2>1 DEF Ends, Steady
<1>7. ASSUME Proceeds(k), page'.mode # "playlist" \/ Same(page, page') PROVE Steady(k)
  <2> PICK s : s = tasks[k].todo
    OBVIOUS
  <2>1. s \in Seq(Steps) /\ s # <<>> /\ NoPut(s)
    BY TaskIs, NotStoring DEF At, NoPut
  <2>2. Elements(Tail(s)) \subseteq Elements(s)
    BY <2>1, TailHas
  <2>3. NoPut(Tail(s)) /\ (OpEd(Tail(s)) => WritesOpEd(k))
    BY <2>1, <2>2 DEF NoPut, OpEd, WritesOpEd
  <2> QED
    BY <1>1, <1>7, <2>3 DEF Proceeds, Steady
<1> QED
  BY <1>2, <1>3, <1>4, <1>5, <1>6, <1>7

LEMMA ModesAre ==
  ASSUME NEW p, DOMAIN p = PageFields
  PROVE  /\ Stopped(p).mode # "playlist" /\ Previewing(p).mode # "playlist"
         /\ EnteredOpEd(p).mode # "playlist" \/ EnteredOpEd(p) = p
         /\ Same(p, p) /\ Same(p, Release(p)) /\ Same(p, [Release(p) EXCEPT !.menu = TRUE])
<1>1. Stopped(p).mode # "playlist" /\ Previewing(p).mode # "playlist"
  BY DEF Stopped, Previewing, PageFields, Fresh
<1>2. EnteredOpEd(p).mode # "playlist" \/ EnteredOpEd(p) = p
  BY DEF EnteredOpEd, PageFields, Fresh
<1>3. Same(p, p) /\ Same(p, Release(p)) /\ Same(p, [Release(p) EXCEPT !.menu = TRUE])
  BY DEF Same, Release, PageFields, Fresh
<1> QED
  BY <1>1, <1>2, <1>3

\* The fields that flows set of a page that plays on.
LEMMA FieldsSame ==
  ASSUME NEW p, DOMAIN p = PageFields, NEW q,
         \/ \E part : q = [p EXCEPT !.flag = FALSE, !.url = Url(part, None, None)]
         \/ q = [p EXCEPT !.skip = "off", !.blocked = TRUE]
         \/ q = [p EXCEPT !.flag = FALSE]
         \/ q = [p EXCEPT !.testing = TRUE, !.skip = "native"]
         \/ q = [p EXCEPT !.seeking = FALSE, !.menu = FALSE]
         \/ q = [p EXCEPT !.advancing = TRUE]
  PROVE  Same(p, q)
BY DEF Same, PageFields, Fresh

LEMMA AskNewest ==
  ASSUME LockInv, ServedInv, InStep, NewestInv, NEW k \in Tasks, Ask(k) PROVE NewestInv'
<1> PICK t, s : t = Todo(k, Tail(tasks[k].todo)) /\ s = tasks[k].todo
  OBVIOUS
<1>1. /\ Becomes(k, t) /\ UNCHANGED <<playlist, stored, page, used>> /\ used' \in Counts /\ At(k, "ask")
  BY DEF Ask, Proceeds, ServedInv
<1>2. t.todo = Tail(s) /\ t.write = tasks[k].write /\ t.remote = tasks[k].remote
  BY TaskIs DEF Carries
<1>3. s \in Seq(Steps) /\ s # <<>> /\ Elements(Tail(s)) \subseteq Elements(s)
  BY <1>1, TaskIs, TailHas DEF At
<1>4. "putPlayback" \notin Elements(s) /\ ~Storing(k)
  BY <1>1, NotStoring
<1>5. Ready(k) /\ OfRemote(t)
  BY <1>1, <1>2, <1>3, AtReady, RemoteGoesOn
<1>6. (OpEd(t.todo) => WritesOpEd(k)) /\ ~Saves(t, page)
  BY <1>2, <1>3, <1>4 DEF OpEd, WritesOpEd, Saves, Has
<1> QED
  BY <1>1, <1>4, <1>5, <1>6, NewestStays DEF Same

LEMMA PageStepNewest ==
  ASSUME LockInv, ServedInv, InStep, NewestInv, NEW k \in Tasks,
         \/ Settle(k) \/ StopEnds(k) \/ Asked(k) \/ ReleaseAdvance(k) \/ EnterOpEd(k) \/ PreviewBegins(k)
         \/ Unflag(k)
  PROVE  NewestInv'
<1>1. DOMAIN page = PageFields
  BY DEF LockInv
<1>2. Proceeds(k) /\ UNCHANGED <<playlist, stored, used>>
  BY DEF Settle, StopEnds, Asked, ReleaseAdvance, EnterOpEd, PreviewBegins, Unflag
<1>3. PICK step : At(k, step) /\ step \notin RemoteSteps
  BY RunsAt
<1>4. page'.mode # "playlist" \/ Same(page, page')
  <2>1. CASE Settle(k) \/ StopEnds(k) \/ Unflag(k)
    BY <1>1, <2>1, FieldsSame DEF Settle, StopEnds, Unflag
  <2>2. CASE Asked(k) \/ ReleaseAdvance(k) \/ EnterOpEd(k) \/ PreviewBegins(k)
    BY <1>1, <2>2, ModesAre DEF Asked, ReleaseAdvance, EnterOpEd, PreviewBegins
  <2> QED
    BY <2>1, <2>2
<1>5. Steady(k)
  BY <1>2, <1>3, <1>4, SteadyForms DEF RemoteSteps
<1> QED
  BY <1>2, <1>3, <1>5, SteadyNewest

\* A task starts to play an item of the list as it was at first.
LEMMA ResolvedNewest ==
  ASSUME LockInv, ServedInv, InStep, NEW k \in Tasks, NEW step, At(k, step), step \notin RemoteSteps,
         NEW playback, NEW rest, After(rest), PlayResolvedItem(k, Start, playback, rest),
         UNCHANGED <<stored, used>>
  PROVE  NewestInv'
<1>1. Ready(k) /\ ~tasks[k].remote
  BY AtReady
<1>2. After(<<"settle">> \o rest) /\ After(<<"ask", "asked">> \o rest)
  BY AfterIs
<1>3. \/ Plays(k, Start, playback, TRUE, <<"settle">> \o rest)
      \/ Plays(k, Start, playback, FALSE, <<"ask", "asked">> \o rest)
  BY DEF PlayResolvedItem
<1> QED
  BY <1>1, <1>2, <1>3, PlaysNewest

LEMMA StartedNewest ==
  ASSUME LockInv, ServedInv, InStep, NewestInv, NEW k \in Tasks, NEW step, At(k, step),
         step \notin RemoteSteps, NEW playback, StartPlaylistItem(k, Start, playback),
         UNCHANGED <<playlist, stored, used>>
  PROVE  NewestInv'
<1>1. Ready(k) /\ ~tasks[k].remote
  BY AtReady
<1>2. After(<<"settle">>) /\ After(<<>>)
  BY AfterIs, NothingInOrder DEF After
<1>3. \/ Ends(k) /\ UNCHANGED page
      \/ \E pb : Plays(k, Start, pb, TRUE, <<"settle">>)
  BY DEF StartPlaylistItem
<1>4. CASE Ends(k) /\ UNCHANGED page
  <2>1. Steady(k)
    BY <1>4, ModesAre, SteadyForms DEF LockInv, RemoteSteps
  <2> QED
    BY <2>1, SteadyNewest
<1>5. CASE \E pb : Plays(k, Start, pb, TRUE, <<"settle">>)
  BY <1>1, <1>2, <1>5, PlaysNewest
<1> QED
  BY <1>3, <1>4, <1>5

LEMMA JumpNewest ==
  ASSUME LockInv, ServedInv, InStep, NewestInv, playlist = Start, NEW k \in Tasks, JumpFound(k) \/ JumpList(k)
  PROVE  NewestInv'
<1>1. PICK step : At(k, step) /\ step \notin RemoteSteps /\ UNCHANGED <<playlist, stored, used>>
  BY RunsAt
<1>2. \/ Ends(k) /\ UNCHANGED page
      \/ \E playback : PlayResolvedItem(k, Start, playback, <<>>)
  BY DEF JumpFound, JumpList, JumpTo
<1>3. CASE Ends(k) /\ UNCHANGED page
  <2>1. Steady(k)
    BY <1>1, <1>3, ModesAre, SteadyForms DEF LockInv, RemoteSteps
  <2> QED
    BY <1>1, <2>1, SteadyNewest
<1>4. CASE \E playback : PlayResolvedItem(k, Start, playback, <<>>)
  BY <1>1, <1>4, AfterIs, NothingInOrder, ResolvedNewest DEF After
<1> QED
  BY <1>2, <1>3, <1>4

LEMMA RestartNewest ==
  ASSUME LockInv, ServedInv, InStep, NewestInv, NEW k \in Tasks, Restart(k) PROVE NewestInv'
<1>1. PICK step : At(k, step) /\ step \notin RemoteSteps /\ UNCHANGED <<playlist, stored, used>>
  BY RunsAt
<1>2. tasks[k].list = Start
  BY AtHas DEF Restart, GoodTask
<1>3. \E playback : PlayResolvedItem(k, Start, playback, <<>>)
  BY <1>2 DEF Restart
<1> QED
  BY <1>1, <1>3, AfterIs, NothingInOrder, ResolvedNewest DEF After

LEMMA ParamsOrderNewest ==
  ASSUME LockInv, ServedInv, InStep, NewestInv, NEW k \in Tasks, ParamsOrder(k) PROVE NewestInv'
<1>1. PICK step : At(k, step) /\ step \notin RemoteSteps /\ UNCHANGED <<playlist, stored, used>>
  BY RunsAt
<1>2. tasks[k].list = Start
  BY AtHas DEF ParamsOrder, GoodTask
<1>3. \/ Ends(k) /\ UNCHANGED page
      \/ \E playback : StartPlaylistItem(k, Start, playback)
  BY <1>2 DEF ParamsOrder
<1>4. CASE Ends(k) /\ UNCHANGED page
  <2>1. Steady(k)
    BY <1>1, <1>4, ModesAre, SteadyForms DEF LockInv, RemoteSteps
  <2> QED
    BY <1>1, <2>1, SteadyNewest
<1> QED
  BY <1>1, <1>3, <1>4, StartedNewest

LEMMA AdvanceFoundNewest ==
  ASSUME LockInv, ServedInv, InStep, NewestInv, playlist = Start, NEW k \in Tasks, AdvanceFound(k)
  PROVE  NewestInv'
<1>1. PICK step : At(k, step) /\ step \notin RemoteSteps /\ UNCHANGED <<playlist, stored, used>>
  BY RunsAt
<1>2. step \notin {"read", "putPlayback"} /\ DOMAIN page = PageFields
  BY <1>1 DEF RemoteSteps, LockInv
<1>3. \/ page' = Release(page) /\ Ends(k)
      \/ /\ page' = [Release(page) EXCEPT !.menu = TRUE]
         /\ Becomes(k, [tasks[k] EXCEPT !.todo = <<"menu">>, !.list = playlist])
      \/ page' = Stopped(page) /\ Becomes(k, Todo(k, StopSteps \o Rest(k)))
      \/ \E playback : PlayResolvedItem(k, Start, playback, Rest(k))
  BY DEF AdvanceFound
<1>4. CASE page' = Release(page) /\ Ends(k)
  BY <1>1, <1>2, <1>4, ModesAre, SteadyForms, SteadyNewest
<1>5. CASE /\ page' = [Release(page) EXCEPT !.menu = TRUE]
           /\ Becomes(k, [tasks[k] EXCEPT !.todo = <<"menu">>, !.list = playlist])
  <2>1. Silent(<<"menu">>)
    BY SilentLists DEF Steps
  <2>2. NoPut(<<"menu">>) /\ Quietly(<<"menu">>)
    BY <1>2, <1>5, <2>1, ModesAre DEF Silent, Quietly
  <2>3. Steady(k)
    BY <1>1, <1>2, <1>5, <2>2, SteadyForms
  <2> QED
    BY <1>1, <2>3, SteadyNewest
<1>6. CASE page' = Stopped(page) /\ Becomes(k, Todo(k, StopSteps \o Rest(k)))
  <2> PICK s : s = StopSteps \o Rest(k)
    OBVIOUS
  <2>1. NoPut(s)
    BY RestIs, EasyLists, EasyJoined, SilentLists
  <2>2. Quietly(s)
    BY <1>2, <1>6, ModesAre DEF Quietly
  <2>3. Steady(k)
    BY <1>1, <1>2, <1>6, <2>1, <2>2, SteadyForms
  <2> QED
    BY <1>1, <2>3, SteadyNewest
<1>7. CASE \E playback : PlayResolvedItem(k, Start, playback, Rest(k))
  BY <1>1, <1>7, RestIs, ResolvedNewest
<1> QED
  BY <1>3, <1>4, <1>5, <1>6, <1>7

\* A task ends, or goes on with silent steps, and the page is as it was.
LEMMA SilentNewest ==
  ASSUME LockInv, ServedInv, InStep, NewestInv, NEW k \in Tasks, NEW step, At(k, step),
         step \notin RemoteSteps, UNCHANGED <<page, playlist, stored, used>>,
         \/ Ends(k)
         \/ \E s : Silent(s) /\ \/ Becomes(k, Todo(k, s))
                                \/ \E r : Becomes(k, [Todo(k, s) EXCEPT !.read = r])
                                \/ \E r : Becomes(k, [Todo(k, s) EXCEPT !.list = r])
  PROVE  NewestInv'
<1>1. step \notin {"read", "putPlayback"} /\ Same(page, page')
  BY ModesAre DEF RemoteSteps, LockInv
<1>2. CASE Ends(k)
  BY <1>1, <1>2, SteadyForms, SteadyNewest
<1>3. CASE \E s : Silent(s) /\ \/ Becomes(k, Todo(k, s))
                               \/ \E r : Becomes(k, [Todo(k, s) EXCEPT !.read = r])
                               \/ \E r : Becomes(k, [Todo(k, s) EXCEPT !.list = r])
  <2>1. PICK s : Silent(s) /\ \/ Becomes(k, Todo(k, s))
                              \/ \E r : Becomes(k, [Todo(k, s) EXCEPT !.read = r])
                              \/ \E r : Becomes(k, [Todo(k, s) EXCEPT !.list = r])
    BY <1>3
  <2>2. NoPut(s) /\ Quietly(s)
    BY <1>1, <2>1 DEF Silent, Quietly
  <2>3. Steady(k)
    BY <1>1, <2>1, <2>2, SteadyForms
  <2> QED
    BY <2>3, SteadyNewest
<1> QED
  BY <1>2, <1>3

LEMMA LookUpNewest ==
  ASSUME LockInv, ServedInv, InStep, NewestInv, playlist = Start, NEW k \in Tasks,
         JumpStored(k) \/ Params(k) \/ Resume(k) \/ ResumeList(k) \/ NoticeCloses(k)
  PROVE  NewestInv'
<1>1. PICK step : At(k, step) /\ step \notin RemoteSteps /\ UNCHANGED <<playlist, stored, used>>
  BY RunsAt DEF Answers
<1>2. /\ Silent(<<"jumpList">>) /\ Silent(<<"paramsOrder">>) /\ Silent(<<"resume">>)
      /\ Silent(<<"opedCheck">>) /\ Silent(<<"resumeList">>) /\ Silent(DropSteps)
  BY SilentLists DEF Steps, StoreCalls
<1>3. CASE JumpStored(k)
  <2>1. UNCHANGED page /\ (Ends(k) \/ Becomes(k, [Todo(k, <<"jumpList">>) EXCEPT !.read = stored]))
    BY <1>3 DEF JumpStored
  <2> QED
    BY <1>1, <1>2, <2>1, SilentNewest
<1>4. CASE Params(k) \/ NoticeCloses(k)
  <2>1. UNCHANGED page /\ \/ Ends(k) \/ Becomes(k, Todo(k, <<"resume">>))
                          \/ \E r : Becomes(k, [Todo(k, <<"paramsOrder">>) EXCEPT !.list = r])
    BY <1>4 DEF Params, NoticeCloses, ThenResume
  <2> QED
    BY <1>1, <1>2, <2>1, SilentNewest
<1>5. CASE Resume(k)
  <2>1. UNCHANGED page
    BY <1>5 DEF Resume
  <2>2. \/ Ends(k)
        \/ Becomes(k, [Todo(k, <<"opedCheck">>) EXCEPT !.read = stored])
        \/ Becomes(k, [Todo(k, <<"resumeList">>) EXCEPT !.read = stored])
        \/ Becomes(k, [Todo(k, DropSteps) EXCEPT !.read = stored])
    BY <1>5 DEF Resume, Ends
  <2>3. Ends(k) \/ \E s : Silent(s) /\ \E r : Becomes(k, [Todo(k, s) EXCEPT !.read = r])
    BY <1>2, <2>2
  <2> QED
    BY <1>1, <2>1, <2>3, SilentNewest
<1>6. CASE ResumeList(k)
  <2>1. \/ Ends(k) /\ UNCHANGED page
        \/ Becomes(k, Todo(k, DropSteps)) /\ UNCHANGED page
        \/ \E playback : StartPlaylistItem(k, Start, playback)
        \/ \E playback : PlayResolvedItem(k, Start, playback, <<>>)
    BY <1>6 DEF ResumeList
  <2>2. CASE (Ends(k) \/ Becomes(k, Todo(k, DropSteps))) /\ UNCHANGED page
    BY <1>1, <1>2, <2>2, SilentNewest
  <2>3. CASE \E playback : StartPlaylistItem(k, Start, playback)
    BY <1>1, <2>3, StartedNewest
  <2>4. CASE \E playback : PlayResolvedItem(k, Start, playback, <<>>)
    BY <1>1, <2>4, AfterIs, NothingInOrder, ResolvedNewest DEF After
  <2> QED
    BY <2>1, <2>2, <2>3, <2>4
<1> QED
  BY <1>3, <1>4, <1>5, <1>6

\* The page plays nothing from the playlist after this, or did not before.
LEMMA TurnsNewest ==
  ASSUME LockInv, ServedInv, InStep, NewestInv, NEW k \in Tasks,
         OpEdCheck(k) \/ MenuCloses(k) \/ ConfirmCloses(k)
  PROVE  NewestInv'
<1>1. PICK step : At(k, step) /\ step \notin RemoteSteps /\ UNCHANGED <<playlist, stored, used>>
  BY RunsAt DEF Answers
<1>2. step \notin {"read", "putPlayback"} /\ DOMAIN page = PageFields
  BY <1>1 DEF RemoteSteps, LockInv
<1>3. /\ NoPut(StopSteps) /\ NoPut(StopSteps \o <<"begin">>) /\ NoPut(<<"read", "opedOff", "unflag">>)
      /\ NoPut(StopSteps \o <<"restart">>)
  <2>1. Easy(<<"begin">>)
    BY EasyLists
  <2>2. Easy(StopSteps \o <<"begin">>)
    BY <2>1, EasyLists, EasyJoined
  <2>3. "restart" \in Steps /\ "restart" \notin Writers \cup Listings
    BY DEF Steps, Writers, Listings
  <2> PICK a, b : a = StopSteps /\ b = <<"restart">>
    OBVIOUS
  <2>4. /\ b \in Seq(Steps) /\ InOrder(b) /\ Elements(b) = {"restart"} /\ Head(b) \notin Writers
        /\ Elements(b) \cap (Listings \cup {"putPlayback"}) = {}
    BY <2>3, SingleInOrder
  <2>5. Elements(a \o b) = Elements(a) \cup Elements(b)
    BY <2>4, StopInOrder, JoinedInOrder
  <2>6. NoPut(StopSteps \o <<"restart">>)
    BY <2>4, <2>5, StopInOrder DEF NoPut
  <2> QED
    BY <2>2, <2>6, EasyLists, SilentLists
<1>4. \/ Ends(k) /\ page' = page
      \/ Ends(k) /\ page' = EnteredOpEd(page)
      \/ page.mode = "idle" /\ page' = page /\ Becomes(k, Todo(k, <<"read", "opedOff", "unflag">>))
      \/ page' = Stopped(page) /\ Becomes(k, Todo(k, StopSteps))
      \/ page' = Stopped(page) /\ Becomes(k, Todo(k, StopSteps \o <<"begin">>))
      \/ page' = Stopped(page) /\ Becomes(k, Todo(k, StopSteps \o <<"restart">>))
  BY DEF OpEdCheck, MenuCloses, ConfirmCloses
<1>5. \/ Ends(k) /\ (page'.mode # "playlist" \/ Same(page, page'))
      \/ page'.mode # "playlist" /\ \E s : NoPut(s) /\ Becomes(k, Todo(k, s))
  BY <1>2, <1>3, <1>4, ModesAre
<1>6. Steady(k)
  BY <1>1, <1>2, <1>5, SteadyForms DEF Quietly
<1> QED
  BY <1>1, <1>6, SteadyNewest

LEMMA FailNewest == ASSUME ServedInv, NEW k \in Tasks, Fail(k) PROVE NewestInv'
<1>1. used \in Counts /\ used' = [used EXCEPT !.faults = used.faults + 1]
  BY DEF Fail, ServedInv
<1>2. used'.faults = used.faults + 1 /\ used.faults \in Nat
  BY <1>1 DEF Counts
<1> QED
  BY <1>2 DEF NewestInv, Undisturbed

LEMMA RunsNewest ==
  ASSUME LockInv, ServedInv, InStep, NewestInv, playlist = Start, NEW k \in Tasks,
         Runs(k) \/ Answers(k) \/ Fail(k)
  PROVE  NewestInv'
<1>1. CASE Read(k) \/ PutPlayback(k) \/ ClearOwned(k) \/ DropPlayback(k) \/ OpedOn(k) \/ OpedOff(k)
           \/ Settle(k) \/ StopEnds(k) \/ Ask(k) \/ Asked(k) \/ ReleaseAdvance(k)
           \/ EnterOpEd(k) \/ PreviewBegins(k) \/ Unflag(k)
  BY <1>1, ReadNewest, PutNewest, OtherWriteNewest, AskNewest, PageStepNewest
<1>2. CASE AdvanceFound(k) \/ Restart(k) \/ JumpFound(k) \/ JumpStored(k) \/ JumpList(k)
           \/ Params(k) \/ ParamsOrder(k) \/ Resume(k) \/ ResumeList(k) \/ OpEdCheck(k) \/ SwitchFound(k)
  BY <1>2, AdvanceFoundNewest, RestartNewest, JumpNewest, LookUpNewest, ParamsOrderNewest, TurnsNewest,
     SwitchNewest
<1>3. CASE Answers(k) \/ Fail(k)
  BY <1>3, TurnsNewest, LookUpNewest, FailNewest DEF Answers
<1> QED
  BY <1>1, <1>2, <1>3 DEF Runs

\* What users and surfaces begin.
LEMMA BegunNewest ==
  ASSUME LockInv, ServedInv, InStep, NewestInv, NEW s, Begun(s), NoPut(s), Quietly(s),
         UNCHANGED <<playlist, stored>>, Event \/ UNCHANGED used
  PROVE  NewestInv'
<1> PICK t : Becomes(NewTask, t) /\ t.todo = s /\ ~t.remote
  BY DEF Begun
<1>1. NewTask \in Tasks /\ tasks[NewTask].todo = <<>> /\ Ready(NewTask)
  BY NewReady DEF Begun
<1>2. ~Storing(NewTask)
  BY <1>1, SilentLists DEF Storing, Saves, Has, Silent, NoPut
<1>3. OfRemote(t) /\ ~Saves(t, page')
  BY DEF OfRemote, Saves, Has, NoPut
<1>4. used' \in Counts /\ used'.faults = used.faults
  BY EventCounts DEF ServedInv
<1> QED
  BY <1>1, <1>2, <1>3, <1>4, NewestStays DEF Quietly

LEMMA StillNewest ==
  ASSUME ServedInv, NewestInv, UNCHANGED <<tasks, line, stored>>, Event \/ UNCHANGED used,
         playlist' = Start => playlist = Start, page'.mode # "playlist" \/ Same(page, page')
  PROVE  NewestInv'
<1> SUFFICES ASSUME Undisturbed' PROVE Newest'
  BY DEF NewestInv
<1>1. Same(page, page') /\ used'.faults = used.faults
  BY EventCounts DEF Undisturbed
<1>2. Newest
  BY <1>1 DEF NewestInv, Undisturbed, Same
<1>3. \A u, rec : /\ Saves(u, page') <=> Saves(u, page)
                  /\ Stores(rec, page') <=> Stores(rec, page)
                  /\ Leads(rec, page') <=> Leads(rec, page)
  BY <1>1, SameSaves DEF Same, Leads
<1>4. \A j \in Tasks : (Storing(j)' <=> Storing(j)) /\ (WritesOpEd(j)' <=> WritesOpEd(j))
  BY <1>3 DEF Storing, WritesOpEd
<1>5. \A i, j \in Tasks : Sooner(i, j)' <=> Sooner(i, j)
  <2> SUFFICES ASSUME NEW i \in Tasks, NEW j \in Tasks PROVE Sooner(i, j)' <=> Sooner(i, j)
    OBVIOUS
  <2>1. (Reading(i)' <=> Reading(i)) /\ (Reading(j)' <=> Reading(j)) /\ (Before(line, i, j)' <=> Before(line, i, j))
    BY DEF Reading, Before
  <2> QED
    BY <2>1 DEF Sooner
<1> QED
  BY <1>2, <1>3, <1>4, <1>5 DEF Newest

LEMMA UserNewest ==
  ASSUME LockInv, ServedInv, InStep, NewestInv,
         \/ ChaptersArrive \/ ClickNext \/ ClickPrevious \/ RunsOut \/ ClickStop \/ SwitchItem
         \/ BeginPreview \/ \E i \in Wanted : Jump(i)
  PROVE  NewestInv'
<1>1. DOMAIN page = PageFields /\ Same(page, page)
  BY ModesAre DEF LockInv
<1>2. /\ Silent(<<"params">>) /\ Silent(<<"notice">>) /\ Silent(<<"resume">>) /\ Silent(<<>>)
      /\ Silent(<<"advance", "release">>) /\ Silent(<<"switch">>) /\ Silent(<<"jump">>)
      /\ Silent(<<"jumpStored">>) /\ Silent(<<"confirm">>)
  BY SilentLists DEF Steps, StoreCalls
<1>3. ASSUME NEW s, Silent(s), Begun(s), Same(page, page') \/ page'.mode # "playlist",
             UNCHANGED <<playlist, stored>>, Event \/ UNCHANGED used
      PROVE  NewestInv'
  BY <1>3, BegunNewest DEF Silent, Quietly
<1>4. CASE ChaptersArrive
  <2> DEFINE c == [page EXCEPT !.seen = TRUE, !.url = Url(@.part, None, None),
                               !.skip = IF page.seen \/ page.mode # "idle" THEN @ ELSE "native",
                               !.blocked = @ /\ (page.seen \/ page.mode # "idle")]
             Opened == StopSteps \o <<"read", "opedOn", "enterOpEd">>
  <2>1. /\ Event \/ UNCHANGED used
        /\ UNCHANGED <<playlist, stored>>
        /\ \/ page' = c /\ \E s : Begun(s) /\ s \in {<<"params">>, <<"notice">>, <<"resume">>, <<>>}
           \/ page' = Stopped(c) /\ Begun(Opened)
    BY <1>4, ChaptersBegin
  <2>2. DOMAIN c = PageFields /\ Same(page, c)
    BY <1>1 DEF Same, PageFields, Fresh
  <2> HIDE DEF c, Opened
  <2>3. Stopped(c).mode # "playlist"
    BY <2>2, ModesAre
  <2>4. NoPut(Opened)
    BY EasyLists, EasyJoined, SilentLists DEF Opened
  <2>5. CASE page' = c /\ \E s : Begun(s) /\ s \in {<<"params">>, <<"notice">>, <<"resume">>, <<>>}
    BY <1>2, <1>3, <2>1, <2>2, <2>5
  <2>6. CASE page' = Stopped(c) /\ Begun(Opened)
    BY <2>1, <2>3, <2>4, <2>6, BegunNewest DEF Quietly
  <2> QED
    BY <2>1, <2>5, <2>6
<1>5. CASE ClickNext \/ ClickPrevious \/ RunsOut
  <2>1. /\ Event /\ UNCHANGED <<playlist, stored>> /\ page' = [page EXCEPT !.advancing = TRUE]
        /\ \E ask : StartsWith(<<"advance", "release">>, ask)
    BY <1>5 DEF ClickNext, ClickPrevious, RunsOut, Advance
  <2>2. Same(page, page') /\ Begun(<<"advance", "release">>)
    BY <1>1, <2>1, FieldsSame, BegunIs
  <2> QED
    BY <1>2, <1>3, <2>1, <2>2
<1>6. CASE ClickStop
  <2>1. Event /\ UNCHANGED <<playlist, stored>> /\ page' = Stopped(page) /\ Begun(StopSteps)
    BY <1>6, BegunIs DEF ClickStop
  <2>2. NoPut(StopSteps) /\ page'.mode # "playlist"
    BY <1>1, <2>1, EasyLists, SilentLists, ModesAre
  <2> QED
    BY <2>1, <2>2, BegunNewest DEF Quietly
<1>7. CASE SwitchItem
  <2>1. Event /\ UNCHANGED <<playlist, stored, page>> /\ \E ask : StartsWith(<<"switch">>, ask)
    BY <1>7 DEF SwitchItem
  <2> QED
    BY <1>1, <1>2, <1>3, <2>1, BegunIs
<1>8. CASE \E i \in Wanted : Jump(i)
  <2>1. /\ Event /\ UNCHANGED <<playlist, stored, page>>
        /\ \E s, ask : StartsWith(s, ask) /\ s \in {<<"jump">>, <<"jumpStored">>}
    BY <1>8 DEF Jump
  <2> QED
    BY <1>1, <1>2, <1>3, <2>1, BegunIs
<1>9. CASE BeginPreview
  <2>1. /\ Event /\ UNCHANGED <<playlist, stored>>
        /\ \/ page' = Previewing(page) /\ UNCHANGED <<tasks, line>>
           \/ UNCHANGED page /\ Starts(<<"confirm">>)
    BY <1>9 DEF BeginPreview
  <2>2. CASE page' = Previewing(page) /\ UNCHANGED <<tasks, line>>
    BY <1>1, <2>1, <2>2, ModesAre, StillNewest
  <2>3. CASE UNCHANGED page /\ Starts(<<"confirm">>)
    BY <1>1, <1>2, <1>3, <2>1, <2>3, BegunIs
  <2> QED
    BY <2>1, <2>2, <2>3
<1> QED
  BY <1>4, <1>5, <1>6, <1>7, <1>8, <1>9

LEMMA RemoteNewest ==
  ASSUME LockInv, ServedInv, InStep, NewestInv, NEW playback, NEW index, StartsRemotely(playback, index)
  PROVE  NewestInv'
<1>1. Event /\ UNCHANGED <<playlist, stored, page>> /\ FreeTasks # {}
  BY RemoteServed
<1>2. PICK t : /\ Becomes(NewTask, t) /\ t.remote /\ OfRemote(t)
               /\ t.todo = <<"read", "putPlayback", "ask">>
  BY RemoteServed
<1>3. NewTask \in Tasks /\ tasks[NewTask].todo = <<>> /\ Ready(NewTask)
  BY <1>1, NewReady
<1>4. ~Storing(NewTask) /\ ~Saves(t, page')
  BY <1>2, <1>3, SilentLists DEF Storing, Saves, Has, Silent, NoPut
<1>5. ~OpEd(t.todo)
  BY <1>2 DEF OfRemote, RemoteSteps, OpEd
<1>6. used' \in Counts /\ used'.faults = used.faults
  BY <1>1, EventCounts
<1>7. Same(page, page')
  BY <1>1 DEF Same
<1> QED
  BY <1>1, <1>2, <1>3, <1>4, <1>5, <1>6, <1>7, NewestStays

\* Nobody stores anything while time passes.
LEMMA ExpireNewest == ASSUME LockInv, ServedInv, InStep, NewestInv, Expire PROVE NewestInv'
<1>1. /\ UNCHANGED <<playlist, page, tasks, line>> /\ Event
      /\ stored'.playback = IF stored.playback = NoPlayback THEN NoPlayback
                            ELSE [stored.playback EXCEPT !.fresh = FALSE]
  BY DEF Expire
<1>2. ASSUME NEW j \in Tasks PROVE ~Storing(j)
  <2>1. SUFFICES ASSUME Storing(j) PROVE FALSE
    OBVIOUS
  <2>2. Head(tasks[j].todo) \in {"read", "putPlayback"} /\ tasks[j].todo # <<>>
    BY <2>1, StoringIs DEF Calls
  <2>3. Head(tasks[j].todo) \in {"menu", "notice", "confirm"}
    BY <2>2 DEF Expire, Busy, FreeTasks
  <2> QED
    BY <2>2, <2>3
<1> SUFFICES ASSUME Undisturbed' PROVE Newest'
  BY DEF NewestInv
<1>3. Newest
  BY <1>1, EventCounts DEF NewestInv, Undisturbed
<1>4. \A j \in Tasks : ~Storing(j)' /\ ~WritesOpEd(j)'
  BY <1>1, <1>2, <1>3 DEF Storing, Newest, WritesOpEd
<1>5. Stores(stored'.playback, page') => Leads(stored'.playback, page')
  <2> SUFFICES ASSUME Stores(stored'.playback, page') PROVE Leads(stored'.playback, page')
    OBVIOUS
  <2> PICK rec : rec = stored.playback
    OBVIOUS
  <2>1. rec # NoPlayback
    BY <1>1 DEF Stores
  <2>2. rec \in Records
    BY <2>1 DEF InStep, KeptState, Kept, GoodRecord
  <2>3. stored'.playback = [rec EXCEPT !.fresh = FALSE]
    BY <1>1, <2>1
  <2>4. /\ stored'.playback.at = rec.at /\ stored'.playback.owner = rec.owner
        /\ stored'.playback.generation = rec.generation
    BY <2>2, <2>3 DEF Records
  <2>5. Stores(rec, page)
    BY <1>1, <2>1, <2>4 DEF Stores
  <2>6. Leads(rec, page)
    BY <1>2, <1>3, <2>5 DEF Newest
  <2> QED
    BY <1>1, <2>4, <2>6 DEF Leads
<1> QED
  BY <1>4, <1>5 DEF Newest

LEMMA NewestStep == ASSUME LockInv, ServedInv, OrderInv, NewestInv, [Next]_vars PROVE NewestInv'
<1> SUFFICES ASSUME playlist' = Start PROVE NewestInv'
  BY DEF NewestInv, Undisturbed
<1>1. ASSUME NEW items \in Edits, EditPlaylist(items) PROVE FALSE
  BY <1>1, PlayerAssumption DEF EditPlaylist
<1>2. CASE \E items \in Edits : EditPlaylist(items)
  BY <1>1, <1>2
<1>3. CASE ~\E items \in Edits : EditPlaylist(items)
  <2>1. UNCHANGED playlist
    <3>1. ASSUME NEW k \in Tasks, Runs(k) \/ Answers(k) \/ Fail(k) PROVE UNCHANGED playlist
      BY <3>1 DEF Runs, Answers, Fail, Read, PutPlayback, ClearOwned, DropPlayback, OpedOn, OpedOff, Writes,
         Settle, StopEnds, Ask, Asked, ReleaseAdvance, AdvanceFound, Restart, JumpFound, JumpStored, JumpList,
         EnterOpEd, PreviewBegins, Params, ParamsOrder, Resume, ResumeList, OpEdCheck, Unflag, SwitchFound,
         MenuCloses, ConfirmCloses, NoticeCloses
    <3>2. CASE \/ ChaptersArrive \/ ClickNext \/ ClickPrevious \/ ClickStop \/ BeginPreview \/ TestPreview
               \/ CancelPreview \/ InRange \/ RunsOut \/ SwitchItem \/ Expire \/ OpenUrl \/ Reload
               \/ UNCHANGED vars
      BY <3>2 DEF ChaptersArrive, ClickNext, ClickPrevious, ClickStop, BeginPreview, TestPreview,
         CancelPreview, InRange, RunsOut, SwitchItem, Expire, OpenUrl, Reload, Opens, vars
    <3>3. CASE StartShuffle \/ ShuffleFromHere \/ \E i \in Wanted : Jump(i) \/ StartItem(i)
      BY <3>3 DEF StartShuffle, ShuffleFromHere, Jump, StartItem, StartsRemotely
    <3> QED
      BY <1>3, <3>1, <3>2, <3>3 DEF Next
  <2>2. playlist = Start /\ InStep /\ DOMAIN page = PageFields
    BY <2>1 DEF OrderInv, LockInv
  <2>3. CASE \E k \in Tasks : Runs(k) \/ Answers(k) \/ Fail(k)
    BY <2>2, <2>3, RunsNewest
  <2>4. CASE \/ ChaptersArrive \/ ClickNext \/ ClickPrevious \/ RunsOut \/ ClickStop \/ SwitchItem
             \/ BeginPreview \/ \E i \in Wanted : Jump(i)
    BY <2>2, <2>4, UserNewest
  <2>5. CASE TestPreview \/ InRange
    <3>1. Same(page, page') /\ UNCHANGED <<tasks, line, stored>> /\ (Event \/ UNCHANGED used)
      BY <2>2, <2>5, FieldsSame DEF TestPreview, InRange
    <3> QED
      BY <2>2, <3>1, StillNewest
  <2>6. CASE CancelPreview
    <3>1. page'.mode = "idle"
      BY <2>2, <2>6 DEF CancelPreview, PageFields, Fresh
    <3> QED
      BY <3>1 DEF NewestInv, Undisturbed
  <2>7. CASE StartShuffle \/ ShuffleFromHere \/ \E i \in Wanted : StartItem(i)
    BY <2>2, <2>7, RemoteNewest DEF StartShuffle, ShuffleFromHere, StartItem
  <2>8. CASE Expire
    BY <2>2, <2>8, ExpireNewest
  <2>9. CASE OpenUrl \/ Reload
    <3>1. page'.mode = "idle"
      BY <2>9 DEF OpenUrl, Reload, Opens, Fresh
    <3> QED
      BY <3>1 DEF NewestInv, Undisturbed
  <2>10. CASE UNCHANGED vars
    BY <2>2, <2>10, ModesAre, StillNewest DEF vars
  <2> QED
    BY <1>3, <2>3, <2>4, <2>5, <2>6, <2>7, <2>8, <2>9, <2>10 DEF Next
<1> QED
  BY <1>2, <1>3

LEMMA InitNewest == Init => NewestInv
BY DEF Init, Fresh, NewestInv, Undisturbed

\* While no call fails and no op-ed write is late, the write of what plays now
\* is served after every other write of the generation, or has been.
THEOREM NewestIsKept == Spec => []NewestInv
<1>1. Init => LockInv /\ ServedInv /\ OrderInv /\ NewestInv
  BY InitInv, InitServed, InitInOrder, InitNewest
<1>2. LockInv /\ ServedInv /\ OrderInv /\ NewestInv /\ [Next]_vars => NewestInv'
  BY NewestStep
<1> QED
  BY <1>1, <1>2, LockIsKept, LineIsServed, OrderIsKept, PTL DEF Spec

\* The record this page stored for its present generation leads back, on a page
\* loaded anew, to the order that plays here, and to the item as well once
\* nothing is to be written any more.
THEOREM ResumesAsPlaying == Spec => []ResumesWherePlaying
<1>1. ASSUME LockInv, ServedInv, OrderInv, NewestInv PROVE ResumesWherePlaying
  <2> SUFFICES ASSUME playlist = Start, OfThis(stored.playback)
               PROVE  LET restored == FromTransient(Start, stored.playback.at)
                      IN /\ restored.order = page.playback.order
                         /\ restored.shuffle = page.playback.shuffle
                         /\ used.faults = 0 /\ ~page.late /\ Settled => restored = page.playback
    BY DEF ResumesWherePlaying
  <2>1. InStep /\ Stores(stored.playback, page) /\ page.mode = "playlist"
    BY <1>1 DEF OrderInv, OfThis, Stores
  <2> PICK pb, rec : pb = page.playback /\ rec = stored.playback
    OBVIOUS
  <2>2. /\ GoodPlayback(pb) /\ GoodRecord(rec) /\ rec.at.shuffled = OrderOf(pb)
    BY <2>1 DEF InStep, GoodPage, KeptState, Kept, Stores
  <2>3. GoodPositions(rec.at)
    BY <2>2 DEF GoodRecord
  <2> PICK restored : restored = FromTransient(Start, rec.at)
    OBVIOUS
  <2>4. restored.order = pb.order /\ restored.shuffle = pb.shuffle
    BY <2>2, <2>3, LedTo, BackAgain
  <2>5. ASSUME used.faults = 0, ~page.late, Settled PROVE restored = pb
    <3>1. Newest
      BY <1>1, <2>1, <2>5 DEF NewestInv, Undisturbed
    <3>2. ASSUME NEW j \in Tasks PROVE ~Storing(j)
      <4>1. SUFFICES ASSUME Storing(j) PROVE FALSE
        OBVIOUS
      <4>2. Calls(tasks[j])
        BY <1>1, <2>1, <4>1, StoringIs
      <4> QED
        BY <2>5, <4>2 DEF Calls, Settled, Busy, FreeTasks
    <3>3. rec.at = ToTransient(Start, pb)
      BY <2>1, <3>1, <3>2 DEF Newest, Leads
    <3> QED
      BY <2>2, <3>3, BackAgain
  <2> QED
    BY <2>4, <2>5
<1> QED
  BY <1>1, LockIsKept, LineIsServed, OrderIsKept, NewestIsKept, PTL
=============================================================================
