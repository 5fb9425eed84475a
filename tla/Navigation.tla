----------------------------- MODULE Navigation -----------------------------
(***************************************************************************)
(* Moving through a playlist: src/apps/extension/src/domain/{navigation,   *)
(* shuffle}.ts and the two mappings of player/transient-session.ts.        *)
(*                                                                         *)
(* The player thinks in item ids: a playback is [order, item, shuffle],    *)
(* the play order, the current item, and whether the order is a shuffle.   *)
(* The stored record thinks in positions: [index, shuffled], where         *)
(* shuffled is the sequence of real positions, or <<>> when there is none. *)
(* Positions count from 1 here and from 0 in the code.                     *)
(***************************************************************************)
EXTENDS Naturals, Integers, Sequences, FiniteSets, SequencesExt

CONSTANT NoPlayback          \* an absent record, or an unusable one

IdsOf(items)         == [i \in DOMAIN items |-> items[i].id]
Elements(s)          == {s[i] : i \in DOMAIN s}
Position(s, e)       == CHOOSE i \in DOMAIN s : s[i] = e /\ \A j \in 1..(i - 1) : s[j] # e
ItemOf(items, id)    == items[Position(IdsOf(items), id)]
HasDuplicate(s)      == \E i, j \in DOMAIN s : i # j /\ s[i] = s[j]

\* The elements of s at the places in P, in their order.
Picked(s, P) ==
  [n \in 1..Cardinality(P) |-> s[CHOOSE p \in P : Cardinality({q \in P : q <= p}) = n]]

\* The elements of s in `available`, each where it is met first.
FirstOccurrences(s, available) ==
  Picked(s, {i \in DOMAIN s : s[i] \in available /\ \A j \in 1..(i - 1) : s[j] # s[i]})

Reconciled(ids, stale) ==
  LET kept == FirstOccurrences(stale, Elements(ids))
  IN kept \o Picked(ids, {i \in DOMAIN ids : ids[i] \notin Elements(kept)})

\* What is wrong with playing `current` from this playlist, or "ready".
Readiness(ids, current) ==
  IF HasDuplicate(ids) THEN "duplicate-id"
  ELSE IF ids = <<>> THEN "empty-playlist"
  ELSE IF current \notin Elements(ids) THEN "current-item-removed"
  ELSE "ready"

Stop     == [kind |-> "stop"]
Boundary == [kind |-> "boundary"]
Target(playback) == [kind |-> "target", playback |-> playback]

\* items is <<>> for a playlist that is gone; step is 1 or -1.
Navigate(items, playback, step) ==
  LET ids   == IdsOf(items)
      order == Reconciled(ids, playback.order)
      at    == Position(order, playback.item) + step
  IN IF Readiness(ids, playback.item) # "ready" THEN Stop
     ELSE IF at \notin DOMAIN order THEN Boundary
     ELSE Target([playback EXCEPT !.order = order, !.item = order[at]])

StartNavigation(items, playback) ==
  IF Readiness(IdsOf(items), playback.item) # "ready" THEN Stop
  ELSE Target([playback EXCEPT !.order = Reconciled(IdsOf(items), @)])

\* The orders a shuffle may come out with.
Shuffles(ids)           == Bijection(1..Len(ids), Elements(ids))
ShuffleAll(ids)         == IF HasDuplicate(ids) \/ ids = <<>> THEN {} ELSE Shuffles(ids)
ReshuffleAfterCurrent(ids, order, current) ==
  LET known == Reconciled(ids, order)
      at    == Position(known, current)
  IN IF Readiness(ids, current) # "ready" THEN {}
     ELSE {SubSeq(known, 1, at) \o s : s \in Shuffles(SubSeq(known, at + 1, Len(known)))}

\* Mutant: the index counts in the playlist, not in the running order.
ToTransientRealIndex(items, playback) ==
  LET ids == IdsOf(items)
  IN [index    |-> Position(ids, playback.item),
      shuffled |-> IF playback.shuffle
                   THEN [i \in DOMAIN playback.order |-> Position(ids, playback.order[i])]
                   ELSE <<>>]

\* The stored form; NoPlayback where the code reports an unresolved order.
ToTransient(items, playback) ==
  LET ids == IdsOf(items)
  IN IF \/ playback.item \notin Elements(playback.order)
        \/ playback.shuffle /\ ~(Elements(playback.order) \subseteq Elements(ids))
     THEN NoPlayback
     ELSE [index    |-> Position(playback.order, playback.item),
           shuffled |-> IF playback.shuffle
                        THEN [i \in DOMAIN playback.order |-> Position(ids, playback.order[i])]
                        ELSE <<>>]

\* The ids at those of the positions that the list still has.
IdsAt(ids, positions) ==
  LET known == Picked(positions, {i \in DOMAIN positions : positions[i] \in DOMAIN ids})
  IN [i \in DOMAIN known |-> ids[known[i]]]

\* ... and back; NoPlayback where the code restores nothing.
FromTransient(items, stored) ==
  LET ids   == IdsOf(items)
      real  == IF stored.shuffled = <<>> THEN stored.index
               ELSE IF stored.index \in DOMAIN stored.shuffled THEN stored.shuffled[stored.index]
               ELSE 0
      order == IF stored.shuffled = <<>> THEN ids ELSE IdsAt(ids, stored.shuffled)
  IN IF real \notin DOMAIN ids THEN NoPlayback
     ELSE [order |-> order, item |-> ids[real], shuffle |-> stored.shuffled # <<>>]
=============================================================================
