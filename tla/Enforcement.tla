----------------------------- MODULE Enforcement -----------------------------
(***************************************************************************)
(* Keeping the video inside the range it was asked for: the pure decisions *)
(* of src/apps/extension/src/player/enforcement.ts.                        *)
(*                                                                         *)
(* A range is [start, end]; `same` holds the other entries of the playlist *)
(* that lie in this video, as [id, start, end].  Whether the cooldown or   *)
(* the minimum gap between two actions is still running is an input.       *)
(***************************************************************************)
EXTENDS Naturals, Integers, Sequences

CONSTANTS
  Tolerance,     \* RANGE_TOLERANCE_MS
  RangeTail,          \* RANGE_TAIL_MS: the last second still counts as inside
  EndMargin,     \* OPED_END_MARGIN_MS
  EndOffset,     \* OPED_SEEK_END_OFFSET_MS
  NearStart      \* PREV_RESTART_THRESHOLD_MS

ASSUME EnforcementAssumption ==
  /\ {Tolerance, RangeTail, EndMargin, EndOffset, NearStart} \subseteq Nat
  /\ Tolerance <= RangeTail /\ EndOffset <= EndMargin

InsideRange(ranges, pos) ==
  \E i \in DOMAIN ranges : /\ pos >= ranges[i].start - Tolerance
                           /\ pos <= ranges[i].end + RangeTail + Tolerance

SwitchTargets(in) ==
  {i \in DOMAIN in.same : /\ in.same[i].id # in.current
                          /\ in.same[i].start <= in.pos
                          /\ in.pos <= in.same[i].end + RangeTail}

Do(kind)          == [kind |-> kind]
Seek(time)        == [kind |-> "seek", time |-> time]

\* The first other entry that holds the position, else what is said.
SwitchOr(in, otherwise) ==
  IF SwitchTargets(in) = {} THEN otherwise
  ELSE [kind |-> "switch-item",
        id   |-> in.same[CHOOSE i \in SwitchTargets(in) : \A j \in SwitchTargets(in) : i <= j].id]

PastTheEnd(in, last) ==
  CASE in.mode = "playlist" ->
         SwitchOr(in, IF in.seeking THEN Seek(in.ranges[1].start) ELSE Do("advance"))
    [] in.mode = "op-ed" ->
         IF in.pos > last /\ in.pos < in.duration - EndMargin
         THEN [kind |-> "seek-end", time |-> in.duration - EndOffset] ELSE Do("none")
    [] OTHER -> Do("pause")

DecideEnforcement(in) ==
  LET last == in.ranges[Len(in.ranges)].end + RangeTail
      next == {i \in DOMAIN in.ranges : in.pos < in.ranges[i].start}
  IN IF in.mode = "idle" THEN Do("none")
     ELSE IF in.full THEN IF in.ended THEN Do("advance") ELSE Do("none")
     ELSE IF in.ranges = <<>> \/ in.cooling THEN Do("none")
     ELSE IF InsideRange(in.ranges, in.pos) THEN Do("in-range")
     ELSE IF in.tooSoon THEN Do("none")
     ELSE IF in.pos < in.ranges[1].start THEN SwitchOr(in, Seek(in.ranges[1].start))
     ELSE IF in.pos > last \/ in.ended THEN PastTheEnd(in, last)
     ELSE IF next # {}
     THEN SwitchOr(in, Seek(in.ranges[CHOOSE i \in next : \A j \in next : i <= j].start))
     ELSE Do("none")

\* A second click near the start of the range steps back, any other restarts it.
DecidePreviousClick(start, pos, quick) ==
  IF quick /\ pos - start < NearStart /\ start - pos < NearStart THEN "step-back" ELSE "restart-range"
=============================================================================
