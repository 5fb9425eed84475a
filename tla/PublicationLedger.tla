--------------------------- MODULE PublicationLedger ---------------------------
(***************************************************************************)
(* What the share service promises about publications, without tables,     *)
(* secrets, nonces, receipts' times or a clock.                            *)
(*                                                                         *)
(* A publication is born provisional, may become public, is revised one    *)
(* revision at a time, and ends once and for all.  Each of these steps     *)
(* except lapsing and removal is taken under an idempotency key, which     *)
(* takes at most one step until the service forgets it.                    *)
(***************************************************************************)
EXTENDS Naturals

CONSTANTS ShareIds, Keys, Playlists, NoPlaylist,
          Unused   \* what the ledger remembers of a key it does not know

VARIABLES
  pubs,  \* the standing of each publication
  done   \* what each remembered key did

ledgerVars == <<pubs, done>>

Unborn == [phase |-> "unborn", revision |-> 0, playlist |-> NoPlaylist,
           hidden |-> FALSE]
Gone   == [Unborn EXCEPT !.phase = "gone"]

LedgerInit ==
  /\ pubs = [s \in ShareIds |-> Unborn]
  /\ done = [k \in Keys |-> Unused]

\* The key k takes a step on s and is remembered with it.
Take(k, s, method, revision) ==
  /\ done[k] = Unused
  /\ done' = [done EXCEPT ![k] =
                [method |-> method, share |-> s, revision |-> revision]]

Provision(k, s, playlist) ==
  /\ pubs[s] = Unborn
  /\ Take(k, s, "create", 1)
  /\ pubs' = [pubs EXCEPT ![s] = [phase |-> "provisional", revision |-> 1,
                                  playlist |-> playlist, hidden |-> FALSE]]

Publish(k, s) ==
  /\ pubs[s].phase = "provisional"
  /\ Take(k, s, "activate", pubs[s].revision + 1)
  /\ pubs' = [pubs EXCEPT ![s].phase = "public", ![s].revision = @ + 1]

Revise(k, s, playlist) ==
  /\ pubs[s].phase = "public"
  /\ Take(k, s, "replace", pubs[s].revision + 1)
  /\ pubs' = [pubs EXCEPT ![s].playlist = playlist, ![s].revision = @ + 1]

Withdraw(k, s) ==
  /\ pubs[s].phase \in {"provisional", "public"}
  /\ Take(k, s, "delete", pubs[s].revision)
  /\ pubs' = [pubs EXCEPT ![s] = Gone]

\* Any number of provisional publications lapse together.
Lapse ==
  \E S \in SUBSET {s \in ShareIds : pubs[s].phase = "provisional"} :
    /\ pubs' = [s \in ShareIds |-> IF s \in S THEN Gone ELSE pubs[s]]
    /\ UNCHANGED done

Hide(s) ==
  /\ pubs[s].phase \in {"provisional", "public"}
  /\ pubs' = [pubs EXCEPT ![s].hidden = TRUE]
  /\ UNCHANGED done

\* Only what was hidden before is removed by the operator.
Remove(s) ==
  /\ pubs[s].hidden
  /\ pubs' = [pubs EXCEPT ![s] = Gone]
  /\ UNCHANGED done

Forget ==
  /\ UNCHANGED pubs
  /\ \E K \in SUBSET Keys :
       done' = [k \in Keys |-> IF k \in K THEN Unused ELSE done[k]]

LedgerNext ==
  \/ Forget
  \/ Lapse
  \/ \E s \in ShareIds : Hide(s) \/ Remove(s)
  \/ \E k \in Keys, s \in ShareIds :
       \/ Publish(k, s)
       \/ Withdraw(k, s)
       \/ \E playlist \in Playlists : Provision(k, s, playlist) \/ Revise(k, s, playlist)

LedgerSpec == LedgerInit /\ [][LedgerNext]_ledgerVars
===============================================================================
