----------------------------- MODULE QueryCache ------------------------------
(***************************************************************************)
(* The react-query cache the frontend's panels share, as main.tsx sets it  *)
(* up (no retries, data stale at once) and as the hooks use it.  An entry  *)
(* holds the last data, if any, and at most one fetch; a fetch reads the   *)
(* service at one moment and its answer arrives at a later one.  Two ghost *)
(* fields say that a write of this tab may be missing: crossed, from the   *)
(* answer under way, and missed, from the data.                            *)
(***************************************************************************)
EXTENDS Naturals, Sequences, FiniteSets

VARIABLE q    \* key -> entry

(* data and answer are <<>> or <<value>>. *)
Fresh == [data |-> <<>>, status |-> "pending", flight |-> "idle", answer |-> <<>>,
          missed |-> FALSE, crossed |-> FALSE]

Begin(e) ==
  [e EXCEPT !.flight = "sent", !.answer = <<>>, !.crossed = FALSE,
            !.status = IF e.data = <<>> THEN "pending" ELSE @]

(* Mounting an observer fetches, unless a fetch is under way already. *)
Mounted(e) == IF e.flight = "idle" THEN Begin(e) ELSE e

(* invalidateQueries refetches what is on screen, in place of a fetch that *)
(* is under way; but a first load is joined, and what is off screen waits  *)
(* for its next mount.                                                     *)
Invalidated(e, observed) ==
  IF observed /\ (e.flight = "idle" \/ e.data # <<>>)
  THEN Begin(e)
  ELSE [e EXCEPT !.crossed = e.flight = "read"]

(* setQueryData leaves a fetch under way alone. *)
Stored(e, value) ==
  [e EXCEPT !.data = <<value>>, !.status = "success", !.crossed = e.flight = "read"]

(* A write that nothing tells the entry about. *)
Overlooked(e) == [e EXCEPT !.missed = TRUE, !.crossed = e.flight = "read"]

(* A failed fetch keeps the data there is. *)
Settled(e) ==
  IF e.flight = "read"
  THEN [Fresh EXCEPT !.data = e.answer, !.status = "success", !.missed = e.crossed]
  ELSE [e EXCEPT !.status = "error", !.flight = "idle", !.crossed = FALSE]

(* isLoading of a mounted query *)
Loading(e) == e.status = "pending"
=============================================================================
