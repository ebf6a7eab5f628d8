----------------------------- MODULE MCLiveFeed -----------------------------
(***************************************************************************)
(* A page that opens up to three streams, the beach service, and a caller  *)
(* with a token nobody configured.                                         *)
(***************************************************************************)
EXTENDS LiveFeed

BeachService == 11
Stranger == 12
MCStreams == BrowserStreams \cup {BeachService, Stranger}

MCCredentials ==
  LET none == [bearer |-> NoToken, header |-> NoToken, query |-> NoToken]
  IN  [c \in MCStreams |->
         CASE c = BeachService -> [none EXCEPT !.bearer = "beach-token"]
           [] c = Stranger -> [none EXCEPT !.header = "old-token"]
           [] OTHER -> [none EXCEPT !.query = "fe-token"]]

MCConfigured ==
  [frontend |-> "fe-token", hotel |-> "hotel-token", beach |-> "beach-token",
   airport |-> "airport-token", parrot |-> NoToken]

(* One body per schema, and one only an availability event of the beach    *)
(* with its capacity would have.                                           *)
MCBodies == {{"message"}, {"activity", "activityId", "remaining"},
             {"guest_id", "message", "triggered_word"}, {"guestName", "message"}}
=============================================================================
