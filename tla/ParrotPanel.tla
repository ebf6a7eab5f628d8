----------------------------- MODULE ParrotPanel -----------------------------
(***************************************************************************)
(* The guest's chat with the parrot: a history loaded once a visit, which  *)
(* useParrotChat extends by itself when a reply arrives, and the turn that *)
(* failed last.  The gateway spreads the requests over several instances   *)
(* of the service, and each keeps conversations of its own.  A turn, the   *)
(* question and its reply, is the number of the POST that asked it and the *)
(* text of the question.                                                   *)
(***************************************************************************)
EXTENDS AirportPanel, SequencesExt

CONSTANTS
  Parrots,     \* instances of the service
  Messages,    \* what a guest may ask
  MaxTurns     \* turns an instance keeps of a conversation

VARIABLES
  conversation,   \* instance -> guest -> turns kept, oldest first
  failedTurn      \* <<>>, or the question the open panel shows as failed

HistoryKey(g) == <<"history", g>>
History == q[HistoryKey(who)]

(* A loaded history.  Of its fields the panel knows turns; the instance it *)
(* was read from and the last POST sent before are there for the property. *)
Thread(from, since, turns) == [from |-> from, since |-> since, turns |-> turns]

SendMessage ==
  /\ panel = "parrot"
  /\ Landed
  /\ ~Loading(History) /\ History.data # <<>>
  /\ ~IsPending({"chat"})
  /\ failedTurn' = <<>>
  /\ \E text \in Messages : Mutate("chat", who, text)
  /\ UNCHANGED conversation

RetryFailedMessage ==
  /\ panel = "parrot"
  /\ Landed
  /\ History.status = "success"
  /\ failedTurn # <<>>
  /\ ~IsPending({"chat"})
  /\ failedTurn' = <<>>
  /\ Mutate("chat", who, failedTurn[1])
  /\ UNCHANGED conversation

(* appendMessagesToHistory, with the text as the guest typed it.           *)
(* Mutant: the earlier messages are forgotten.                             *)
AppendTurnMutant(data, turn) ==
  IF data = <<>> THEN Thread(Nobody, sent, <<turn>>) ELSE [data[1] EXCEPT !.turns = <<turn>>]
AppendTurn(data, turn) ==
  IF data = <<>> THEN Thread(Nobody, sent, <<turn>>) ELSE [data[1] EXCEPT !.turns = Append(@, turn)]

(* s has turn m before turn n. *)
Before(s, m, n) == \E a, b \in DOMAIN s : a < b /\ s[a][1] = m /\ s[b][1] = n

(* The ghost crossing: a fetch has brought the turn already, or a turn     *)
(* that an instance keeps after it.                                        *)
OnReply(p) ==
  LET entry == q[HistoryKey(p.guest)]
      crossing == entry.data # <<>> /\ \E u \in ToSet(entry.data[1].turns) :
                    \/ u[1] = p.n
                    \/ \E i \in Parrots : Before(conversation[i][p.guest], p.n, u[1])
  IN  /\ p.op = "chat"
      /\ OnSuccess(p, [q EXCEPT ![HistoryKey(p.guest)] =
                         [Stored(entry, AppendTurn(entry.data, <<p.n, p.arg>>))
                            EXCEPT !.missed = @ \/ crossing]])
      /\ failedTurn' = IF p.shown THEN <<>> ELSE failedTurn
      /\ UNCHANGED conversation

OnChatError(p) ==
  /\ p.op = "chat"
  /\ OnMutationError(p)
  /\ failedTurn' = IF p.shown THEN <<p.arg>> ELSE failedTurn
  /\ UNCHANGED conversation

-----------------------------------------------------------------------------
(* The gateway's round robin: all its clients share the counter, so that   *)
(* any instance may be next for this one.                                  *)
Pick == Parrots

(* mask_profanity: a masked text stays as it is. *)
Mask(text) == IF text = "rude" THEN "masked" ELSE text

Trim(turns) == IF Len(turns) > MaxTurns THEN Tail(turns) ELSE turns

(* An instance keeps the masked text; 502 when the model does not answer. *)
PostChat(p, i) ==
  /\ p.op = "chat"
  /\ p.phase = "sent"
  /\ \/ /\ conversation' = [conversation EXCEPT ![i][p.guest] =
                                 Trim(Append(@, <<p.n, Mask(p.arg)>>))]
        /\ Replied(p, "ok", p.arg)
     \/ /\ Replied(p, "error", p.arg)
        /\ UNCHANGED conversation
  /\ UNCHANGED <<q, page, counters, failedTurn>>

GetHistory(g, i) ==
  /\ Answer(HistoryKey(g), <<Thread(i, sent, conversation[i][g])>>)
  /\ UNCHANGED <<conversation, failedTurn>>

(* cleanup(): a conversation nobody has used for long, or one too many.    *)
(* Nobody can tell when it went until a request comes that uses it.        *)
Expire(g, i) ==
  /\ conversation[i][g] # <<>>
  /\ \/ q[HistoryKey(g)].flight = "sent"
     \/ \E p \in posts : p.op = "chat" /\ p.guest = g /\ p.phase = "sent"
  /\ upsets < MaxUpsets
  /\ conversation' = [conversation EXCEPT ![i][g] = <<>>]
  /\ upsets' = upsets + 1
  /\ UNCHANGED <<q, page, posts, sent, visits, failedTurn>>

ParrotStep ==
  \/ SendMessage
  \/ RetryFailedMessage
  \/ \E p \in posts : OnReply(p) \/ OnChatError(p)
  \/ \E p \in posts, i \in Pick : PostChat(p, i)
  \/ \E g \in Guests, i \in Pick : GetHistory(g, i)
  \/ \E g \in Guests, i \in Parrots : Expire(g, i)
=============================================================================
