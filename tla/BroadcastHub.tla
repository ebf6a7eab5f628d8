---------------------------- MODULE BroadcastHub ----------------------------
(***************************************************************************)
(* The broadcast service (services/broadcast/src): an Express app with one *)
(* POST route per kind of event and an endless GET /events per listener.   *)
(* A handler runs to its end in one turn of the event loop, so a route is  *)
(* one action.  There is no replay: an event is written to the streams of  *)
(* that moment and forgotten.                                              *)
(*                                                                         *)
(* A body is the set of its field names; values are abstracted.  A stream  *)
(* is an HTTP connection: link[c] is its transport, wire[c] what the hub   *)
(* has written to it and the other end has not read.                       *)
(***************************************************************************)
EXTENDS Naturals, Sequences, FiniteSets

CONSTANTS
  Streams,        \* connections that may ask for GET /events
  Credentials,    \* stream -> [bearer, header, query], tokens it presents
  Configured,     \* service -> the token its environment variable holds
  Passcodes, AdminPasscode,
  Bodies,         \* bodies that are posted, as sets of field names
  MaxPublished,   \* bound on the events of a behaviour
  MaxDrops,       \* bound on the connections the network breaks
  NoToken

ASSUME HubAssumption ==
  /\ MaxPublished \in Nat /\ MaxDrops \in Nat
  /\ \A c \in Streams : DOMAIN Credentials[c] = {"bearer", "header", "query"}

VARIABLES
  link,        \* stream -> "unused", "requested", "up", "broken", "refused"
  clients,     \* streams registered in eventBus
  wire,        \* stream -> written and unread events, by number
  published,   \* history: every event broadcast, in order
  drops

hubVars == <<link, clients, wire, published, drops>>

ResortWide == "resort-wide"
Channels == {"airport", "hotel", "beach", "crab", "parrot", "broadcast", ResortWide}

(* Which channels a service may receive, in the order they are searched. *)
SERVICE_REGISTRY ==
  << [name |-> "frontend", allowedChannels |-> Channels],
     [name |-> "hotel",    allowedChannels |-> {}],
     [name |-> "beach",    allowedChannels |-> {"hotel"}],
     [name |-> "airport",  allowedChannels |-> {}],
     [name |-> "parrot",   allowedChannels |-> {}] >>

(* A bearer token, else a service header, else the query parameter. *)
ExtractToken(req) ==
  CASE req.bearer # NoToken -> req.bearer
    [] req.bearer = NoToken /\ req.header # NoToken -> req.header
    [] OTHER -> req.query

(* The registry rows whose configured token is the one presented. *)
Identities ==
  [c \in Streams |->
     {i \in DOMAIN SERVICE_REGISTRY :
        /\ ExtractToken(Credentials[c]) # NoToken
        /\ Configured[SERVICE_REGISTRY[i].name] = ExtractToken(Credentials[c])}]

AllowedChannels ==
  [c \in {d \in Streams : Identities[d] # {}} |->
     LET first == CHOOSE i \in Identities[c] : \A j \in Identities[c] : i <= j
     IN  SERVICE_REGISTRY[first].allowedChannels]

-----------------------------------------------------------------------------
(* Schemas: the fields a body must have and the only ones it may have. *)
BaseFields == {"message", "guest_id", "guest_name"}
Strict(required, optional) == [required |-> required, known |-> required \cup optional]

AirportArrivalSchema == Strict({}, BaseFields \cup {"gate", "passport_type"})
HotelEventSchema ==
  Strict({}, BaseFields \cup {"reservation_id", "room_type", "guest_count",
                              "check_in_day", "check_out_day"})
BeachEventSchema == Strict({}, BaseFields \cup {"activity"})
CrabOrderSchema == Strict({}, BaseFields \cup {"order_id", "items", "total"})
CrabSoldOutSchema == Strict({}, BaseFields \cup {"item_id", "name"})
CursedEventSchema == Strict({"guest_id", "message", "triggered_word"}, {})
PublicAnnouncementSchema == Strict({"guestName", "message"}, {})
AdminAnnouncementSchema == Strict({"message"}, {"sender"})

(* A body that fails its schema is answered 400 and nothing else happens. *)
ParseBody(schema, body) ==
  /\ schema.required \subseteq body
  /\ body \subseteq schema.known

(* Mutant: the write to a dead socket throws and ends the loop. *)
BroadcastMutant(event) ==
  /\ published' = Append(published, event)
  /\ wire' = [c \in Streams |->
                IF /\ c \in clients
                   /\ \A d \in clients : link[d] = "up"
                   /\ event.channel \in AllowedChannels[c]
                THEN Append(wire[c], Len(published) + 1)
                ELSE wire[c]]

(* One synchronous loop over the clients; a write to a dead socket is lost. *)
Broadcast(event) ==
  /\ published' = Append(published, event)
  /\ wire' = [c \in Streams |->
                IF /\ c \in clients
                   /\ link[c] = "up"
                   /\ event.channel \in AllowedChannels[c]
                THEN Append(wire[c], Len(published) + 1)
                ELSE wire[c]]

(* data is what the route does not move into fields of its own. *)
Publish(channel, type, schema, moved) ==
  /\ Len(published) < MaxPublished
  /\ \E body \in Bodies :
       /\ ParseBody(schema, body)
       /\ Broadcast([channel |-> channel, event_type |-> type, data |-> body \ moved])
  /\ UNCHANGED <<link, clients, drops>>

AirportArrival == Publish("airport", "airport.arrival", AirportArrivalSchema, BaseFields)
HotelConfirm == Publish("hotel", "hotel.reservation_confirmed", HotelEventSchema, BaseFields)
HotelCancel == Publish("hotel", "hotel.reservation_cancelled", HotelEventSchema, BaseFields)
BeachFull == Publish("beach", "beach.activity_full", BeachEventSchema, BaseFields)
BeachAvailable == Publish("beach", "beach.activity_available", BeachEventSchema, BaseFields)
CrabOrder == Publish("crab", "crab.order_placed", CrabOrderSchema, BaseFields)
CrabSoldOut == Publish("crab", "crab.sold_out", CrabSoldOutSchema, BaseFields)
Cursed == Publish("parrot", "parrot.cursed", CursedEventSchema, {"guest_id", "message"})
PublicAnnouncement ==
  Publish("broadcast", "public.announcement", PublicAnnouncementSchema,
          {"guestName", "message"})

RequireAdmin == \E provided \in Passcodes : provided = AdminPasscode
AdminAnnouncement ==
  /\ RequireAdmin
  /\ Publish(ResortWide, "admin.announcement", AdminAnnouncementSchema,
             {"message", "sender"})

-----------------------------------------------------------------------------
(* GET /events with a known token: register the stream, or answer 401. *)
AddClient(c) ==
  /\ link[c] = "requested"
  /\ Identities[c] # {}
  /\ link' = [link EXCEPT ![c] = "up"]
  /\ clients' = clients \cup {c}
  /\ UNCHANGED <<wire, published, drops>>

RefuseClient(c) ==
  /\ link[c] = "requested"
  /\ Identities[c] = {}
  /\ link' = [link EXCEPT ![c] = "refused"]
  /\ UNCHANGED <<clients, wire, published, drops>>

(* The close event of a request whose connection is gone. *)
RemoveClient(c) ==
  /\ c \in clients
  /\ link[c] = "broken"
  /\ clients' = clients \ {c}
  /\ UNCHANGED <<link, wire, published, drops>>

(* The network: a connection breaks and what was on it is lost. *)
Drop(c) ==
  /\ link[c] \in {"requested", "up"}
  /\ drops < MaxDrops
  /\ drops' = drops + 1
  /\ link' = [link EXCEPT ![c] = "broken"]
  /\ wire' = [wire EXCEPT ![c] = <<>>]
  /\ UNCHANGED <<clients, published>>

HubInit ==
  /\ clients = {}
  /\ wire = [c \in Streams |-> <<>>]
  /\ published = <<>>
  /\ drops = 0

Routes ==
  \/ AirportArrival
  \/ HotelConfirm
  \/ HotelCancel
  \/ BeachFull
  \/ BeachAvailable
  \/ CrabOrder
  \/ CrabSoldOut
  \/ Cursed
  \/ PublicAnnouncement
  \/ AdminAnnouncement
=============================================================================
