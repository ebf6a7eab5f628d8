------------------------------ MODULE MCHotel ------------------------------
(* Two standard rooms and a suite.  The stays overlap by several nights,    *)
(* meet on a single day or lie apart; one has its dates the wrong way       *)
(* round, one names a guest twice, one is too large for a standard room.    *)
EXTENDS HotelReservations, TLC

MCRoomType == (1 :> "STANDARD") @@ (2 :> "STANDARD") @@ (3 :> "SUITE")
MCCapacity == (1 :> 1) @@ (2 :> 2) @@ (3 :> 3)

Stay(type, guests, party, in, out) ==
  [type |-> type, guest_count |-> guests, party |-> party, in |-> in, out |-> out]

MCStays ==
  { Stay("STANDARD", 1, <<>>, 0, 3), Stay("STANDARD", 1, <<"a", "b">>, 1, 2),
    Stay("STANDARD", 2, <<>>, 3, 4), Stay("STANDARD", 3, <<>>, 0, 1),
    Stay("SUITE", 1, <<"a", "a">>, 0, 1), Stay("SUITE", 3, <<>>, 2, 2) }

MCOneRoomStays == { Stay("SUITE", 1, <<>>, 0, 2), Stay("SUITE", 2, <<>>, 1, 3) }
=============================================================================
