---------------------------- MODULE IslandSession ----------------------------
(***************************************************************************)
(* The frontend's session and pages: the session store kept in             *)
(* sessionStorage, the guest selection page with its admin side, the map   *)
(* page behind RequireSession with one open zone panel, and the quit page. *)
(* A handler and the synchronous renders it causes are one action.         *)
(***************************************************************************)
EXTENDS Naturals

CONSTANTS
  Guests, Zones,
  Passcodes,       \* what somebody may type into the admin form
  AdminPasscode,   \* env.adminPasscode
  NoGuest, NoZone

VARIABLES
  session,      \* store: [role, guest, passcode]
  guest,        \* store: the selected guest, kept beside the session
  isAdmin,      \* store: kept beside the session
  stored,       \* what sessionStorage holds: [session, guest]
  path,         \* "/", "/map" or "/quit"
  flipped,      \* the selection page shows its admin side
  activeZone    \* the zone whose panel is open

sessionVars == <<session, guest, isAdmin, stored>>
pageVars == <<path, flipped, activeZone>>

NoSession == [role |-> "none", guest |-> NoGuest, passcode |-> ""]
GuestSession(g) == [role |-> "guest", guest |-> g, passcode |-> ""]
AdminSession(p) == [role |-> "admin", guest |-> NoGuest, passcode |-> p]

(* Every set() of the store is written through; only session is persisted. *)
Persist(s) == stored' = [session |-> s, guest |-> NoGuest]

SelectGuest(g) ==
  /\ session' = GuestSession(g)
  /\ guest' = g
  /\ isAdmin' = FALSE
  /\ Persist(GuestSession(g))

LoginAdmin(p) ==
  /\ session' = AdminSession(p)
  /\ guest' = NoGuest
  /\ isAdmin' = TRUE
  /\ Persist(AdminSession(p))

ClearSession ==
  /\ session' = NoSession
  /\ guest' = NoGuest
  /\ isAdmin' = FALSE
  /\ Persist(NoSession)

(* migrateSessionState: a stored session, else the guest an older version  *)
(* stored, else nothing.  Mutant: only the session itself is restored.     *)
MigrateMutant(s) ==
  [session |-> s.session, guest |-> NoGuest, isAdmin |-> FALSE]
Migrate(s) ==
  CASE s.session.role # "none" -> [session |-> s.session, guest |-> s.session.guest,
                                   isAdmin |-> s.session.role = "admin"]
    [] s.session.role = "none" /\ s.guest # NoGuest ->
         [session |-> GuestSession(s.guest), guest |-> s.guest, isAdmin |-> FALSE]
    [] OTHER -> [session |-> NoSession, guest |-> NoGuest, isAdmin |-> FALSE]

-----------------------------------------------------------------------------
(* Where p leads for session s: RequireSession sends /map to / without one. *)
RequireSession(p, s) == IF p = "/map" /\ s = NoSession THEN "/" ELSE p

OnMap == path = "/map"

Goto(p) ==
  /\ path' = p
  /\ activeZone' = NoZone
  /\ flipped' = FALSE

HandleSelectGuest(g) == path = "/" /\ ~flipped /\ SelectGuest(g) /\ Goto("/map")

(* The admin form: a configured passcode that matches, or an error message. *)
HandleAdminLogin(p) ==
  /\ path = "/" /\ flipped
  /\ AdminPasscode # "" /\ p = AdminPasscode
  /\ LoginAdmin(p)
  /\ Goto("/map")

Flip ==
  /\ path = "/"
  /\ flipped' = ~flipped
  /\ UNCHANGED <<sessionVars, path, activeZone>>

HandleSwitchSession == OnMap /\ ClearSession /\ Goto("/")

(* Quit, or the address bar, back and forward without a reload: the quit   *)
(* page clears the session when it appears.                                *)
Navigate(p) ==
  /\ p # path
  /\ Goto(RequireSession(p, session))
  /\ IF p = "/quit" THEN ClearSession ELSE UNCHANGED sessionVars

(* A reload starts the store from its storage and the page from its path. *)
Reload ==
  LET m == Migrate(stored)
  IN  /\ session' = m.session
      /\ guest' = m.guest
      /\ isAdmin' = m.isAdmin
      /\ Goto(RequireSession(path, m.session))
      /\ UNCHANGED stored

ClickZone(z) ==
  /\ OnMap
  /\ activeZone' = z
  /\ UNCHANGED <<sessionVars, path, flipped>>

(* The close button, or Escape while a panel is open. *)
ClosePanel ==
  /\ OnMap /\ activeZone # NoZone
  /\ activeZone' = NoZone
  /\ UNCHANGED <<sessionVars, path, flipped>>

(* A tab opens on any page with what an earlier visit, possibly of an      *)
(* older version, left in its storage.                                     *)
SessionInit ==
  /\ stored \in [session : {NoSession} \cup {GuestSession(g) : g \in Guests},
                 guest : Guests \cup {NoGuest}]
  /\ session = Migrate(stored).session
  /\ guest = Migrate(stored).guest
  /\ isAdmin = Migrate(stored).isAdmin
  /\ path \in {"/", RequireSession("/map", session)}
  /\ flipped = FALSE
  /\ activeZone = NoZone

(* Steps that keep the map page as it is, and steps that leave or enter it. *)
StayOnPage ==
  \/ Flip
  \/ \E z \in Zones : ClickZone(z)
  \/ ClosePanel

ChangePage ==
  \/ \E g \in Guests : HandleSelectGuest(g)
  \/ \E p \in Passcodes : HandleAdminLogin(p)
  \/ HandleSwitchSession
  \/ \E p \in {"/", "/map", "/quit"} : Navigate(p)
  \/ Reload

(* However a session came about (selected, logged in, restored from either *)
(* version of the storage), its three copies in the store and the one a    *)
(* reload would restore say the same, and the map is never shown without.  *)
SessionCoherent ==
  /\ guest = session.guest
  /\ isAdmin <=> session.role = "admin"
  /\ Migrate(stored).session = session
  /\ OnMap => session # NoSession
=============================================================================
