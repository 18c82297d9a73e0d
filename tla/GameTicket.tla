------------------------------ MODULE GameTicket ------------------------------
(***************************************************************************)
(* The collection of launch tickets of one account and the operations of   *)
(* cyberia-game-ticket.service.js on it.  A ticket names the world it      *)
(* opens and the portal session that asked for it; a resume ticket also    *)
(* names the profile epoch it continues, a launch ticket has epoch 0 (null *)
(* in the code).  The connection that consumed a ticket stays in it, so    *)
(* conn # NoConn stands for consumedAt # null.  Time is abstract: fresh    *)
(* says expiresAt > now, and TicketExpires may come at any moment.         *)
(***************************************************************************)
EXTENDS Naturals, FiniteSets

CONSTANTS Conns,           \* WebSocket connections of game clients
          Worlds,          \* instance codes
          Portals,         \* entries of User.activeSessions of the account
          NoConn,          \* the connection of an unconsumed ticket
          OpenTicketsMax,  \* OPEN_TICKETS_MAX
          MaxTickets       \* bound of the model: tickets ever inserted

ASSUME NoConnAssumption == NoConn \notin Conns
ASSUME TicketBoundAssumption == OpenTicketsMax \in Nat \ {0} /\ MaxTickets \in Nat

VARIABLES tickets,         \* the stored tickets
          issued           \* the number of tickets inserted so far

ticketVars == <<tickets, issued>>

Ticket == [id: 1..MaxTickets, world: Worlds, portal: Portals, epoch: Nat,
           fresh: BOOLEAN, conn: Conns \cup {NoConn}]

TicketTypeOK == /\ tickets \in SUBSET Ticket
                /\ issued \in 0..MaxTickets

TicketInit == tickets = {} /\ issued = 0

IsResume(t) == t.epoch # 0

OpenTickets == {t \in tickets : t.conn = NoConn /\ t.fresh /\ ~IsResume(t)}

(* insertTicket: a fresh ticket joins the tickets that are kept.           *)
InsertTicket(portal, world, epoch, kept) ==
    /\ issued < MaxTickets
    /\ issued' = issued + 1
    /\ tickets' = kept \cup {[id |-> issued + 1, world |-> world, portal |-> portal,
                              epoch |-> epoch, fresh |-> TRUE, conn |-> NoConn]}

(* createGameTicket, for a world some server takes sessions of.            *)
CreateGameTicket(portal, world) ==
    /\ Cardinality(OpenTickets) < OpenTicketsMax
    /\ InsertTicket(portal, world, 0, tickets)

(* What a new resume ticket replaces: the unconsumed resume tickets of its *)
(* portal session, expired ones included.                                  *)
Replaced(t, portal) == t.portal = portal /\ IsResume(t) /\ t.conn = NoConn

CreateResumeTicket(portal, world, epoch) ==
    InsertTicket(portal, world, epoch, {t \in tickets : ~Replaced(t, portal)})

(* Mutant: the update does not ask that the ticket is unconsumed.          *)
ConsumableTwice(t, world) == t.fresh /\ t.world = world

(* The filter of the update of consumeGameTicket.                          *)
Consumable(t, world) == t.conn = NoConn /\ t.fresh /\ t.world = world

(* consumeGameTicket: the one update that marks the ticket consumed.  The  *)
(* unique index on connection refuses a second ticket of one connection.   *)
ConsumeGameTicket(t, world, c) ==
    /\ Consumable(t, world)
    /\ \A other \in tickets : other.conn # c
    /\ tickets' = (tickets \ {t}) \cup {[t EXCEPT !.conn = c]}
    /\ UNCHANGED issued

(* Only an unconsumed ticket tells whether it expired.                     *)
TicketExpires(t) ==
    /\ t.fresh /\ t.conn = NoConn
    /\ tickets' = (tickets \ {t}) \cup {[t EXCEPT !.fresh = FALSE]}
    /\ UNCHANGED issued

(* ticketOfConnection, as a set of at most one ticket.                     *)
TicketOfConnection(c) == {t \in tickets : t.conn = c}
===============================================================================
