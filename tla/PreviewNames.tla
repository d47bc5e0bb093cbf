------------------------------ MODULE PreviewNames -----------------------------
(***************************************************************************)
(* A public preview name is served by two transports with separate         *)
(* namespaces: the relays and the polling gateway.  Each asks the other    *)
(* before it gives the name away (isPreviewNameClaimed of both), wired to  *)
(* each other in examples/preview-gateway/api/index.ts.                    *)
(***************************************************************************)
EXTENDS PreviewGateway

CONSTANT Home   \* the relay in the process of the gateway

ASSUME HomeAssumption == Home \in Relays

ASSUME OwnerAssumption ==
  /\ Owner \in [Agents \cup Pollers -> MaybeOwner]
  /\ None \notin MaybeOwner

vars == <<relayVars, visitorVars, gatewayVars>>

TypeOK ==
  /\ RelayTypeOK /\ VisitorsTypeOK /\ GatewayTypeOK
  /\ lapsed \subseteq Agents \cup Pollers

Init == RelayInit /\ VisitorsInit /\ GatewayInit /\ lapsed = {}

(* A live holder blocks the caller unless both are the same verified owner. *)
Blocks(holder, owner) == owner = NoOwner \/ holder # owner

-----------------------------------------------------------------------------
(* The relay asks the gateway                                              *)

AskGateway(s) ==
  /\ Asks(s, "asking",
          (Online(name) /\ Blocks(Owner[name], Owner[s])) \/ SessionHolds(name, Owner[s]),
          "askingReserved")
  /\ UNCHANGED <<visitorVars, gatewayVars>>

AskReservation(s) ==
  /\ Asks(s, "askingReserved", Held(reservation, Owner[s]), "vacant")
  /\ UNCHANGED <<visitorVars, gatewayVars>>

(* The gateway asks the relay                                              *)

ServedLocally(r, owner) ==
  \/ /\ agents[r] # None
     /\ sock[agents[r]] = "open"
     /\ Blocks(Owner[agents[r]], owner)
  \/ pendingClaims[r] # None /\ Blocks(pendingClaims[r], owner)

AskRelay(g) ==
  /\ AsksRelay(g, "asking", ServedLocally(Home, Owner[g]), "askingCoordinator")
  /\ UNCHANGED <<relayVars, visitorVars>>

(* Mutant: the sessions of other relays are not asked for.                 *)
AskNoCoordinator(g) ==
  /\ AsksRelay(g, "askingCoordinator", FALSE, "askingHeld")
  /\ UNCHANGED <<relayVars, visitorVars>>

AskCoordinator(g) ==
  /\ \/ claim # None /\ AsksRelay(g, "askingCoordinator", FALSE, "askingOwner")
     \/ claim = None /\ AsksRelay(g, "askingCoordinator", FALSE, "askingHeld")
  /\ UNCHANGED <<relayVars, visitorVars>>

AskOwner(g) ==
  /\ AsksRelay(g, "askingOwner", Blocks(nameOwner, Owner[g]), "askingHeld")
  /\ UNCHANGED <<relayVars, visitorVars>>

AskHeld(g) ==
  /\ AsksRelay(g, "askingHeld", LocallyHeld(Home, Owner[g]), "askingBinding")
  /\ UNCHANGED <<relayVars, visitorVars>>

AskBinding(g) ==
  /\ AsksRelay(g, "askingBinding", Held(nameOwner, Owner[g]), "accepting")
  /\ UNCHANGED <<relayVars, visitorVars>>

-----------------------------------------------------------------------------
Lapses(g) ==
  /\ HeartbeatMissed(g)
  /\ lapsed' = lapsed \cup {g}
  /\ UNCHANGED <<pc, sock, agents, reservations, pendingClaims, redisVars, bound, visitorVars>>

PollerStep(g) ==
  \/ FindSession(g) \/ FindReservation(g) \/ StoreSession(g) \/ RejectSession(g)
  \/ AcceptSession(g) \/ MarkSessionOnline(g) \/ TouchedByVisitor(g)
  \/ Release(g) \/ FindCurrent(g) \/ ReserveBeforeDelete(g) \/ ReleaseDeletes(g)
  \/ SessionExpires(g)

(* A detach also fails the requests pending on the session.                *)
Detaches(s) ==
  /\ SocketClosed(s) \/ GrantExpires(s)
  /\ VisitorsDetached(s)
  /\ UNCHANGED gatewayVars

Next ==
  \/ \E s \in Agents : RelayStep(s) /\ UNCHANGED <<visitorVars, gatewayVars>>
  \/ \E s \in Agents : Detaches(s) \/ AskGateway(s) \/ AskReservation(s)
  \/ \E s \in Agents : (NothingTaken(s) \/ AccessDenied(s)) /\ UNCHANGED gatewayVars
  \/ \E r \in Relays : Crash(r) /\ VisitorsCrashed(r) /\ UNCHANGED gatewayVars
  \/ \E r \in Relays : ReservationExpires(r) /\ UNCHANGED <<visitorVars, gatewayVars>>
  \/ (ClaimExpires \/ NameOwnerExpires) /\ UNCHANGED <<visitorVars, gatewayVars>>
  \/ \E v \in Visitors : VisitorStep(v) /\ UNCHANGED gatewayVars
  \/ \E g \in Pollers : PollerStep(g) /\ UNCHANGED <<relayVars, visitorVars>>
  \/ \E g \in Pollers : AskRelay(g) \/ AskCoordinator(g) \/ AskOwner(g)
  \/ \E g \in Pollers : AskHeld(g) \/ AskBinding(g)
  \/ \E g \in Pollers : Lapses(g)
  \/ GatewayReservationExpires /\ UNCHANGED <<relayVars, visitorVars>>

Spec == Init /\ [][Next]_vars

-----------------------------------------------------------------------------
(* Properties                                                              *)

Serving(s) == pc[s] \in Attached

(* A session that serves the name and was never silent for too long holds  *)
(* the claim: the releases, rejections and late replies of other sessions  *)
(* do not take it away.  At most one relay serves the name this way.       *)
ServingHoldsClaim ==
  \A s \in Agents : Serving(s) /\ s \notin lapsed => claim = s

Serve(s, g) ==
  /\ Serving(s) /\ sock[s] = "open" /\ s \notin lapsed
  /\ creating[g] = "accepted" /\ g \in sessions /\ g \notin lapsed

SameOwner(s, g) == Owner[s] = Owner[g] /\ Owner[s] # NoOwner

(* A session of g's owner has bound the name in Redis.                     *)
BoundBefore(g) == Owner[g] # NoOwner /\ \E u \in bound : Owner[u] = Owner[g]

(* The process of the gateway does not see s in its own tables: s is on    *)
(* another relay, or shares its relay with a session that had lapsed.      *)
Remote(s) ==
  \/ RelayOf[s] # Home
  \/ \E t \in lapsed \cap Agents : RelayOf[t] = RelayOf[s]

(* "Two concurrent claims on different transports cannot both win" (the    *)
(* comments of both): a relay session and a polling session that serve the *)
(* name at once, neither of them lapsed, belong to the same verified owner. *)
TransportsExclusive ==
  \A s \in Agents, g \in Pollers : Serve(s, g) => SameOwner(s, g)

(* What the questions do guarantee: the transports both win only where the *)
(* relay session is out of sight of the process that took the polling      *)
(* session, and Redis still named the owner of the latter, who had bound   *)
(* the name before.  Nobody without an owner wins against a session.       *)
TransportsAgree ==
  \A s \in Agents, g \in Pollers :
    Serve(s, g) => SameOwner(s, g) \/ (Remote(s) /\ BoundBefore(g))

(* Only the session that holds the claim binds the name to an owner: one   *)
(* that is detached reserves before it releases, "so the name is never     *)
(* unowned in between" (relay.ts).  The writes of a session that has lost  *)
(* its claim and does not know it yet are not excluded.                    *)
BoundByHolder ==
  [][nameOwner' \notin {nameOwner, NoOwner} =>
       \E s \in Agents : Owner[s] = nameOwner' /\ (claim = s \/ s \in lapsed)]_vars

(* The name leads to the accepted polling session for as long as it is     *)
(* heard of: no release, rejection or takeover of another session moves it. *)
OnlineSessionKeepsName ==
  \A g \in sessions : g \notin lapsed => name = g

(* Each transport keeps the promise of LeasedName by its own means.        *)
RelayLease == INSTANCE LeasedName WITH
  Sessions <- Agents, Nobody <- None,
  holder <- claim, serving <- {s \in Agents : Serving(s)}, lapsed <- lapsed \cap Agents

GatewayLease == INSTANCE LeasedName WITH
  Sessions <- Pollers, Nobody <- None,
  holder <- name, serving <- sessions, lapsed <- lapsed \cap Pollers

(* A claim with a time to live, set before a registration asks anyone and  *)
(* touched by the pump, gives the name to one session at a time on however *)
(* many relays; rejected, late, replaced and crashed sessions free nobody  *)
(* else's.                                                                 *)
RelaysImplementLease == RelayLease!LeaseSpec

(* So does the table of polling sessions, although a name is taken over    *)
(* from a session found stale an await earlier, and releases, rejections   *)
(* and expiries delete sessions that may have been replaced.               *)
GatewayImplementsLease == GatewayLease!LeaseSpec

=============================================================================
