------------------------------ MODULE PreviewRelay -----------------------------
(***************************************************************************)
(* One preview name on the persistent relays                               *)
(* (packages/farm-preview-tunnel/src/relay.ts) and in the Redis they share *)
(* (examples/preview-gateway/lib/redis-coordinator.ts).  An agent opens a  *)
(* WebSocket on a relay and registers the name; every await of the handler *)
(* is a point where the others move.                                       *)
(*                                                                         *)
(* Time is not modelled: a claim of the coordinator may expire whenever    *)
(* its holder is slow to touch it, and the holder is then in "lapsed".     *)
(***************************************************************************)
EXTENDS Naturals, FiniteSets

CONSTANTS
  Agents,     \* the sockets; each registers at most one session
  Relays,
  RelayOf,    \* the relay an agent is connected to
  Owners,
  Owner,      \* the verified owner of each session, or NoOwner
  NoOwner,
  None

ASSUME RelayAssumption ==
  /\ RelayOf \in [Agents -> Relays]
  /\ NoOwner \notin Owners
  /\ None \notin Agents

VARIABLES
  pc,            \* where each agent's registration is
  sock,          \* readyState of its socket
  agents,        \* per relay: the session that serves the name
  reservations,  \* per relay: the owner the name is kept for
  pendingClaims, \* per relay: the agents between claim and registration
  claim,         \* Redis: names:<name>
  nameOwner,     \* Redis: owners:<name>
  bound,         \* history: the sessions whose binding reached Redis
  lapsed         \* history: the sessions that were silent for too long

redisVars == <<claim, nameOwner>>
relayVars == <<pc, sock, agents, reservations, pendingClaims, redisVars, bound, lapsed>>

Registering == {"reading", "cleared", "claimed", "asking", "askingReserved", "vacant",
                "rejecting", "withdrawing"}
Attached    == {"binding", "ready", "touched", "pumping"}
Detaching   == {"refreshing", "reserving", "releasing"}
MaybeOwner  == Owners \cup {NoOwner}

RelayTypeOK ==
  /\ pc \in [Agents -> {"idle", "refused", "gone"} \cup Registering \cup Attached \cup Detaching]
  /\ sock \in [Agents -> {"open", "closing", "closed"}]
  /\ agents \in [Relays -> Agents \cup {None}]
  /\ reservations \in [Relays -> MaybeOwner]
  /\ pendingClaims \in [Relays -> MaybeOwner \cup {None}]
  /\ claim \in Agents \cup {None}
  /\ nameOwner \in MaybeOwner
  /\ bound \subseteq Agents

RelayInit ==
  /\ pc = [s \in Agents |-> "idle"]
  /\ sock = [s \in Agents |-> "open"]
  /\ agents = [r \in Relays |-> None]
  /\ reservations = [r \in Relays |-> NoOwner]
  /\ pendingClaims = [r \in Relays |-> None]
  /\ claim = None
  /\ nameOwner = NoOwner
  /\ bound = {}

Goto(s, where) == pc' = [pc EXCEPT ![s] = where]

(* The name is bound to holder, and the caller is someone else.            *)
Held(holder, owner) == holder # NoOwner /\ holder # owner

-----------------------------------------------------------------------------
(* register                                                                *)

LocallyHeld(r, owner) ==
  \/ agents[r] # None /\ Held(Owner[agents[r]], owner)
  \/ Held(reservations[r], owner)

(* The agent is authenticated; a socket of this relay serves the name, or  *)
(* the name is held for another owner, or Redis is asked for the owner.    *)
Register(s) ==
  /\ pc[s] = "idle" /\ sock[s] = "open"
  /\ LET r == RelayOf[s]
     IN  Goto(s, IF \/ agents[r] # None /\ sock[agents[r]] = "open"
                    \/ LocallyHeld(r, Owner[s])
                 THEN "refused" ELSE "reading")
  /\ UNCHANGED <<sock, agents, reservations, pendingClaims, redisVars, bound, lapsed>>

FindNameOwner(s) ==
  /\ pc[s] = "reading"
  /\ Goto(s, IF Held(nameOwner, Owner[s]) THEN "refused" ELSE "cleared")
  /\ UNCHANGED <<sock, agents, reservations, pendingClaims, redisVars, bound, lapsed>>

(* claimSession: SET NX, or access is denied before, or the reply is lost  *)
(* and the claim stays in Redis with nobody behind it.                     *)
ClaimSession(s) ==
  /\ pc[s] = "cleared"
  /\ \/ /\ claim = None
        /\ claim' = s
        /\ \E to \in {"claimed", "refused"} : Goto(s, to)
     \/ UNCHANGED claim /\ Goto(s, "refused")
  /\ UNCHANGED <<sock, agents, reservations, pendingClaims, nameOwner, bound, lapsed>>

(* Mutant: the session is announced in place of its owner.                 *)
AnnounceClaimById(s) ==
  /\ pc[s] = "claimed"
  /\ pendingClaims' = [pendingClaims EXCEPT ![RelayOf[s]] = s]
  /\ Goto(s, IF sock[s] = "open" THEN "asking" ELSE "rejecting")
  /\ UNCHANGED <<sock, agents, reservations, redisVars, bound, lapsed>>

(* The claim is visible to the other transport before it is asked.  The    *)
(* answer of Redis to a release comes before its answer to a later claim,  *)
(* so who is still to withdraw here released before s claimed only if its  *)
(* claim had lapsed.                                                       *)
AnnounceClaim(s) ==
  /\ pc[s] = "claimed"
  /\ \A t \in Agents : pc[t] = "withdrawing" /\ RelayOf[t] = RelayOf[s] => t \in lapsed
  /\ pendingClaims' = [pendingClaims EXCEPT ![RelayOf[s]] = Owner[s]]
  /\ Goto(s, IF sock[s] = "open" THEN "asking" ELSE "rejecting")
  /\ UNCHANGED <<sock, agents, reservations, redisVars, bound, lapsed>>

(* One step of the question; an answer that does not come is a yes.        *)
Asks(s, from, claimedElsewhere, to) ==
  /\ pc[s] = from
  /\ \E where \in {"rejecting"} \cup (IF claimedElsewhere THEN {} ELSE {to}) : Goto(s, where)
  /\ UNCHANGED <<sock, agents, reservations, pendingClaims, redisVars, bound, lapsed>>

(* Mutant: the claim is deleted whoever has it.                            *)
DeleteClaim(s) ==
  \/ claim' = None
  \/ UNCHANGED claim

(* releaseSession: deletes the claim if it is still this session's.        *)
ReleaseClaim(s) ==
  \/ claim' = IF claim = s THEN None ELSE claim
  \/ UNCHANGED claim

RejectClaim(s) ==
  /\ pc[s] = "rejecting"
  /\ ReleaseClaim(s)
  /\ Goto(s, "withdrawing")
  /\ UNCHANGED <<sock, agents, reservations, pendingClaims, nameOwner, bound, lapsed>>

(* Once the release is answered, or has failed: the entry of the name, be  *)
(* it another session's by now.                                            *)
Withdraw(s) ==
  /\ pc[s] = "withdrawing"
  /\ pendingClaims' = [pendingClaims EXCEPT ![RelayOf[s]] = None]
  /\ Goto(s, "refused")
  /\ UNCHANGED <<sock, agents, reservations, redisVars, bound, lapsed>>

ReserveLocally(s) ==
  reservations' = IF Owner[s] = NoOwner THEN reservations
                  ELSE [reservations EXCEPT ![RelayOf[s]] = Owner[s]]

Admit(s) ==
  /\ pc[s] = "vacant"
  /\ agents' = [agents EXCEPT ![RelayOf[s]] = s]
  /\ pendingClaims' = [pendingClaims EXCEPT ![RelayOf[s]] = None]
  /\ ReserveLocally(s)
  /\ Goto(s, "binding")
  /\ UNCHANGED <<sock, redisVars, bound, lapsed>>

(* The coordinator's half of reserveName: the write lands or is lost.      *)
BindName(s) ==
  \/ /\ nameOwner' = IF Owner[s] = NoOwner THEN nameOwner ELSE Owner[s]
     /\ bound' = bound \cup {s}
  \/ UNCHANGED <<nameOwner, bound>>

Bind(s) ==
  /\ pc[s] = "binding"
  /\ BindName(s)
  /\ Goto(s, "ready")
  /\ UNCHANGED <<sock, agents, reservations, pendingClaims, claim, lapsed>>

-----------------------------------------------------------------------------
(* pumpCoordinatedRequests: the claim is touched, then the binding, then a *)
(* request is waited for.                                                  *)

Touch(s) ==
  /\ pc[s] = "ready" /\ agents[RelayOf[s]] = s /\ sock[s] = "open"
  /\ IF claim = s
       THEN Goto(s, "touched") /\ UNCHANGED sock
       ELSE sock' = [sock EXCEPT ![s] = "closing"] /\ UNCHANGED pc
  /\ UNCHANGED <<agents, reservations, pendingClaims, redisVars, bound, lapsed>>

(* The pump ends with an error: whether the write has landed is not known. *)
PumpFails(s) ==
  /\ Goto(s, "ready")
  /\ sock' = IF sock[s] = "open" THEN [sock EXCEPT ![s] = "closing"] ELSE sock

(* The pump does not look whether the session was detached meanwhile.  If  *)
(* it was, the touch is answered before the binding that the detach wrote, *)
(* hence before the release that waits for that answer.                    *)
RefreshReservation(s) ==
  /\ \/ /\ pc[s] = "touched"
        /\ (Goto(s, "pumping") /\ UNCHANGED sock) \/ PumpFails(s)
     \/ pc[s] = "refreshing" /\ Goto(s, "reserving") /\ UNCHANGED sock
  /\ ReserveLocally(s)
  /\ BindName(s)
  /\ UNCHANGED <<agents, pendingClaims, claim, lapsed>>

-----------------------------------------------------------------------------
(* Closing                                                                 *)

(* Either side closes the socket.  Nobody looks at the socket of an agent  *)
(* whose registration has failed or is over.                               *)
Closes(s) ==
  /\ pc[s] \in Registering \cup Attached /\ sock[s] = "open"
  /\ sock' = [sock EXCEPT ![s] = "closing"]
  /\ UNCHANGED <<pc, agents, reservations, pendingClaims, redisVars, bound, lapsed>>

(* The name is kept for the owner, on this relay at once, unless a newer   *)
(* session of this relay has it, whose claim was answered after any touch  *)
(* of this one.                                                            *)
DetachSession(s) ==
  LET r == RelayOf[s]
      next == IF agents[r] = s THEN None ELSE agents[r]
  IN  /\ agents' = [agents EXCEPT ![r] = next]
      /\ IF next = None
           THEN /\ ReserveLocally(s)
                /\ Goto(s, IF pc[s] = "touched" THEN "refreshing" ELSE "reserving")
           ELSE Goto(s, "releasing") /\ UNCHANGED reservations

(* The close event finds no session while the agent is still registering.  *)
SocketClosed(s) ==
  /\ sock[s] = "closing" /\ pc[s] \in Registering \cup Attached
  /\ sock' = [sock EXCEPT ![s] = "closed"]
  /\ IF pc[s] \in Attached THEN DetachSession(s) ELSE UNCHANGED <<pc, agents, reservations>>
  /\ UNCHANGED <<pendingClaims, redisVars, bound, lapsed>>

(* The grant of an owned session expires.                                  *)
GrantExpires(s) ==
  /\ pc[s] \in Attached \ {"binding"} /\ Owner[s] # NoOwner
  /\ sock' = [sock EXCEPT ![s] = "closed"]
  /\ DetachSession(s)
  /\ UNCHANGED <<pendingClaims, redisVars, bound, lapsed>>

ReserveName(s) ==
  /\ pc[s] = "reserving"
  /\ BindName(s)
  /\ Goto(s, "releasing")
  /\ UNCHANGED <<sock, agents, reservations, pendingClaims, claim, lapsed>>

(* Mutant: the release does not wait for the reservation.                  *)
ReleaseAtOnce(s) ==
  /\ pc[s] \in {"reserving", "releasing"}
  /\ ReleaseClaim(s)
  /\ Goto(s, IF pc[s] = "releasing" THEN "gone" ELSE "reserving")
  /\ UNCHANGED <<sock, agents, reservations, pendingClaims, nameOwner, bound, lapsed>>

(* Only when the reservation is answered, or has failed.                   *)
ReleaseSession(s) ==
  /\ pc[s] = "releasing"
  /\ ReleaseClaim(s)
  /\ Goto(s, "gone")
  /\ UNCHANGED <<sock, agents, reservations, pendingClaims, nameOwner, bound, lapsed>>

-----------------------------------------------------------------------------
(* Time and crashes                                                        *)

ClaimExpires ==
  /\ claim # None
  /\ claim' = None
  /\ lapsed' = lapsed \cup {claim}
  /\ UNCHANGED <<pc, sock, agents, reservations, pendingClaims, nameOwner, bound>>

(* The time a name stays reserved is an option, and a refresh may be late  *)
(* or fail: neither the binding nor the reservation need outlive the claim. *)
NameOwnerExpires ==
  /\ nameOwner # NoOwner
  /\ nameOwner' = NoOwner
  /\ UNCHANGED <<pc, sock, agents, reservations, pendingClaims, claim, bound, lapsed>>

ReservationExpires(r) ==
  /\ reservations[r] # NoOwner
  /\ reservations' = [reservations EXCEPT ![r] = NoOwner]
  /\ UNCHANGED <<pc, sock, agents, pendingClaims, redisVars, bound, lapsed>>

Crash(r) ==
  /\ \E s \in Agents : RelayOf[s] = r /\ pc[s] \notin {"idle", "refused", "gone"}
  /\ LET here == {s \in Agents : RelayOf[s] = r /\ pc[s] # "idle"}
     IN  /\ pc' = [s \in Agents |-> IF s \in here THEN "gone" ELSE pc[s]]
         /\ sock' = [s \in Agents |-> IF s \in here THEN "closed" ELSE sock[s]]
  /\ agents' = [agents EXCEPT ![r] = None]
  /\ reservations' = [reservations EXCEPT ![r] = NoOwner]
  /\ pendingClaims' = [pendingClaims EXCEPT ![r] = None]
  /\ UNCHANGED <<redisVars, bound, lapsed>>

RelayStep(s) ==
  \/ Register(s) \/ FindNameOwner(s) \/ ClaimSession(s) \/ AnnounceClaim(s)
  \/ RejectClaim(s) \/ Withdraw(s) \/ Admit(s) \/ Bind(s) \/ Touch(s) \/ RefreshReservation(s)
  \/ Closes(s) \/ ReserveName(s) \/ ReleaseSession(s)

=============================================================================
