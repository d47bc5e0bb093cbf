----------------------------- MODULE PreviewGateway ----------------------------
(***************************************************************************)
(* The same preview name on the polling gateway                            *)
(* (packages/farm-preview-gateway/src/index.ts), one process over its      *)
(* MemoryPreviewGatewayStore, whose operations are atomic and whose        *)
(* records the handlers share: a client creates a session with one         *)
(* request, keeps it online with its polls, and deletes it.                *)
(***************************************************************************)
EXTENDS PreviewVisitors

CONSTANT Pollers   \* the session each creating request would make

ASSUME PollerAssumption ==
  /\ Pollers \cap Agents = {}
  /\ None \notin Pollers

VARIABLES
  creating,     \* where each POST /sessions is
  releasing,    \* where the release of each session is
  existing,     \* the session the handler found under the name
  sessions,     \* the sessions stored
  name,         \* the session the name leads to
  heartbeat,    \* how long ago the client was heard of
  reservation   \* the owner the name is kept for

gatewayVars == <<creating, releasing, existing, sessions, name, heartbeat, reservation>>

GatewayTypeOK ==
  /\ creating \in [Pollers -> {"idle", "reading", "vacant", "asking", "askingCoordinator",
                               "askingOwner", "askingHeld", "askingBinding", "rejecting",
                               "accepting", "refused", "accepted"}]
  /\ releasing \in [Pollers -> {"none", "reading", "reserving", "deleting"}]
  /\ existing \in [Pollers -> Pollers \cup {None}]
  /\ sessions \subseteq Pollers
  /\ name \in Pollers \cup {None}
  /\ heartbeat \in [Pollers -> {"recent", "missed", "forgotten"}]
  /\ reservation \in MaybeOwner

GatewayInit ==
  /\ creating = [g \in Pollers |-> "idle"]
  /\ releasing = [g \in Pollers |-> "none"]
  /\ existing = [g \in Pollers |-> None]
  /\ sessions = {}
  /\ name = None
  /\ heartbeat = [g \in Pollers |-> "recent"]
  /\ reservation = NoOwner

At(g, where) == creating' = [creating EXCEPT ![g] = where]

Online(g) == g # None /\ heartbeat[g] = "recent"

(* A session keeps its name for its owner until it is forgotten: the       *)
(* heartbeat timeout and the reservation window have passed.               *)
SessionHolds(g, owner) ==
  g # None /\ heartbeat[g] # "forgotten" /\ Held(Owner[g], owner)

-----------------------------------------------------------------------------
(* createSession                                                           *)

FindSession(g) ==
  /\ creating[g] = "idle"
  /\ IF Online(name) \/ SessionHolds(name, Owner[g])
       THEN At(g, "refused") /\ UNCHANGED existing
       ELSE At(g, "reading") /\ existing' = [existing EXCEPT ![g] = name]
  /\ UNCHANGED <<releasing, sessions, name, heartbeat, reservation>>

FindReservation(g) ==
  /\ creating[g] = "reading"
  /\ At(g, IF Held(reservation, Owner[g]) THEN "refused" ELSE "vacant")
  /\ UNCHANGED <<releasing, existing, sessions, name, heartbeat, reservation>>

(* store.createSession: the name is free, or leads to the session found    *)
(* stale; access may have been denied before.                              *)
StoreSession(g) ==
  /\ creating[g] = "vacant"
  /\ \/ /\ name \in {None, existing[g]}
        /\ sessions' = sessions \cup {g}
        /\ name' = g
        /\ At(g, "asking")
     \/ At(g, "refused") /\ UNCHANGED <<sessions, name>>
  /\ existing' = [existing EXCEPT ![g] = None]
  /\ UNCHANGED <<releasing, heartbeat, reservation>>

(* One step of the question to the relay; an error counts as a yes.        *)
AsksRelay(g, from, claimedElsewhere, to) ==
  /\ creating[g] = from
  /\ \E where \in {"rejecting"} \cup (IF claimedElsewhere THEN {} ELSE {to}) : At(g, where)
  /\ UNCHANGED <<releasing, existing, sessions, name, heartbeat, reservation>>

(* Mutant: the name goes with the session.                                 *)
DeleteSessionAndName(g) ==
  /\ sessions' = sessions \ {g}
  /\ name' = None

(* deleteSession: the name goes only if it still leads to the session.     *)
DeleteSession(g) ==
  /\ sessions' = sessions \ {g}
  /\ name' = IF name = g THEN None ELSE name

RejectSession(g) ==
  /\ creating[g] = "rejecting"
  /\ DeleteSession(g)
  /\ At(g, "refused")
  /\ UNCHANGED <<releasing, existing, heartbeat, reservation>>

AcceptSession(g) ==
  /\ creating[g] = "accepting"
  /\ At(g, "accepted")
  /\ UNCHANGED <<releasing, existing, sessions, name, heartbeat, reservation>>

-----------------------------------------------------------------------------
(* A poll, a heartbeat or a response: markSessionOnline.  touchSession     *)
(* does not bring back a session that was deleted while the poll waited.   *)
MarkSessionOnline(g) ==
  /\ creating[g] = "accepted"
  /\ g \in sessions
  /\ heartbeat' = [heartbeat EXCEPT ![g] = "recent"]
  /\ name' = IF name = None THEN g ELSE name
  /\ UNCHANGED <<creating, releasing, existing, sessions, reservation>>

(* A visitor's request, queued for the session it found some time before.  *)
TouchedByVisitor(g) ==
  /\ g \in sessions
  /\ name = None
  /\ name' = g
  /\ UNCHANGED <<creating, releasing, existing, sessions, heartbeat, reservation>>

(* releasePreviewSession, for a DELETE of the client, who has been told of *)
(* the session, or for a visitor who found it offline.                     *)
Release(g) ==
  /\ g \in sessions
  /\ creating[g] = "accepted" \/ heartbeat[g] # "recent"
  /\ releasing[g] = "none"
  /\ releasing' = [releasing EXCEPT ![g] = "reading"]
  /\ UNCHANGED <<creating, existing, sessions, name, heartbeat, reservation>>

FindCurrent(g) ==
  /\ releasing[g] = "reading"
  /\ releasing' = [releasing EXCEPT ![g] =
       IF Owner[g] # NoOwner /\ name \in {None, g} THEN "reserving" ELSE "deleting"]
  /\ UNCHANGED <<creating, existing, sessions, name, heartbeat, reservation>>

ReserveBeforeDelete(g) ==
  /\ releasing[g] = "reserving"
  /\ reservation' = Owner[g]
  /\ releasing' = [releasing EXCEPT ![g] = "deleting"]
  /\ UNCHANGED <<creating, existing, sessions, name, heartbeat>>

ReleaseDeletes(g) ==
  /\ releasing[g] = "deleting"
  /\ DeleteSession(g)
  /\ releasing' = [releasing EXCEPT ![g] = "none"]
  /\ UNCHANGED <<creating, existing, heartbeat, reservation>>

-----------------------------------------------------------------------------
(* Time                                                                    *)

HeartbeatMissed(g) ==
  /\ g \in sessions
  /\ heartbeat[g] # "forgotten"
  /\ heartbeat' = [heartbeat EXCEPT ![g] = IF @ = "recent" THEN "missed" ELSE "forgotten"]
  /\ UNCHANGED <<creating, releasing, existing, sessions, name, reservation>>

(* expiresAt has passed: the store drops the session, without reserving.   *)
SessionExpires(g) ==
  /\ g \in sessions
  /\ DeleteSession(g)
  /\ UNCHANGED <<creating, releasing, existing, heartbeat, reservation>>

GatewayReservationExpires ==
  /\ reservation # NoOwner
  /\ reservation' = NoOwner
  /\ UNCHANGED <<creating, releasing, existing, sessions, name, heartbeat>>

=============================================================================
