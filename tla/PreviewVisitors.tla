----------------------------- MODULE PreviewVisitors ---------------------------
(***************************************************************************)
(* The visitors of a preview name: forwardPublicRequest of the relay that  *)
(* receives the request, the pump of the relay that serves the name, and   *)
(* the agent's response (packages/farm-preview-tunnel/src/relay.ts).       *)
(*                                                                         *)
(* A request goes straight to a socket of the same relay, or through the   *)
(* queue the session has in Redis.                                         *)
(***************************************************************************)
EXTENDS PreviewRelay

CONSTANTS
  Visitors,
  EntryOf    \* the relay that receives a visitor

ASSUME VisitorAssumption == EntryOf \in [Visitors -> Relays]

VARIABLES
  visit,     \* where each request is on the relay that received it
  target,    \* the session it was routed to
  message,   \* where its message is
  cancel     \* where its cancel message is

visitorVars == <<visit, target, message, cancel>>

Delivered == {"waiting", "taking"}    \* pending locally, or taking the response
Uploading == {"uploading", "uploadingShared"}
Over      == {"fallback", "answered", "failed", "gaveUp"}

VisitorsTypeOK ==
  /\ visit \in [Visitors -> {"idle", "finding", "publishing"} \cup Uploading \cup Delivered \cup Over]
  /\ target \in [Visitors -> Agents \cup {None}]
  /\ message \in [Visitors -> {"none", "unsendable", "queued", "taken", "sent", "lost", "published", "done"}]
  /\ cancel \in [Visitors -> {"none", "queued", "taken", "done"}]

VisitorsInit ==
  /\ visit = [v \in Visitors |-> "idle"]
  /\ target = [v \in Visitors |-> None]
  /\ message = [v \in Visitors |-> "none"]
  /\ cancel = [v \in Visitors |-> "none"]

Visit(v, where) == visit' = [visit EXCEPT ![v] = where]
Moves(v, where) == message' = [message EXCEPT ![v] = where]

-----------------------------------------------------------------------------
(* A local session with an open socket is preferred to the coordinator's.  *)
Arrive(v) ==
  /\ visit[v] = "idle"
  /\ LET local == agents[EntryOf[v]]
     IN  IF local # None /\ sock[local] = "open"
           THEN Visit(v, "uploading") /\ target' = [target EXCEPT ![v] = local]
           ELSE Visit(v, "finding") /\ UNCHANGED target
  /\ UNCHANGED <<message, cancel>>

FindSharedSession(v) ==
  /\ visit[v] = "finding"
  /\ target' = [target EXCEPT ![v] = claim]
  /\ Visit(v, IF claim = None THEN "fallback" ELSE "uploadingShared")
  /\ UNCHANGED <<message, cancel>>

(* The body has arrived.  A socket that has left OPEN reports the failure  *)
(* of the send later; so may one that is still open.                       *)
Send(v) ==
  /\ visit[v] = "uploading"
  /\ Visit(v, "waiting")
  /\ \E where \in {"unsendable"} \cup (IF sock[target[v]] = "open" THEN {"sent"} ELSE {}) : Moves(v, where)
  /\ UNCHANGED <<target, cancel>>

SendFails(v) ==
  /\ visit[v] = "waiting" /\ message[v] = "unsendable"
  /\ Visit(v, "failed")
  /\ UNCHANGED <<target, message, cancel>>

PublishRequest(v) ==
  /\ visit[v] = "uploadingShared"
  /\ \/ Visit(v, "publishing") /\ Moves(v, "queued")
     \/ Visit(v, "failed") /\ UNCHANGED message
  /\ UNCHANGED <<target, cancel>>

Published(v) ==
  /\ visit[v] = "publishing"
  /\ Visit(v, "taking")
  /\ UNCHANGED <<target, message, cancel>>

(* The timer of the request, or the visitor closing the connection: the    *)
(* agent is told only if the message is known to be delivered.             *)
GiveUp(v) ==
  /\ visit[v] \in Uploading \cup {"publishing"} \cup Delivered
  /\ Visit(v, "gaveUp")
  /\ IF visit[v] = "waiting" /\ sock[target[v]] = "open" /\ message[v] = "sent"
       THEN Moves(v, "lost") /\ UNCHANGED cancel
       ELSE /\ cancel' = [cancel EXCEPT ![v] = IF visit[v] = "taking" THEN "queued" ELSE "none"]
            /\ UNCHANGED message
  /\ UNCHANGED target

-----------------------------------------------------------------------------
(* The pump of a session, in the order of its queue, one message at a time. *)

InHand(s) == {v \in Visitors : target[v] = s /\ "taken" \in {message[v], cancel[v]}}

TakeRequest(v) ==
  /\ target[v] # None /\ pc[target[v]] = "pumping" /\ InHand(target[v]) = {}
  /\ \/ message[v] = "queued" /\ Moves(v, "taken") /\ UNCHANGED cancel
     \/ /\ cancel[v] = "queued" /\ message[v] # "queued"
        /\ cancel' = [cancel EXCEPT ![v] = "taken"] /\ UNCHANGED message
  /\ UNCHANGED <<relayVars, visit, target>>

NothingTaken(s) ==
  /\ pc[s] = "pumping" /\ InHand(s) = {}
  /\ Goto(s, "ready")
  /\ UNCHANGED <<sock, agents, reservations, pendingClaims, redisVars, bound, lapsed, visitorVars>>

Pumping(s) == pc[s] = "pumping" /\ agents[RelayOf[s]] = s /\ sock[s] = "open"

(* What was taken is lost when the session has gone in the meantime.       *)
PumpSend(v) ==
  /\ \/ /\ message[v] = "taken"
        /\ Moves(v, IF Pumping(target[v]) THEN "sent" ELSE "lost")
        /\ UNCHANGED cancel
     \/ /\ cancel[v] = "taken" /\ message[v] # "taken"
        /\ cancel' = [cancel EXCEPT ![v] = "done"]
        /\ Moves(v, IF message[v] = "sent" /\ Pumping(target[v]) THEN "lost" ELSE message[v])
  /\ pc' = IF Pumping(target[v]) THEN [pc EXCEPT ![target[v]] = "ready"] ELSE pc
  /\ UNCHANGED <<sock, agents, reservations, pendingClaims, redisVars, bound, lapsed, visit, target>>

(* The response completes the pending request, or is published for the     *)
(* relay that waits for it.                                                *)
Respond(v) ==
  /\ message[v] = "sent" /\ sock[target[v]] = "open"
  /\ IF visit[v] = "waiting"
       THEN Visit(v, "answered") /\ Moves(v, "done")
       ELSE Moves(v, "published") /\ UNCHANGED visit
  /\ UNCHANGED <<target, cancel>>

TakeResponse(v) ==
  /\ visit[v] = "taking" /\ message[v] = "published"
  /\ Visit(v, "answered") /\ Moves(v, "done")
  /\ UNCHANGED <<target, cancel>>

-----------------------------------------------------------------------------
(* failPendingRequestsForSession                                           *)
FailPending(s) ==
  visit' = [v \in Visitors |-> IF visit[v] = "waiting" /\ target[v] = s THEN "failed" ELSE visit[v]]

(* checkAccess denies a session: on the way of a visitor, who is refused,  *)
(* of a response, or of the periodic check.                                *)
AccessDenied(s) ==
  /\ pc[s] \in Attached
  /\ sock' = [sock EXCEPT ![s] = IF @ = "open" THEN "closing" ELSE @]
  /\ \E refused \in SUBSET {v \in Visitors : visit[v] = "uploading" /\ target[v] = s} :
       visit' = [v \in Visitors |->
         IF v \in refused \/ (visit[v] = "waiting" /\ target[v] = s) THEN "failed" ELSE visit[v]]
  /\ UNCHANGED <<pc, agents, reservations, pendingClaims, redisVars, bound, lapsed,
                 target, message, cancel>>

(* Mutant: the requests pending on the session wait for their timers.      *)
VisitorsForgotten(s) ==
  UNCHANGED <<visit, target, message, cancel>>

(* What a relay's detach and crash do to the visitors.                     *)
VisitorsDetached(s) ==
  /\ IF agents[RelayOf[s]] = s /\ pc[s] \in Attached THEN FailPending(s) ELSE UNCHANGED visit
  /\ UNCHANGED <<target, message, cancel>>

VisitorsCrashed(r) ==
  /\ visit' = [v \in Visitors |->
       IF EntryOf[v] = r /\ visit[v] \notin {"idle"} \cup Over THEN "failed" ELSE visit[v]]
  /\ message' = [v \in Visitors |->
       IF message[v] = "taken" /\ RelayOf[target[v]] = r THEN "lost" ELSE message[v]]
  /\ UNCHANGED <<target, cancel>>

VisitorStep(v) ==
  \/ TakeRequest(v) \/ PumpSend(v)
  \/ /\ \/ Arrive(v) \/ FindSharedSession(v) \/ Send(v) \/ SendFails(v)
        \/ PublishRequest(v) \/ Published(v) \/ GiveUp(v)
        \/ Respond(v) \/ TakeResponse(v)
     /\ UNCHANGED relayVars

-----------------------------------------------------------------------------
(* A request pending on a relay will be answered or failed without its     *)
(* timer: the agent has it and the close of its socket will find the       *)
(* session in the table of the relay, or the failed send will be reported. *)
(* Sessions replace each other in the table only where one lost its claim. *)
PendingIsWatched ==
  \A v \in Visitors :
    visit[v] = "waiting" =>
      \/ message[v] = "unsendable"
      \/ \E u \in lapsed \cap Agents : RelayOf[u] = RelayOf[target[v]]
      \/ /\ message[v] = "sent"
         /\ pc[target[v]] \in Attached
         /\ agents[RelayOf[target[v]]] = target[v]

=============================================================================
