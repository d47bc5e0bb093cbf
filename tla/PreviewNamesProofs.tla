--------------------------- MODULE PreviewNamesProofs --------------------------
(***************************************************************************)
(* Proofs about PreviewNames, for any agents, relays, polling sessions,    *)
(* visitors and owners: whoever registers, lapses, crashes or comes late.  *)
(***************************************************************************)
EXTENDS PreviewNames, TLAPS

(* Owner gives every agent and every poller an owner, or none.             *)
LEMMA OwnerType ==
  /\ \A s \in Agents : Owner[s] \in MaybeOwner
  /\ \A g \in Pollers : Owner[g] \in MaybeOwner
  /\ \A s \in Agents : RelayOf[s] \in Relays
BY OwnerAssumption, RelayAssumption

-----------------------------------------------------------------------------
(* Types                                                                   *)

(* Nobody has called yet.                                                  *)
LEMMA TypeInit == Init => TypeOK
BY DEF Init, RelayInit, VisitorsInit, GatewayInit, TypeOK, RelayTypeOK, VisitorsTypeOK,
       GatewayTypeOK, MaybeOwner

RelayTypes == RelayTypeOK /\ lapsed \subseteq Agents \cup Pollers

(* The steps of an agent.                                                  *)
LEMMA RelayStepTypes ==
  ASSUME RelayTypes, NEW s \in Agents, RelayStep(s)
  PROVE  RelayTypes'
<1> USE OwnerType DEF RelayTypes, RelayTypeOK, Goto, Registering, Attached, Detaching
<1>1. CASE Register(s) \/ FindNameOwner(s)
  BY <1>1 DEF Register, FindNameOwner, redisVars
<1>2. CASE ClaimSession(s)
  BY <1>2 DEF ClaimSession, redisVars
<1>3. CASE AnnounceClaim(s)
  BY <1>3 DEF AnnounceClaim, redisVars, MaybeOwner
<1>4. CASE RejectClaim(s) \/ Withdraw(s)
  BY <1>4 DEF RejectClaim, Withdraw, ReleaseClaim, redisVars
<1>5. CASE Admit(s)
  BY <1>5 DEF Admit, ReserveLocally, redisVars
<1>6. CASE Bind(s) \/ ReserveName(s)
  BY <1>6 DEF Bind, ReserveName, BindName, redisVars
<1>7. CASE Touch(s) \/ Closes(s)
  BY <1>7 DEF Touch, Closes, redisVars
<1>8. CASE RefreshReservation(s)
  BY <1>8 DEF RefreshReservation, PumpFails, ReserveLocally, BindName, redisVars
<1>9. CASE ReleaseSession(s)
  BY <1>9 DEF ReleaseSession, ReleaseClaim, redisVars
<1>10. QED
  BY <1>1, <1>2, <1>3, <1>4, <1>5, <1>6, <1>7, <1>8, <1>9 DEF RelayStep

(* The end of a socket or of a grant.                                      *)
LEMMA DetachTypes ==
  ASSUME RelayTypes, NEW s \in Agents, SocketClosed(s) \/ GrantExpires(s)
  PROVE  RelayTypes'
<1> USE OwnerType DEF RelayTypes, RelayTypeOK, Goto, Registering, Attached, Detaching
<1>1. ASSUME DetachSession(s)
      PROVE  /\ agents' \in [Relays -> Agents \cup {None}]
             /\ pc' \in [Agents -> {"idle", "refused", "gone"} \cup Registering \cup Attached \cup Detaching]
             /\ reservations' \in [Relays -> MaybeOwner]
  BY <1>1 DEF DetachSession, ReserveLocally
<1>2. CASE SocketClosed(s)
  BY <1>1, <1>2 DEF SocketClosed, redisVars
<1>3. CASE GrantExpires(s)
  BY <1>1, <1>3 DEF GrantExpires, redisVars
<1>4. QED
  BY <1>2, <1>3

(* Everything else that reaches the relays.                                *)
LEMMA OtherRelayTypes ==
  ASSUME TypeOK, [Next]_vars,
         \A s \in Agents : ~RelayStep(s) /\ ~SocketClosed(s) /\ ~GrantExpires(s)
  PROVE  RelayTypes'
<1> USE DEF RelayTypes, RelayTypeOK, TypeOK, Registering, Attached, Detaching
<1>1. ASSUME UNCHANGED relayVars PROVE RelayTypes'
  BY <1>1 DEF relayVars, redisVars
<1>2. ASSUME NEW s \in Agents, AskGateway(s) \/ AskReservation(s) \/ NothingTaken(s)
      PROVE  RelayTypes'
  BY <1>2 DEF AskGateway, AskReservation, NothingTaken, Asks, Goto, redisVars
<1>3. ASSUME NEW s \in Agents, AccessDenied(s) PROVE RelayTypes'
  BY <1>3 DEF AccessDenied, redisVars
<1>4. ASSUME NEW r \in Relays, Crash(r) \/ ReservationExpires(r) PROVE RelayTypes'
  BY <1>4 DEF Crash, ReservationExpires, redisVars, MaybeOwner
<1>5. CASE ClaimExpires \/ NameOwnerExpires
  BY <1>5 DEF ClaimExpires, NameOwnerExpires, redisVars, MaybeOwner
<1>6. ASSUME NEW v \in Visitors, PumpSend(v) PROVE RelayTypes'
  BY <1>6 DEF PumpSend, redisVars
<1>7. ASSUME NEW v \in Visitors, VisitorStep(v) PROVE RelayTypes'
  BY <1>1, <1>6, <1>7 DEF VisitorStep, TakeRequest
<1>8. ASSUME NEW g \in Pollers, AskRelay(g) \/ AskCoordinator(g) \/ AskOwner(g) \/ AskHeld(g) \/ AskBinding(g)
      PROVE  RelayTypes'
  BY <1>1, <1>8 DEF AskRelay, AskCoordinator, AskOwner, AskHeld, AskBinding
<1>9. ASSUME NEW g \in Pollers, Lapses(g) PROVE RelayTypes'
  BY <1>9 DEF Lapses, redisVars
<1>10. CASE UNCHANGED vars
  BY <1>1, <1>10 DEF vars
<1>11. QED
  BY <1>1, <1>2, <1>3, <1>4, <1>5, <1>7, <1>8, <1>9, <1>10 DEF Next, Detaches

(* The visitors.                                                           *)
LEMMA VisitorTypes ==
  ASSUME TypeOK, [Next]_vars
  PROVE  VisitorsTypeOK'
<1> USE DEF TypeOK, RelayTypeOK, VisitorsTypeOK, Delivered, Uploading, Over
<1>1. ASSUME UNCHANGED visitorVars PROVE VisitorsTypeOK'
  BY <1>1 DEF visitorVars
<1>2. ASSUME NEW v \in Visitors, Arrive(v) \/ FindSharedSession(v) PROVE VisitorsTypeOK'
  BY <1>2, VisitorAssumption DEF Arrive, FindSharedSession, Visit
<1>3. ASSUME NEW v \in Visitors, Send(v) \/ SendFails(v) \/ PublishRequest(v) \/ Published(v)
      PROVE  VisitorsTypeOK'
  BY <1>3 DEF Send, SendFails, PublishRequest, Published, Visit, Moves
<1>4. ASSUME NEW v \in Visitors, GiveUp(v) \/ Respond(v) \/ TakeResponse(v) PROVE VisitorsTypeOK'
  BY <1>4 DEF GiveUp, Respond, TakeResponse, Visit, Moves
<1>5. ASSUME NEW v \in Visitors, TakeRequest(v) \/ PumpSend(v) PROVE VisitorsTypeOK'
  BY <1>5 DEF TakeRequest, PumpSend, Moves
<1>6. ASSUME NEW v \in Visitors, VisitorStep(v) PROVE VisitorsTypeOK'
  BY <1>2, <1>3, <1>4, <1>5, <1>6 DEF VisitorStep
<1>7. ASSUME NEW s \in Agents, Detaches(s) PROVE VisitorsTypeOK'
  BY <1>7 DEF Detaches, VisitorsDetached, FailPending
<1>8. ASSUME NEW s \in Agents, AccessDenied(s) PROVE VisitorsTypeOK'
  BY <1>8 DEF AccessDenied
<1>9. ASSUME NEW r \in Relays, VisitorsCrashed(r) PROVE VisitorsTypeOK'
  BY <1>9 DEF VisitorsCrashed
<1>10. QED
  BY <1>1, <1>6, <1>7, <1>8, <1>9
     DEF Next, vars, AskGateway, AskReservation, NothingTaken, AskRelay, AskCoordinator,
         AskOwner, AskHeld, AskBinding, Lapses

(* The polling gateway.                                                    *)
LEMMA GatewayTypes ==
  ASSUME TypeOK, [Next]_vars
  PROVE  GatewayTypeOK'
<1> USE OwnerType DEF TypeOK, GatewayTypeOK
<1>1. ASSUME UNCHANGED gatewayVars PROVE GatewayTypeOK'
  BY <1>1 DEF gatewayVars
<1>2. ASSUME NEW g \in Pollers, FindSession(g) \/ FindReservation(g) PROVE GatewayTypeOK'
  BY <1>2 DEF FindSession, FindReservation, At
<1>3. ASSUME NEW g \in Pollers, StoreSession(g) PROVE GatewayTypeOK'
  BY <1>3 DEF StoreSession, At
<1>4. ASSUME NEW g \in Pollers, RejectSession(g) \/ SessionExpires(g) \/ ReleaseDeletes(g)
      PROVE  GatewayTypeOK'
  BY <1>4 DEF RejectSession, SessionExpires, ReleaseDeletes, DeleteSession, At
<1>5. ASSUME NEW g \in Pollers, AcceptSession(g) \/ MarkSessionOnline(g) \/ TouchedByVisitor(g)
      PROVE  GatewayTypeOK'
  BY <1>5 DEF AcceptSession, MarkSessionOnline, TouchedByVisitor, At
<1>6. ASSUME NEW g \in Pollers, Release(g) \/ FindCurrent(g) \/ ReserveBeforeDelete(g)
      PROVE  GatewayTypeOK'
  BY <1>6 DEF Release, FindCurrent, ReserveBeforeDelete
<1>7. ASSUME NEW g \in Pollers, PollerStep(g) PROVE GatewayTypeOK'
  BY <1>2, <1>3, <1>4, <1>5, <1>6, <1>7 DEF PollerStep
<1>8. ASSUME NEW g \in Pollers, AskRelay(g) \/ AskCoordinator(g) \/ AskOwner(g) \/ AskHeld(g) \/ AskBinding(g)
      PROVE  GatewayTypeOK'
  BY <1>8 DEF AskRelay, AskCoordinator, AskOwner, AskHeld, AskBinding, AsksRelay, At
<1>9. ASSUME NEW g \in Pollers, Lapses(g) PROVE GatewayTypeOK'
  BY <1>9 DEF Lapses, HeartbeatMissed
<1>10. CASE GatewayReservationExpires
  BY <1>10 DEF GatewayReservationExpires, MaybeOwner
<1>11. QED
  BY <1>1, <1>7, <1>8, <1>9, <1>10
     DEF Next, vars, Detaches, AskGateway, AskReservation

(* Every step keeps the types.                                             *)
LEMMA TypeStep == TypeOK /\ [Next]_vars => TypeOK'
<1> SUFFICES ASSUME TypeOK, [Next]_vars PROVE TypeOK'
  OBVIOUS
<1>1. RelayTypes
  BY DEF TypeOK, RelayTypes
<1>2. RelayTypes'
  BY <1>1, RelayStepTypes, DetachTypes, OtherRelayTypes
<1>3. QED
  BY <1>2, VisitorTypes, GatewayTypes DEF TypeOK, RelayTypes

(* Every variable of the relays, of the gateway and of the visitors keeps  *)
(* its type.                                                               *)
THEOREM TypeSafe == Spec => []TypeOK
BY TypeInit, TypeStep, PTL DEF Spec

-----------------------------------------------------------------------------
(* The claim and the binding                                               *)

(* From its claim to its release a session that has not lapsed holds it.   *)
Holding == {"claimed", "asking", "askingReserved", "vacant", "rejecting"} \cup Attached \cup Detaching

HoldInv == \A s \in Agents : pc[s] \in Holding /\ s \notin lapsed => claim = s

(* Who has bound the name has been admitted, and Redis names no one else.  *)
BoundInv ==
  /\ \A s \in bound : pc[s] \in Attached \cup Detaching \cup {"gone"}
  /\ nameOwner # NoOwner => \E u \in bound : Owner[u] = nameOwner

ClaimInv == HoldInv /\ BoundInv

(* Nobody has claimed the name.                                            *)
LEMMA ClaimInit == Init => ClaimInv
<1> SUFFICES ASSUME Init PROVE ClaimInv
  OBVIOUS
<1>1. HoldInv
  BY DEF Init, RelayInit, HoldInv, Holding, Attached, Detaching
<1>2. BoundInv
  BY DEF Init, RelayInit, BoundInv
<1>3. QED
  BY <1>1, <1>2 DEF ClaimInv

(* A step that neither claims, binds nor ends anything.                    *)
LEMMA ClaimKept ==
  ASSUME TypeOK, ClaimInv, UNCHANGED <<claim, nameOwner, bound>>,
         lapsed \subseteq lapsed',
         \A t \in Agents : pc'[t] \in Holding => pc[t] \in Holding,
         \A t \in Agents : pc[t] \in Attached \cup Detaching \cup {"gone"} =>
                            pc'[t] \in Attached \cup Detaching \cup {"gone"}
  PROVE  ClaimInv'
<1>1. bound \subseteq Agents
  BY DEF TypeOK, RelayTypeOK
<1>2. HoldInv'
  BY DEF ClaimInv, HoldInv
<1>3. BoundInv'
  BY <1>1 DEF ClaimInv, BoundInv
<1>4. QED
  BY <1>2, <1>3 DEF ClaimInv

(* The steps of a registration up to its admission.                        *)
LEMMA RegisteringKeepsClaim ==
  ASSUME TypeOK, ClaimInv, NEW s \in Agents,
         Register(s) \/ FindNameOwner(s) \/ ClaimSession(s) \/ AnnounceClaim(s) \/ RejectClaim(s)
           \/ Withdraw(s) \/ AskGateway(s) \/ AskReservation(s) \/ Admit(s)
  PROVE  ClaimInv'
<1>1. pc \in [Agents -> {"idle", "refused", "gone"} \cup Registering \cup Attached \cup Detaching]
  BY DEF TypeOK, RelayTypeOK
<1>2. None \notin Agents /\ bound \subseteq Agents
  BY RelayAssumption DEF TypeOK, RelayTypeOK
<1>3. CASE Register(s) \/ FindNameOwner(s)
  BY <1>1, <1>3, ClaimKept
     DEF Register, FindNameOwner, Goto, redisVars, Holding, Attached, Detaching
<1>4. CASE AskGateway(s) \/ AskReservation(s)
  BY <1>1, <1>4, ClaimKept
     DEF AskGateway, AskReservation, Asks, Goto, redisVars, Holding, Attached, Detaching
<1>5. CASE AnnounceClaim(s) \/ Withdraw(s) \/ Admit(s)
  BY <1>1, <1>5, ClaimKept
     DEF AnnounceClaim, Withdraw, Admit, Goto, redisVars, Holding, Attached, Detaching
<1>6. CASE ClaimSession(s)
  <2>1. s \notin bound
    BY <1>6 DEF ClaimSession, ClaimInv, BoundInv, Attached, Detaching
  <2>2. CASE claim = None /\ claim' = s
    <3>1. \A t \in Agents : pc[t] \in Holding => t \in lapsed
      BY <1>2, <2>2 DEF ClaimInv, HoldInv
    <3>2. HoldInv'
      BY <1>1, <1>6, <2>2, <3>1 DEF ClaimSession, HoldInv, Goto
    <3>3. BoundInv'
      BY <1>1, <1>2, <1>6, <2>1 DEF ClaimSession, ClaimInv, BoundInv, Goto
    <3>4. QED
      BY <3>2, <3>3 DEF ClaimInv
  <2>3. CASE UNCHANGED claim /\ Goto(s, "refused")
    BY <1>1, <1>6, <2>3, ClaimKept DEF ClaimSession, Goto, Holding, Attached, Detaching
  <2>4. QED
    BY <1>6, <2>2, <2>3 DEF ClaimSession
<1>7. CASE RejectClaim(s)
  <2>1. claim' = claim \/ (claim = s /\ claim' = None)
    BY <1>7 DEF RejectClaim, ReleaseClaim
  <2>2. HoldInv'
    BY <1>1, <1>7, <2>1 DEF RejectClaim, ClaimInv, HoldInv, Goto, Holding, Attached, Detaching
  <2>3. BoundInv'
    BY <1>1, <1>2, <1>7 DEF RejectClaim, ClaimInv, BoundInv, Goto, Attached, Detaching
  <2>4. QED
    BY <2>2, <2>3 DEF ClaimInv
<1>8. QED
  BY <1>3, <1>4, <1>5, <1>6, <1>7

(* The binding is written by a session that has been admitted.             *)
LEMMA BindingKeepsClaim ==
  ASSUME TypeOK, ClaimInv, NEW s \in Agents, Bind(s) \/ RefreshReservation(s) \/ ReserveName(s)
  PROVE  ClaimInv'
<1>1. pc \in [Agents -> {"idle", "refused", "gone"} \cup Registering \cup Attached \cup Detaching]
  BY DEF TypeOK, RelayTypeOK
<1>2. bound \subseteq Agents
  BY DEF TypeOK, RelayTypeOK
<1>3. /\ BindName(s)
      /\ UNCHANGED <<claim, lapsed>>
      /\ pc[s] \in Attached \cup Detaching
      /\ \E to \in Attached \cup Detaching : pc' = [pc EXCEPT ![s] = to]
  BY DEF Bind, RefreshReservation, PumpFails, ReserveName, Goto, Attached, Detaching
<1>4. HoldInv'
  BY <1>1, <1>3 DEF ClaimInv, HoldInv, Holding
<1>5. BoundInv'
  BY <1>1, <1>2, <1>3 DEF ClaimInv, BoundInv, BindName
<1>6. QED
  BY <1>4, <1>5 DEF ClaimInv

(* The end of a session.                                                   *)
LEMMA EndingKeepsClaim ==
  ASSUME TypeOK, ClaimInv, NEW s \in Agents,
         SocketClosed(s) \/ GrantExpires(s) \/ ReleaseSession(s)
  PROVE  ClaimInv'
<1>1. pc \in [Agents -> {"idle", "refused", "gone"} \cup Registering \cup Attached \cup Detaching]
  BY DEF TypeOK, RelayTypeOK
<1>2. None \notin Agents /\ bound \subseteq Agents
  BY RelayAssumption DEF TypeOK, RelayTypeOK
<1>3. CASE SocketClosed(s) \/ GrantExpires(s)
  <2>1. UNCHANGED <<claim, nameOwner, bound, lapsed>>
    BY <1>3 DEF SocketClosed, GrantExpires, redisVars
  <2>2. pc' = pc \/ (pc[s] \in Attached /\ \E to \in Detaching : pc' = [pc EXCEPT ![s] = to])
    BY <1>3 DEF SocketClosed, GrantExpires, DetachSession, Goto, Attached, Detaching
  <2>3. QED
    BY <1>1, <2>1, <2>2, ClaimKept DEF Holding
<1>4. CASE ReleaseSession(s)
  <2>1. claim' = claim \/ (claim = s /\ claim' = None)
    BY <1>4 DEF ReleaseSession, ReleaseClaim
  <2>2. HoldInv'
    BY <1>1, <1>4, <2>1 DEF ReleaseSession, ClaimInv, HoldInv, Goto, Holding, Attached, Detaching
  <2>3. BoundInv'
    BY <1>1, <1>2, <1>4 DEF ReleaseSession, ClaimInv, BoundInv, Goto, Attached, Detaching
  <2>4. QED
    BY <2>2, <2>3 DEF ClaimInv
<1>5. QED
  BY <1>3, <1>4

(* Time and crashes.                                                       *)
LEMMA TimeKeepsClaim ==
  ASSUME TypeOK, ClaimInv, ClaimExpires \/ NameOwnerExpires \/ \E r \in Relays : Crash(r)
  PROVE  ClaimInv'
<1>1. None \notin Agents /\ bound \subseteq Agents
  BY RelayAssumption DEF TypeOK, RelayTypeOK
<1>2. CASE ClaimExpires
  <2>1. HoldInv'
    BY <1>2 DEF ClaimExpires, ClaimInv, HoldInv
  <2>2. BoundInv'
    BY <1>1, <1>2 DEF ClaimExpires, ClaimInv, BoundInv
  <2>3. QED
    BY <2>1, <2>2 DEF ClaimInv
<1>3. CASE NameOwnerExpires
  <2>1. HoldInv'
    BY <1>3 DEF NameOwnerExpires, ClaimInv, HoldInv
  <2>2. BoundInv'
    BY <1>3 DEF NameOwnerExpires, ClaimInv, BoundInv
  <2>3. QED
    BY <2>1, <2>2 DEF ClaimInv
<1>4. ASSUME NEW r \in Relays, Crash(r) PROVE ClaimInv'
  BY <1>4, ClaimKept DEF Crash, redisVars, Holding, Attached, Detaching
<1>5. QED
  BY <1>2, <1>3, <1>4

(* Every step keeps the claim with its holder.                             *)
LEMMA ClaimStep ==
  ASSUME TypeOK, ClaimInv, [Next]_vars
  PROVE  ClaimInv'
<1>1. pc \in [Agents -> {"idle", "refused", "gone"} \cup Registering \cup Attached \cup Detaching]
  BY DEF TypeOK, RelayTypeOK
<1>2. ASSUME UNCHANGED <<pc, claim, nameOwner, bound>>, lapsed \subseteq lapsed' PROVE ClaimInv'
  BY <1>2, ClaimKept
<1>3. ASSUME UNCHANGED relayVars PROVE ClaimInv'
  BY <1>2, <1>3 DEF relayVars, redisVars
<1>4. ASSUME NEW s \in Agents, RelayStep(s) PROVE ClaimInv'
  <2>1. CASE Touch(s)
    BY <1>1, <2>1, ClaimKept DEF Touch, Goto, redisVars, Holding, Attached, Detaching
  <2>2. CASE Closes(s)
    BY <1>2, <2>2 DEF Closes, redisVars
  <2>3. QED
    BY <1>4, <2>1, <2>2, RegisteringKeepsClaim, BindingKeepsClaim, EndingKeepsClaim DEF RelayStep
<1>5. ASSUME NEW s \in Agents, Detaches(s) \/ AskGateway(s) \/ AskReservation(s) PROVE ClaimInv'
  BY <1>5, RegisteringKeepsClaim, EndingKeepsClaim DEF Detaches
<1>6. ASSUME NEW s \in Agents, NothingTaken(s) PROVE ClaimInv'
  BY <1>1, <1>6, ClaimKept DEF NothingTaken, Goto, redisVars, Holding, Attached, Detaching
<1>7. ASSUME NEW s \in Agents, AccessDenied(s) PROVE ClaimInv'
  BY <1>2, <1>7 DEF AccessDenied, redisVars
<1>8. ASSUME NEW r \in Relays, ReservationExpires(r) PROVE ClaimInv'
  BY <1>2, <1>8 DEF ReservationExpires, redisVars
<1>9. ASSUME NEW v \in Visitors, VisitorStep(v) PROVE ClaimInv'
  <2>1. CASE PumpSend(v)
    BY <1>1, <2>1, ClaimKept DEF PumpSend, Pumping, redisVars, Holding, Attached, Detaching
  <2>2. QED
    BY <1>3, <1>9, <2>1 DEF VisitorStep, TakeRequest
<1>10. ASSUME NEW g \in Pollers, AskRelay(g) \/ AskCoordinator(g) \/ AskOwner(g) \/ AskHeld(g) \/ AskBinding(g)
       PROVE  ClaimInv'
  BY <1>3, <1>10 DEF AskRelay, AskCoordinator, AskOwner, AskHeld, AskBinding
<1>11. ASSUME NEW g \in Pollers, Lapses(g) PROVE ClaimInv'
  BY <1>2, <1>11 DEF Lapses, redisVars
<1>12. CASE UNCHANGED vars
  BY <1>3, <1>12 DEF vars
<1>13. QED
  BY <1>3, <1>4, <1>5, <1>6, <1>7, <1>8, <1>9, <1>10, <1>11, <1>12, TimeKeepsClaim DEF Next

-----------------------------------------------------------------------------
(* The polling gateway's own name                                          *)

(* A session whose client is silent counts as lapsed, and a newer session  *)
(* only replaces one that has.                                             *)
PollInv ==
  /\ \A g \in Pollers : heartbeat[g] # "recent" => g \in lapsed
  /\ \A g \in Pollers : existing[g] # None => existing[g] \in lapsed
  /\ OnlineSessionKeepsName

(* No session exists.                                                      *)
LEMMA PollInit == Init => PollInv
BY DEF Init, GatewayInit, PollInv, OnlineSessionKeepsName

(* Every step leaves the name with the session that is online.             *)
LEMMA PollStep ==
  ASSUME TypeOK, PollInv, [Next]_vars
  PROVE  PollInv'
<1> USE DEF PollInv, OnlineSessionKeepsName
<1>1. /\ existing \in [Pollers -> Pollers \cup {None}]
      /\ sessions \subseteq Pollers
      /\ name \in Pollers \cup {None}
      /\ heartbeat \in [Pollers -> {"recent", "missed", "forgotten"}]
      /\ None \notin Pollers
  BY PollerAssumption DEF TypeOK, GatewayTypeOK
<1>2. ASSUME UNCHANGED <<existing, sessions, name, heartbeat>>, lapsed \subseteq lapsed' PROVE PollInv'
  BY <1>2
<1>3. ASSUME NEW g \in Pollers, PollerStep(g), UNCHANGED relayVars PROVE PollInv'
  <2>1. lapsed' = lapsed
    BY <1>3 DEF relayVars
  <2>2. CASE FindSession(g)
    BY <1>1, <2>1, <2>2 DEF FindSession, Online
  <2>3. CASE StoreSession(g)
    BY <1>1, <2>1, <2>3 DEF StoreSession
  <2>4. CASE MarkSessionOnline(g) \/ TouchedByVisitor(g)
    BY <1>1, <2>1, <2>4 DEF MarkSessionOnline, TouchedByVisitor
  <2>5. CASE RejectSession(g) \/ ReleaseDeletes(g) \/ SessionExpires(g)
    BY <1>1, <2>1, <2>5 DEF RejectSession, ReleaseDeletes, SessionExpires, DeleteSession
  <2>6. CASE FindReservation(g) \/ AcceptSession(g) \/ Release(g) \/ FindCurrent(g)
               \/ ReserveBeforeDelete(g)
    BY <1>2, <2>1, <2>6
       DEF FindReservation, AcceptSession, Release, FindCurrent, ReserveBeforeDelete
  <2>7. QED
    BY <1>3, <2>2, <2>3, <2>4, <2>5, <2>6 DEF PollerStep
<1>4. ASSUME NEW g \in Pollers, Lapses(g) PROVE PollInv'
  BY <1>1, <1>4 DEF Lapses, HeartbeatMissed
<1>5. ASSUME NEW g \in Pollers, AskRelay(g) \/ AskCoordinator(g) \/ AskOwner(g) \/ AskHeld(g) \/ AskBinding(g)
      PROVE  PollInv'
  BY <1>2, <1>5 DEF AskRelay, AskCoordinator, AskOwner, AskHeld, AskBinding, AsksRelay, relayVars
<1>6. CASE GatewayReservationExpires /\ UNCHANGED <<relayVars, visitorVars>>
  BY <1>2, <1>6 DEF GatewayReservationExpires, relayVars
<1>7. ASSUME UNCHANGED gatewayVars, lapsed \subseteq lapsed' PROVE PollInv'
  BY <1>2, <1>7 DEF gatewayVars
<1>8. ASSUME NEW s \in Agents, RelayStep(s), UNCHANGED gatewayVars PROVE PollInv'
  BY <1>7, <1>8
     DEF RelayStep, Register, FindNameOwner, ClaimSession, AnnounceClaim, RejectClaim, Withdraw, Admit,
         Bind, Touch, RefreshReservation, Closes, ReserveName, ReleaseSession
<1>9. ASSUME NEW s \in Agents,
             Detaches(s) \/ AskGateway(s) \/ AskReservation(s)
               \/ ((NothingTaken(s) \/ AccessDenied(s)) /\ UNCHANGED gatewayVars)
      PROVE  PollInv'
  BY <1>7, <1>9 DEF Detaches, SocketClosed, GrantExpires, AskGateway, AskReservation, Asks,
                    NothingTaken, AccessDenied
<1>10. ASSUME NEW r \in Relays, Crash(r) \/ ReservationExpires(r), UNCHANGED gatewayVars PROVE PollInv'
  BY <1>7, <1>10 DEF Crash, ReservationExpires
<1>11. ASSUME ClaimExpires \/ NameOwnerExpires, UNCHANGED gatewayVars PROVE PollInv'
  BY <1>7, <1>11 DEF ClaimExpires, NameOwnerExpires
<1>12. ASSUME NEW v \in Visitors, VisitorStep(v), UNCHANGED gatewayVars PROVE PollInv'
  BY <1>7, <1>12 DEF VisitorStep, TakeRequest, PumpSend, relayVars
<1>13. CASE UNCHANGED vars
  BY <1>7, <1>13 DEF vars, relayVars
<1>14. QED
  BY <1>3, <1>4, <1>5, <1>6, <1>8, <1>9, <1>10, <1>11, <1>12, <1>13 DEF Next

-----------------------------------------------------------------------------
(* The tables of the relays                                                *)

(* Between the announcement of its owner and its admission.                *)
Announced == {"asking", "askingReserved", "vacant"}

(* No session of the relay has lapsed.                                     *)
Calm(r) == \A t \in lapsed \cap Agents : RelayOf[t] # r

(* A relay's table leads to a session attached to it, a session that is    *)
(* over has a closed socket, and on a calm relay the table has the session *)
(* attached, the pending claims have the owner of the one announced, and   *)
(* nobody is announced while another is still to withdraw.                 *)
TableInv ==
  /\ \A r \in Relays : agents[r] # None => pc[agents[r]] \in Attached /\ RelayOf[agents[r]] = r
  /\ \A s \in Agents : pc[s] \in Detaching \cup {"gone"} => sock[s] = "closed"
  /\ \A s \in Agents : Calm(RelayOf[s]) =>
       /\ pc[s] \in Attached => agents[RelayOf[s]] = s
       /\ pc[s] \in Announced => pendingClaims[RelayOf[s]] = Owner[s]
       /\ pc[s] = "withdrawing" =>
            \A t \in Agents : RelayOf[t] = RelayOf[s] => pc[t] \notin Announced

(* The tables are empty.                                                   *)
LEMMA TableInit == Init => TableInv
BY DEF Init, RelayInit, TableInv, Attached, Detaching, Announced

(* A step that does not touch the tables and attaches and ends nobody.     *)
LEMMA TableKept ==
  ASSUME TypeOK, TableInv, UNCHANGED <<agents, pendingClaims>>, lapsed \subseteq lapsed',
         \A t \in Agents : pc[t] \in Attached <=> pc'[t] \in Attached,
         \A t \in Agents : pc'[t] \in Announced => pc[t] \in Announced,
         \A t \in Agents : pc'[t] = "withdrawing" => pc[t] = "withdrawing",
         \A t \in Agents : pc'[t] \in Detaching \cup {"gone"} =>
                            pc[t] \in Detaching \cup {"gone"},
         \A t \in Agents : sock[t] = "closed" => sock'[t] = "closed"
  PROVE  TableInv'
<1>1. \A r \in Relays : Calm(r)' => Calm(r)
  BY DEF Calm
<1>2. \A s \in Agents : RelayOf[s] \in Relays
  BY OwnerType
<1>3. agents \in [Relays -> Agents \cup {None}]
  BY DEF TypeOK, RelayTypeOK
<1>4. QED
  BY <1>1, <1>2, <1>3 DEF TableInv

(* Who is admitted or rejected on a calm relay held the claim, so nobody   *)
(* else there was announced or attached.                                   *)
LEMMA AloneOnRelay ==
  ASSUME TypeOK, ClaimInv, NEW s \in Agents, NEW t \in Agents,
         pc[s] \in Holding, pc[t] \in Holding, RelayOf[s] = RelayOf[t], Calm(RelayOf[s])
  PROVE  s = t
BY DEF ClaimInv, HoldInv, Calm

(* The steps of an agent.                                                  *)
LEMMA RelayStepKeepsTable ==
  ASSUME TypeOK, TableInv, ClaimInv, NEW s \in Agents, RelayStep(s)
  PROVE  TableInv'
<1>1. /\ pc \in [Agents -> {"idle", "refused", "gone"} \cup Registering \cup Attached \cup Detaching]
      /\ sock \in [Agents -> {"open", "closing", "closed"}]
      /\ agents \in [Relays -> Agents \cup {None}]
      /\ pendingClaims \in [Relays -> MaybeOwner \cup {None}]
      /\ \A t \in Agents : RelayOf[t] \in Relays
      /\ None \notin Agents
  BY OwnerType, RelayAssumption DEF TypeOK, RelayTypeOK
<1>2. CASE Register(s) \/ FindNameOwner(s)
  BY <1>1, <1>2, TableKept
     DEF Register, FindNameOwner, Goto, Attached, Detaching, Announced
<1>3. CASE ClaimSession(s)
  BY <1>1, <1>3, TableKept DEF ClaimSession, Goto, Attached, Detaching, Announced
<1>4. CASE Bind(s) \/ RefreshReservation(s) \/ ReserveName(s)
  BY <1>1, <1>4, TableKept
     DEF Bind, RefreshReservation, PumpFails, ReserveName, Goto, Attached, Detaching, Announced
<1>5. CASE ReleaseSession(s)
  BY <1>1, <1>5, TableKept DEF ReleaseSession, Goto, Attached, Detaching, Announced
<1>6. CASE Touch(s) \/ Closes(s)
  BY <1>1, <1>6, TableKept DEF Touch, Closes, Goto, Attached, Detaching, Announced
<1>7. CASE AnnounceClaim(s)
  <2>1. /\ pc[s] = "claimed"
        /\ pendingClaims' = [pendingClaims EXCEPT ![RelayOf[s]] = Owner[s]]
        /\ \E to \in {"asking", "rejecting"} : pc' = [pc EXCEPT ![s] = to]
        /\ UNCHANGED <<sock, agents, lapsed>>
    BY <1>7 DEF AnnounceClaim, Goto
  <2>2. \A t \in Agents : pc[t] \in Announced /\ RelayOf[t] = RelayOf[s] /\ Calm(RelayOf[t]) => t = s
    BY <2>1, AloneOnRelay DEF Holding, Announced
  <2>3. \A r \in Relays : Calm(r)' = Calm(r)
    BY <2>1 DEF Calm
  <2>4. \A t \in Agents : pc[t] = "withdrawing" /\ RelayOf[t] = RelayOf[s] => ~Calm(RelayOf[s])
    BY <1>7 DEF AnnounceClaim, Calm
  <2>5. QED
    BY <1>1, <2>1, <2>2, <2>3, <2>4 DEF TableInv, Announced, Attached, Detaching
<1>8. CASE RejectClaim(s)
  <2>1. /\ pc[s] = "rejecting"
        /\ pc' = [pc EXCEPT ![s] = "withdrawing"]
        /\ UNCHANGED <<sock, agents, pendingClaims, lapsed>>
    BY <1>8 DEF RejectClaim, Goto
  <2>2. \A t \in Agents : pc[t] \in Announced /\ RelayOf[t] = RelayOf[s] /\ Calm(RelayOf[t]) => t = s
    BY <2>1, AloneOnRelay DEF Holding, Announced
  <2>3. \A r \in Relays : Calm(r)' = Calm(r)
    BY <2>1 DEF Calm
  <2>4. QED
    BY <1>1, <2>1, <2>2, <2>3 DEF TableInv, Announced, Attached, Detaching
<1>9. CASE Admit(s)
  <2>1. /\ pc[s] = "vacant"
        /\ agents' = [agents EXCEPT ![RelayOf[s]] = s]
        /\ pendingClaims' = [pendingClaims EXCEPT ![RelayOf[s]] = None]
        /\ pc' = [pc EXCEPT ![s] = "binding"]
        /\ UNCHANGED <<sock, lapsed>>
    BY <1>9 DEF Admit, Goto
  <2>2. \A t \in Agents :
          pc[t] \in Announced \cup Attached /\ RelayOf[t] = RelayOf[s] /\ Calm(RelayOf[t]) => t = s
    BY <2>1, AloneOnRelay DEF Holding, Announced
  <2>3. \A r \in Relays : Calm(r)' = Calm(r)
    BY <2>1 DEF Calm
  <2>4. QED
    BY <1>1, <2>1, <2>2, <2>3 DEF TableInv, Announced, Attached, Detaching
<1>10. CASE Withdraw(s)
  <2>1. /\ pc[s] = "withdrawing"
        /\ pendingClaims' = [pendingClaims EXCEPT ![RelayOf[s]] = None]
        /\ pc' = [pc EXCEPT ![s] = "refused"]
        /\ UNCHANGED <<sock, agents, lapsed>>
    BY <1>10 DEF Withdraw, Goto
  <2>2. \A t \in Agents : pc[t] \in Announced /\ Calm(RelayOf[t]) => RelayOf[t] # RelayOf[s]
    BY <2>1 DEF TableInv
  <2>3. \A r \in Relays : Calm(r)' = Calm(r)
    BY <2>1 DEF Calm
  <2>4. QED
    BY <1>1, <2>1, <2>2, <2>3 DEF TableInv, Announced, Attached, Detaching
<1>11. QED
  BY <1>2, <1>3, <1>4, <1>5, <1>6, <1>7, <1>8, <1>9, <1>10 DEF RelayStep

(* The end of a socket or of a grant, and a crash.                         *)
LEMMA EndingKeepsTable ==
  ASSUME TypeOK, TableInv,
         (\E s \in Agents : SocketClosed(s) \/ GrantExpires(s)) \/ \E r \in Relays : Crash(r)
  PROVE  TableInv'
<1>1. /\ pc \in [Agents -> {"idle", "refused", "gone"} \cup Registering \cup Attached \cup Detaching]
      /\ sock \in [Agents -> {"open", "closing", "closed"}]
      /\ agents \in [Relays -> Agents \cup {None}]
      /\ pendingClaims \in [Relays -> MaybeOwner \cup {None}]
      /\ \A t \in Agents : RelayOf[t] \in Relays
      /\ None \notin Agents
  BY OwnerType, RelayAssumption DEF TypeOK, RelayTypeOK
<1>2. ASSUME NEW s \in Agents, pc[s] \in Attached, DetachSession(s),
             sock' = [sock EXCEPT ![s] = "closed"], UNCHANGED <<pendingClaims, lapsed>>
      PROVE  TableInv'
  <2>1. /\ agents' = [agents EXCEPT ![RelayOf[s]] =
                       IF agents[RelayOf[s]] = s THEN None ELSE agents[RelayOf[s]]]
        /\ \E to \in Detaching : pc' = [pc EXCEPT ![s] = to]
    BY <1>2 DEF DetachSession, Goto, Detaching
  <2>2. \A r \in Relays : Calm(r)' = Calm(r)
    BY <1>2 DEF Calm
  <2>3. Attached \cap Detaching = {} /\ Announced \cap Detaching = {} /\ "withdrawing" \notin Detaching
    BY DEF Announced, Attached, Detaching
  <2>4. QED
    BY <1>1, <1>2, <2>1, <2>2, <2>3 DEF TableInv
<1>3. ASSUME NEW s \in Agents, SocketClosed(s) PROVE TableInv'
  <2>1. CASE pc[s] \in Attached
    BY <1>2, <1>3, <2>1 DEF SocketClosed
  <2>2. CASE pc[s] \notin Attached
    BY <1>1, <1>3, <2>2, TableKept DEF SocketClosed
  <2>3. QED
    BY <2>1, <2>2
<1>4. ASSUME NEW s \in Agents, GrantExpires(s) PROVE TableInv'
  BY <1>2, <1>4 DEF GrantExpires
<1>5. ASSUME NEW r \in Relays, Crash(r) PROVE TableInv'
  <2>1. \A q \in Relays : Calm(q)' = Calm(q)
    BY <1>5 DEF Crash, Calm
  <2>2. \A t \in Agents :
          IF RelayOf[t] = r /\ pc[t] # "idle"
            THEN pc'[t] = "gone" /\ sock'[t] = "closed"
            ELSE pc'[t] = pc[t] /\ sock'[t] = sock[t]
    BY <1>1, <1>5 DEF Crash
  <2>3. \A q \in Relays : /\ agents'[q] = IF q = r THEN None ELSE agents[q]
                          /\ q # r => pendingClaims'[q] = pendingClaims[q]
    BY <1>1, <1>5 DEF Crash
  <2>4. "gone" \notin Attached /\ "gone" \notin Announced /\ "idle" \notin Attached
          /\ "idle" \notin Announced /\ "idle" \notin Detaching
    BY DEF Announced, Attached, Detaching
  <2>5. QED
    BY <1>1, <2>1, <2>2, <2>3, <2>4 DEF TableInv
<1>6. QED
  BY <1>3, <1>4, <1>5

(* Every step keeps the tables in order.                                   *)
LEMMA TableStep ==
  ASSUME TypeOK, TableInv, ClaimInv, [Next]_vars
  PROVE  TableInv'
<1>1. pc \in [Agents -> {"idle", "refused", "gone"} \cup Registering \cup Attached \cup Detaching]
      /\ sock \in [Agents -> {"open", "closing", "closed"}]
  BY DEF TypeOK, RelayTypeOK
<1>2. ASSUME UNCHANGED <<pc, sock, agents, pendingClaims>>, lapsed \subseteq lapsed' PROVE TableInv'
  BY <1>2, TableKept
<1>3. ASSUME UNCHANGED relayVars PROVE TableInv'
  BY <1>2, <1>3 DEF relayVars
<1>4. ASSUME NEW s \in Agents, AskGateway(s) \/ AskReservation(s) PROVE TableInv'
  BY <1>1, <1>4, TableKept
     DEF AskGateway, AskReservation, Asks, Goto, Attached, Detaching, Announced
<1>5. ASSUME NEW s \in Agents, NothingTaken(s) PROVE TableInv'
  BY <1>1, <1>5, TableKept DEF NothingTaken, Goto, Attached, Detaching, Announced
<1>6. ASSUME NEW s \in Agents, AccessDenied(s) PROVE TableInv'
  BY <1>1, <1>6, TableKept DEF AccessDenied
<1>7. ASSUME NEW r \in Relays, ReservationExpires(r) PROVE TableInv'
  BY <1>2, <1>7 DEF ReservationExpires
<1>8. CASE ClaimExpires \/ NameOwnerExpires
  BY <1>2, <1>8 DEF ClaimExpires, NameOwnerExpires
<1>9. ASSUME NEW v \in Visitors, VisitorStep(v) PROVE TableInv'
  <2>1. CASE PumpSend(v)
    BY <1>1, <2>1, TableKept DEF PumpSend, Pumping, Attached, Detaching, Announced
  <2>2. QED
    BY <1>3, <1>9, <2>1 DEF VisitorStep, TakeRequest
<1>10. ASSUME NEW g \in Pollers, AskRelay(g) \/ AskCoordinator(g) \/ AskOwner(g) \/ AskHeld(g) \/ AskBinding(g)
       PROVE  TableInv'
  BY <1>3, <1>10 DEF AskRelay, AskCoordinator, AskOwner, AskHeld, AskBinding
<1>11. ASSUME NEW g \in Pollers, Lapses(g) PROVE TableInv'
  BY <1>2, <1>11 DEF Lapses
<1>12. CASE UNCHANGED vars
  BY <1>3, <1>12 DEF vars
<1>13. QED
  BY <1>3, <1>4, <1>5, <1>6, <1>7, <1>8, <1>9, <1>10, <1>11, <1>12,
     RelayStepKeepsTable, EndingKeepsTable DEF Next, Detaches

-----------------------------------------------------------------------------
(* The questions of the two transports                                     *)

(* The agent has been told that the gateway has no session in its way.     *)
PastGateway == {"askingReserved", "vacant"} \cup Attached

(* The polling session has passed the relay of its own process, and the    *)
(* coordinator.                                                            *)
PastCoordinator == {"askingHeld", "askingBinding", "accepting", "accepted"}
PastRelay       == {"askingCoordinator", "askingOwner"} \cup PastCoordinator

(* A pair of sessions that are past the other's question.                  *)
Rivals(s, g) ==
  /\ pc[s] \in PastGateway /\ sock[s] = "open" /\ s \notin lapsed
  /\ g \in sessions /\ g \notin lapsed

AskedInv ==
  \A s \in Agents, g \in Pollers :
    Rivals(s, g) =>
      /\ creating[g] \in PastRelay => SameOwner(s, g) \/ Remote(s)
      /\ creating[g] \in PastCoordinator => SameOwner(s, g) \/ BoundBefore(g)

(* Nobody has asked.                                                       *)
LEMMA AskedInit == Init => AskedInv
BY DEF Init, RelayInit, AskedInv, Rivals, PastGateway, Attached

(* A step that brings no session past a question.                          *)
LEMMA AskedKept ==
  ASSUME AskedInv, lapsed \subseteq lapsed', bound \subseteq bound',
         \A s \in Agents : pc'[s] \in PastGateway /\ sock'[s] = "open" =>
                            pc[s] \in PastGateway /\ sock[s] = "open",
         \A g \in Pollers : /\ g \in sessions' /\ creating'[g] \in PastRelay => g \in sessions
                            /\ creating'[g] \in PastRelay => creating[g] \in PastRelay
                            /\ creating'[g] \in PastCoordinator => creating[g] \in PastCoordinator
  PROVE  AskedInv'
<1>1. ASSUME NEW s \in Agents, NEW g \in Pollers
      PROVE  /\ Remote(s) => Remote(s)'
             /\ BoundBefore(g) => BoundBefore(g)'
  BY DEF Remote, BoundBefore
<1>2. ASSUME NEW s \in Agents, NEW g \in Pollers, Rivals(s, g)', creating'[g] \in PastRelay
      PROVE  Rivals(s, g)
  BY <1>2 DEF Rivals
<1>3. PastCoordinator \subseteq PastRelay
  BY DEF PastRelay
<1>4. QED
  BY <1>1, <1>2, <1>3 DEF AskedInv, SameOwner

(* The relay asks: a session that is not in its way is of its owner.       *)
LEMMA GatewayAnswers ==
  ASSUME TypeOK, PollInv, AskedInv, NEW s \in Agents, AskGateway(s)
  PROVE  AskedInv'
<1>1. pc \in [Agents -> {"idle", "refused", "gone"} \cup Registering \cup Attached \cup Detaching]
  BY DEF TypeOK, RelayTypeOK
<1>2. UNCHANGED <<sock, bound, lapsed, sessions, creating>>
  BY DEF AskGateway, Asks, gatewayVars
<1>3. CASE pc' = [pc EXCEPT ![s] = "rejecting"]
  BY <1>1, <1>2, <1>3, AskedKept DEF PastGateway, Attached
<1>4. CASE /\ pc' = [pc EXCEPT ![s] = "askingReserved"]
           /\ ~(Online(name) /\ Blocks(Owner[name], Owner[s]))
  <2>1. ASSUME NEW g \in Pollers, g \in sessions, g \notin lapsed PROVE SameOwner(s, g)
    <3>1. name = g /\ heartbeat[g] = "recent" /\ g # None
      BY <2>1, PollerAssumption DEF PollInv, OnlineSessionKeepsName
    <3>2. QED
      BY <1>4, <3>1 DEF Online, Blocks, SameOwner
  <2>2. \A t \in Agents : t # s => pc'[t] = pc[t]
    BY <1>1, <1>4
  <2>3. ASSUME NEW t \in Agents, NEW g \in Pollers, t # s, Rivals(t, g)' PROVE Rivals(t, g)
    BY <1>2, <2>2, <2>3 DEF Rivals
  <2>4. ASSUME NEW t \in Agents, NEW g \in Pollers
        PROVE  Remote(t)' = Remote(t) /\ BoundBefore(g)' = BoundBefore(g)
    BY <1>2 DEF Remote, BoundBefore
  <2>5. QED
    BY <1>2, <2>1, <2>3, <2>4 DEF AskedInv, SameOwner, Rivals
<1>5. QED
  BY <1>3, <1>4 DEF AskGateway, Asks, Goto

(* The gateway asks the relay of its process, whose tables show every      *)
(* session there that is past the gateway.                                 *)
LEMMA RelayAnswers ==
  ASSUME TypeOK, TableInv, AskedInv, NEW g \in Pollers, AskRelay(g)
  PROVE  AskedInv'
<1>1. creating \in [Pollers -> {"idle", "reading", "vacant", "asking", "askingCoordinator",
                               "askingOwner", "askingHeld", "askingBinding", "rejecting",
                               "accepting", "refused", "accepted"}]
  BY DEF TypeOK, GatewayTypeOK
<1>2. UNCHANGED <<pc, sock, bound, lapsed, sessions>>
  BY DEF AskRelay, AsksRelay, relayVars
<1>3. CASE creating' = [creating EXCEPT ![g] = "rejecting"]
  BY <1>1, <1>2, <1>3, AskedKept DEF PastRelay, PastCoordinator
<1>4. CASE /\ creating' = [creating EXCEPT ![g] = "askingCoordinator"]
           /\ ~ServedLocally(Home, Owner[g])
  <2>1. ASSUME NEW s \in Agents, pc[s] \in PastGateway, sock[s] = "open", ~Remote(s)
        PROVE  SameOwner(s, g)
    <3>1. RelayOf[s] = Home /\ Calm(RelayOf[s])
      BY <2>1 DEF Remote, Calm
    <3>2. CASE pc[s] \in Attached
      <4>1. agents[Home] = s /\ s # None
        BY <3>1, <3>2, RelayAssumption DEF TableInv
      <4>2. QED
        BY <1>4, <2>1, <4>1 DEF ServedLocally, Blocks, SameOwner
    <3>3. CASE pc[s] \in {"askingReserved", "vacant"}
      <4>1. pendingClaims[Home] = Owner[s] /\ Owner[s] # None
        BY <3>1, <3>3, OwnerType, OwnerAssumption DEF TableInv, Announced
      <4>2. QED
        BY <1>4, <4>1 DEF ServedLocally, Blocks, SameOwner
    <3>4. QED
      BY <2>1, <3>2, <3>3 DEF PastGateway
  <2>2. \A h \in Pollers : h # g => creating'[h] = creating[h]
    BY <1>1, <1>4
  <2>3. creating'[g] \notin PastCoordinator
    BY <1>1, <1>4 DEF PastCoordinator
  <2>4. ASSUME NEW s \in Agents, NEW h \in Pollers
        PROVE  /\ Remote(s)' = Remote(s) /\ BoundBefore(h)' = BoundBefore(h)
               /\ Rivals(s, h)' = Rivals(s, h)
    BY <1>2 DEF Remote, BoundBefore, Rivals
  <2>5. QED
    BY <2>1, <2>2, <2>3, <2>4 DEF AskedInv, SameOwner, Rivals
<1>5. QED
  BY <1>3, <1>4 DEF AskRelay, AsksRelay, At

(* The coordinator has the claim of every session past the gateway; it     *)
(* lets the polling session pass only if Redis names its owner.            *)
LEMMA CoordinatorAnswers ==
  ASSUME TypeOK, ClaimInv, AskedInv, NEW g \in Pollers, AskCoordinator(g) \/ AskOwner(g)
  PROVE  AskedInv'
<1>1. creating \in [Pollers -> {"idle", "reading", "vacant", "asking", "askingCoordinator",
                               "askingOwner", "askingHeld", "askingBinding", "rejecting",
                               "accepting", "refused", "accepted"}]
  BY DEF TypeOK, GatewayTypeOK
<1>2. UNCHANGED <<pc, sock, bound, lapsed, sessions>>
  BY DEF AskCoordinator, AskOwner, AsksRelay, relayVars
<1>3. CASE creating' = [creating EXCEPT ![g] = "rejecting"]
  BY <1>1, <1>2, <1>3, AskedKept DEF PastRelay, PastCoordinator
<1>4. CASE /\ creating[g] = "askingCoordinator"
           /\ creating' = [creating EXCEPT ![g] = "askingOwner"]
  BY <1>1, <1>2, <1>4, AskedKept DEF PastRelay, PastCoordinator
<1>5. CASE /\ creating[g] \in {"askingCoordinator", "askingOwner"}
           /\ creating' = [creating EXCEPT ![g] = "askingHeld"]
           /\ claim = None \/ ~Blocks(nameOwner, Owner[g])
  <2>1. ASSUME NEW s \in Agents, Rivals(s, g) PROVE BoundBefore(g)
    <3>1. claim = s /\ s # None
      BY <2>1, RelayAssumption DEF Rivals, ClaimInv, HoldInv, Holding, PastGateway
    <3>2. nameOwner = Owner[g] /\ Owner[g] # NoOwner
      BY <1>5, <3>1 DEF Blocks
    <3>3. QED
      BY <3>2 DEF ClaimInv, BoundInv, BoundBefore
  <2>2. \A h \in Pollers : h # g => creating'[h] = creating[h]
    BY <1>1, <1>5
  <2>3. creating[g] \in PastRelay
    BY <1>5 DEF PastRelay
  <2>4. ASSUME NEW s \in Agents, NEW h \in Pollers
        PROVE  /\ Remote(s)' = Remote(s) /\ BoundBefore(h)' = BoundBefore(h)
               /\ Rivals(s, h)' = Rivals(s, h)
    BY <1>2 DEF Remote, BoundBefore, Rivals
  <2>5. QED
    BY <2>1, <2>2, <2>3, <2>4 DEF AskedInv, SameOwner
<1>6. QED
  BY <1>3, <1>4, <1>5 DEF AskCoordinator, AskOwner, AsksRelay, At

(* Every step keeps what the questions have settled.                       *)
LEMMA AskedStep ==
  ASSUME TypeOK, ClaimInv, PollInv, TableInv, AskedInv, [Next]_vars
  PROVE  AskedInv'
<1>1. /\ pc \in [Agents -> {"idle", "refused", "gone"} \cup Registering \cup Attached \cup Detaching]
      /\ sock \in [Agents -> {"open", "closing", "closed"}]
      /\ creating \in [Pollers -> {"idle", "reading", "vacant", "asking", "askingCoordinator",
                                   "askingOwner", "askingHeld", "askingBinding", "rejecting",
                                   "accepting", "refused", "accepted"}]
  BY DEF TypeOK, RelayTypeOK, GatewayTypeOK
<1>2. ASSUME UNCHANGED <<sessions, creating>>, lapsed \subseteq lapsed', bound \subseteq bound',
             \A s \in Agents : pc'[s] \in PastGateway /\ sock'[s] = "open" =>
                                pc[s] \in PastGateway /\ sock[s] = "open"
      PROVE  AskedInv'
  BY <1>2, AskedKept
<1>3. ASSUME NEW s \in Agents, RelayStep(s), UNCHANGED gatewayVars PROVE AskedInv'
  <2>1. UNCHANGED <<sessions, creating>>
    BY <1>3 DEF gatewayVars
  <2>2. CASE Register(s) \/ FindNameOwner(s) \/ ClaimSession(s) \/ AnnounceClaim(s) \/ RejectClaim(s)
               \/ Withdraw(s)
    BY <1>1, <1>2, <2>1, <2>2
       DEF Register, FindNameOwner, ClaimSession, AnnounceClaim, RejectClaim, Withdraw, Goto, PastGateway, Attached
  <2>3. CASE Admit(s) \/ Bind(s) \/ RefreshReservation(s)
    BY <1>1, <1>2, <2>1, <2>3
       DEF Admit, Bind, RefreshReservation, PumpFails, BindName, Goto, PastGateway, Attached
  <2>4. CASE Touch(s) \/ Closes(s)
    BY <1>1, <1>2, <2>1, <2>4 DEF Touch, Closes, Goto, PastGateway, Attached
  <2>5. CASE ReserveName(s) \/ ReleaseSession(s)
    BY <1>1, <1>2, <2>1, <2>5 DEF ReserveName, ReleaseSession, BindName, Goto, PastGateway, Attached
  <2>6. QED
    BY <1>3, <2>2, <2>3, <2>4, <2>5 DEF RelayStep
<1>4. ASSUME NEW s \in Agents, Detaches(s) PROVE AskedInv'
  <2>1. UNCHANGED <<sessions, creating, lapsed, bound>>
    BY <1>4 DEF Detaches, SocketClosed, GrantExpires, gatewayVars
  <2>2. sock' = [sock EXCEPT ![s] = "closed"]
    BY <1>4 DEF Detaches, SocketClosed, GrantExpires
  <2>3. \A t \in Agents : t # s => pc'[t] = pc[t]
    BY <1>1, <1>4 DEF Detaches, SocketClosed, GrantExpires, DetachSession, Goto
  <2>4. QED
    BY <1>1, <1>2, <2>1, <2>2, <2>3
<1>5. ASSUME NEW s \in Agents, AskReservation(s) PROVE AskedInv'
  BY <1>1, <1>2, <1>5 DEF AskReservation, Asks, Goto, gatewayVars, PastGateway, Attached
<1>6. ASSUME NEW s \in Agents, NothingTaken(s) \/ AccessDenied(s), UNCHANGED gatewayVars PROVE AskedInv'
  BY <1>1, <1>2, <1>6 DEF NothingTaken, AccessDenied, Goto, gatewayVars, PastGateway, Attached
<1>7. ASSUME NEW r \in Relays, Crash(r) \/ ReservationExpires(r), UNCHANGED gatewayVars PROVE AskedInv'
  BY <1>1, <1>2, <1>7 DEF Crash, ReservationExpires, gatewayVars
<1>8. ASSUME ClaimExpires \/ NameOwnerExpires, UNCHANGED gatewayVars PROVE AskedInv'
  BY <1>2, <1>8 DEF ClaimExpires, NameOwnerExpires, gatewayVars
<1>9. ASSUME NEW v \in Visitors, VisitorStep(v), UNCHANGED gatewayVars PROVE AskedInv'
  <2>1. CASE PumpSend(v)
    BY <1>1, <1>2, <1>9, <2>1 DEF PumpSend, Pumping, gatewayVars, PastGateway, Attached
  <2>2. QED
    BY <1>2, <1>9, <2>1 DEF VisitorStep, TakeRequest, gatewayVars, relayVars
<1>10. ASSUME NEW g \in Pollers, PollerStep(g), UNCHANGED relayVars PROVE AskedInv'
  <2>1. UNCHANGED <<pc, sock, lapsed, bound>>
    BY <1>10 DEF relayVars
  <2>2. CASE FindSession(g) \/ FindReservation(g) \/ StoreSession(g) \/ RejectSession(g)
               \/ AcceptSession(g)
    BY <1>1, <2>1, <2>2, AskedKept
       DEF FindSession, FindReservation, StoreSession, RejectSession, AcceptSession, DeleteSession,
           At, PastRelay, PastCoordinator
  <2>3. CASE MarkSessionOnline(g) \/ TouchedByVisitor(g) \/ Release(g) \/ FindCurrent(g)
               \/ ReserveBeforeDelete(g)
    BY <1>2, <2>1, <2>3 DEF MarkSessionOnline, TouchedByVisitor, Release, FindCurrent, ReserveBeforeDelete
  <2>4. CASE ReleaseDeletes(g) \/ SessionExpires(g)
    BY <2>1, <2>4, AskedKept DEF ReleaseDeletes, SessionExpires, DeleteSession
  <2>5. QED
    BY <1>10, <2>2, <2>3, <2>4 DEF PollerStep
<1>11. ASSUME NEW g \in Pollers, AskHeld(g) \/ AskBinding(g) PROVE AskedInv'
  BY <1>1, <1>11, AskedKept
     DEF AskHeld, AskBinding, AsksRelay, At, relayVars, PastRelay, PastCoordinator
<1>12. ASSUME NEW g \in Pollers, Lapses(g) PROVE AskedInv'
  BY <1>2, <1>12 DEF Lapses, HeartbeatMissed
<1>13. CASE GatewayReservationExpires /\ UNCHANGED <<relayVars, visitorVars>>
  BY <1>2, <1>13 DEF GatewayReservationExpires, relayVars
<1>14. CASE UNCHANGED vars
  BY <1>2, <1>14 DEF vars, relayVars, gatewayVars
<1>15. QED
  BY <1>3, <1>4, <1>5, <1>6, <1>7, <1>8, <1>9, <1>10, <1>11, <1>12, <1>13, <1>14,
     GatewayAnswers, RelayAnswers, CoordinatorAnswers DEF Next

-----------------------------------------------------------------------------
(* The visitors                                                            *)

(* The session of a request once routed to a socket of the same relay.     *)
RoutedInv(v) ==
  /\ visit[v] \in {"idle", "finding", "uploading", "uploadingShared"} =>
       message[v] = "none" /\ cancel[v] = "none"
  /\ visit[v] = "waiting" => cancel[v] = "none" /\ message[v] \in {"sent", "unsendable"}
  /\ visit[v] \in {"uploading", "waiting"} =>
       /\ target[v] \in Agents /\ RelayOf[target[v]] = EntryOf[v]
       /\ pc[target[v]] \in Attached \cup Detaching \cup {"gone"}
  /\ visit[v] = "waiting" /\ message[v] = "sent" /\ Calm(EntryOf[v]) => pc[target[v]] \in Attached

VisitInv == \A v \in Visitors : RoutedInv(v)

(* Nobody has come yet.                                                    *)
LEMMA VisitInit == Init => VisitInv
BY DEF Init, VisitorsInit, VisitInv, RoutedInv

(* A request that does not move, or fails, is watched as long as its       *)
(* session stays attached.                                                 *)
LEMMA RoutedKept ==
  ASSUME NEW v \in Visitors, RoutedInv(v), UNCHANGED <<target, message, cancel>>,
         visit'[v] = visit[v] \/ visit'[v] = "failed",
         lapsed \subseteq lapsed',
         \A t \in Agents : pc[t] \in Attached \cup Detaching \cup {"gone"} =>
                            pc'[t] \in Attached \cup Detaching \cup {"gone"},
         visit'[v] = "waiting" /\ Calm(EntryOf[v]) /\ pc[target[v]] \in Attached => pc'[target[v]] \in Attached
  PROVE  RoutedInv(v)'
<1>1. Calm(EntryOf[v])' => Calm(EntryOf[v])
  BY DEF Calm
<1>2. QED
  BY <1>1 DEF RoutedInv

(* The steps of an agent leave a session attached, or begin or end it.     *)
LEMMA RelayStepKeepsVisits ==
  ASSUME TypeOK, VisitInv, NEW s \in Agents,
         RelayStep(s) \/ AskGateway(s) \/ AskReservation(s) \/ NothingTaken(s),
         UNCHANGED visitorVars
  PROVE  VisitInv'
<1>1. pc \in [Agents -> {"idle", "refused", "gone"} \cup Registering \cup Attached \cup Detaching]
  BY DEF TypeOK, RelayTypeOK
<1>2. ASSUME UNCHANGED lapsed,
             \A t \in Agents : pc[t] \in Attached => pc'[t] \in Attached,
             \A t \in Agents : pc[t] \in Detaching \cup {"gone"} => pc'[t] \in Detaching \cup {"gone"}
      PROVE  VisitInv'
  <2>1. ASSUME NEW v \in Visitors PROVE RoutedInv(v)'
    <3>1. UNCHANGED <<visit, target, message, cancel>>
      BY DEF visitorVars
    <3>2. visit'[v] = "waiting" => target[v] \in Agents
      BY <3>1 DEF VisitInv, RoutedInv
    <3>3. QED
      BY <1>2, <3>1, <3>2, RoutedKept DEF VisitInv
  <2>2. QED
    BY <2>1 DEF VisitInv
<1>3. CASE Register(s) \/ FindNameOwner(s) \/ ClaimSession(s) \/ AnnounceClaim(s) \/ RejectClaim(s)
             \/ Withdraw(s)
  BY <1>1, <1>2, <1>3
     DEF Register, FindNameOwner, ClaimSession, AnnounceClaim, RejectClaim, Withdraw, Goto, Attached, Detaching
<1>4. CASE AskGateway(s) \/ AskReservation(s) \/ NothingTaken(s)
  BY <1>1, <1>2, <1>4
     DEF AskGateway, AskReservation, NothingTaken, Asks, Goto, Attached, Detaching
<1>5. CASE Admit(s) \/ Bind(s) \/ RefreshReservation(s)
  BY <1>1, <1>2, <1>5 DEF Admit, Bind, RefreshReservation, PumpFails, Goto, Attached, Detaching
<1>6. CASE Touch(s) \/ Closes(s)
  BY <1>1, <1>2, <1>6 DEF Touch, Closes, Goto, Attached, Detaching
<1>7. CASE ReserveName(s) \/ ReleaseSession(s)
  BY <1>1, <1>2, <1>7 DEF ReserveName, ReleaseSession, Goto, Attached, Detaching
<1>8. QED
  BY <1>3, <1>4, <1>5, <1>6, <1>7 DEF RelayStep

(* A session that is detached, found in the table of its relay if that is  *)
(* calm, fails its pending requests.                                       *)
LEMMA DetachFailsVisits ==
  ASSUME TypeOK, TableInv, VisitInv, NEW s \in Agents, Detaches(s)
  PROVE  VisitInv'
<1>1. pc \in [Agents -> {"idle", "refused", "gone"} \cup Registering \cup Attached \cup Detaching]
      /\ visit \in [Visitors -> {"idle", "finding", "publishing"} \cup Uploading \cup Delivered \cup Over]
  BY DEF TypeOK, RelayTypeOK, VisitorsTypeOK
<1>2. UNCHANGED <<lapsed, target, message, cancel>>
  BY DEF Detaches, SocketClosed, GrantExpires, VisitorsDetached
<1>3. pc' = pc \/ (pc[s] \in Attached /\ \E to \in Detaching : pc' = [pc EXCEPT ![s] = to])
  BY DEF Detaches, SocketClosed, GrantExpires, DetachSession, Goto, Attached, Detaching
<1>4. ASSUME NEW v \in Visitors PROVE RoutedInv(v)'
  <2>1. visit'[v] = visit[v] \/ visit'[v] = "failed"
    BY <1>1 DEF Detaches, VisitorsDetached, FailPending
  <2>2. ASSUME visit'[v] = "waiting", Calm(EntryOf[v]), pc[target[v]] \in Attached
        PROVE  pc'[target[v]] \in Attached
    <3>1. visit[v] = "waiting" /\ target[v] \in Agents /\ RelayOf[target[v]] = EntryOf[v]
      BY <2>1, <2>2 DEF VisitInv, RoutedInv
    <3>2. CASE target[v] = s
      <4>1. agents[RelayOf[s]] = s /\ pc[s] \in Attached
        BY <2>2, <3>1, <3>2 DEF TableInv
      <4>2. visit'[v] = "failed"
        BY <1>1, <3>1, <3>2, <4>1 DEF Detaches, VisitorsDetached, FailPending
      <4>3. QED
        BY <2>2, <4>2
    <3>3. CASE target[v] # s
      BY <1>1, <1>3, <2>2, <3>1, <3>3
    <3>4. QED
      BY <3>2, <3>3
  <2>3. \A t \in Agents : pc[t] \in Attached \cup Detaching \cup {"gone"} =>
                          pc'[t] \in Attached \cup Detaching \cup {"gone"}
    BY <1>1, <1>3
  <2>4. QED
    BY <1>2, <2>1, <2>2, <2>3, RoutedKept DEF VisitInv
<1>5. QED
  BY <1>4 DEF VisitInv

(* A crash ends the requests its relay had received.                       *)
LEMMA CrashFailsVisits ==
  ASSUME TypeOK, VisitInv, NEW r \in Relays, Crash(r), VisitorsCrashed(r)
  PROVE  VisitInv'
<1>1. visit \in [Visitors -> {"idle", "finding", "publishing"} \cup Uploading \cup Delivered \cup Over]
  BY DEF TypeOK, VisitorsTypeOK
<1>2. UNCHANGED <<lapsed, target, cancel>>
  BY DEF Crash, VisitorsCrashed
<1>3. \A t \in Agents : pc'[t] = IF RelayOf[t] = r /\ pc[t] # "idle" THEN "gone" ELSE pc[t]
  BY DEF Crash
<1>4. ASSUME NEW v \in Visitors PROVE RoutedInv(v)'
  <2>1. IF EntryOf[v] = r /\ visit[v] \notin {"idle"} \cup Over
          THEN visit'[v] = "failed" ELSE visit'[v] = visit[v]
    BY DEF VisitorsCrashed
  <2>2. message[v] # "taken" => message'[v] = message[v]
    BY DEF VisitorsCrashed, TypeOK, VisitorsTypeOK
  <2>3. Calm(EntryOf[v])' = Calm(EntryOf[v])
    BY <1>2 DEF Calm
  <2>4. RoutedInv(v)
    BY DEF VisitInv
  <2>5. CASE visit'[v] = "failed"
    BY <2>5 DEF RoutedInv
  <2>6. CASE visit'[v] = visit[v] /\ visit[v] \in {"uploading", "waiting"}
    <3>1. EntryOf[v] # r
      BY <2>1, <2>6 DEF Over
    <3>2. target[v] \in Agents /\ RelayOf[target[v]] # r
      BY <2>4, <2>6, <3>1 DEF RoutedInv
    <3>3. pc'[target[v]] = pc[target[v]] /\ message'[v] = message[v]
      BY <1>3, <2>2, <2>4, <2>6, <3>2 DEF RoutedInv
    <3>4. QED
      BY <1>2, <2>3, <2>4, <2>6, <3>3 DEF RoutedInv
  <2>7. CASE visit'[v] = visit[v] /\ visit[v] \notin {"uploading", "waiting"}
    BY <1>2, <2>2, <2>4, <2>7 DEF RoutedInv
  <2>8. QED
    BY <2>1, <2>5, <2>6, <2>7
<1>5. QED
  BY <1>4 DEF VisitInv

(* The steps of a request.                                                 *)
LEMMA VisitorStepKeepsVisits ==
  ASSUME TypeOK, TableInv, VisitInv, NEW v \in Visitors, VisitorStep(v)
  PROVE  VisitInv'
<1>1. /\ pc \in [Agents -> {"idle", "refused", "gone"} \cup Registering \cup Attached \cup Detaching]
      /\ agents \in [Relays -> Agents \cup {None}]
      /\ visit \in [Visitors -> {"idle", "finding", "publishing"} \cup Uploading \cup Delivered \cup Over]
      /\ target \in [Visitors -> Agents \cup {None}]
      /\ message \in [Visitors -> {"none", "unsendable", "queued", "taken", "sent", "lost", "published", "done"}]
      /\ cancel \in [Visitors -> {"none", "queued", "taken", "done"}]
  BY DEF TypeOK, RelayTypeOK, VisitorsTypeOK
<1>2. UNCHANGED lapsed
  BY DEF VisitorStep, TakeRequest, PumpSend, relayVars
<1>3. \A t \in Agents : /\ pc[t] \in Attached => pc'[t] \in Attached
                        /\ pc[t] \in Detaching \cup {"gone"} => pc'[t] = pc[t]
  <2>1. CASE PumpSend(v)
    BY <1>1, <2>1 DEF PumpSend, Pumping, Attached, Detaching
  <2>2. QED
    BY <2>1 DEF VisitorStep, TakeRequest, relayVars
<1>4. \A w \in Visitors : w # v =>
        visit'[w] = visit[w] /\ target'[w] = target[w] /\ message'[w] = message[w] /\ cancel'[w] = cancel[w]
  <2>1. CASE TakeRequest(v) \/ PumpSend(v)
    BY <1>1, <2>1 DEF TakeRequest, PumpSend, Moves
  <2>2. CASE Arrive(v) \/ FindSharedSession(v) \/ Send(v) \/ SendFails(v) \/ PublishRequest(v)
    BY <1>1, <2>2 DEF Arrive, FindSharedSession, Send, SendFails, PublishRequest, Visit, Moves
  <2>3. CASE Published(v) \/ GiveUp(v) \/ Respond(v) \/ TakeResponse(v)
    BY <1>1, <2>3 DEF Published, GiveUp, Respond, TakeResponse, Visit, Moves
  <2>4. QED
    BY <2>1, <2>2, <2>3 DEF VisitorStep
<1>5. ASSUME NEW w \in Visitors PROVE Calm(EntryOf[w])' = Calm(EntryOf[w])
  BY <1>2 DEF Calm
<1>6. ASSUME NEW w \in Visitors, w # v PROVE RoutedInv(w)'
  BY <1>3, <1>4, <1>5, <1>6 DEF VisitInv, RoutedInv
<1>7. RoutedInv(v)'
  <2>1. RoutedInv(v)
    BY DEF VisitInv
  <2>2. CASE TakeRequest(v)
    BY <1>1, <1>3, <1>5, <2>1, <2>2 DEF TakeRequest, RoutedInv, Moves
  <2>3. CASE PumpSend(v)
    BY <1>1, <1>3, <1>5, <2>1, <2>3 DEF PumpSend, RoutedInv, Moves
  <2>4. CASE Arrive(v) /\ UNCHANGED relayVars
    <3>1. CASE visit'[v] = "uploading"
      <4>1. /\ target'[v] = agents[EntryOf[v]] /\ agents[EntryOf[v]] # None /\ EntryOf[v] \in Relays
            /\ visit[v] = "idle" /\ UNCHANGED <<pc, message, cancel>>
        BY <1>1, <2>4, <3>1, VisitorAssumption DEF Arrive, Visit, relayVars
      <4>2. target'[v] \in Agents /\ RelayOf[target'[v]] = EntryOf[v] /\ pc'[target'[v]] \in Attached
        BY <1>1, <4>1 DEF TableInv
      <4>3. QED
        BY <2>1, <3>1, <4>1, <4>2 DEF RoutedInv
    <3>2. CASE visit'[v] = "finding"
      BY <2>1, <2>4, <3>2 DEF Arrive, RoutedInv
    <3>3. QED
      BY <1>1, <2>4, <3>1, <3>2 DEF Arrive, Visit
  <2>5. CASE FindSharedSession(v)
    BY <1>1, <2>1, <2>5 DEF FindSharedSession, Visit, RoutedInv
  <2>6. CASE Send(v) /\ UNCHANGED relayVars
    <3>1. /\ visit[v] = "uploading" /\ visit'[v] = "waiting"
          /\ UNCHANGED <<target, cancel, pc>>
          /\ message'[v] \in {"unsendable", "sent"}
          /\ message'[v] = "sent" => sock[target[v]] = "open"
      BY <1>1, <2>6 DEF Send, Visit, Moves, relayVars
    <3>2. target[v] \in Agents /\ pc[target[v]] \in Attached \cup Detaching \cup {"gone"}
      BY <2>1, <3>1 DEF RoutedInv
    <3>3. message'[v] = "sent" => pc[target[v]] \in Attached
      BY <3>1, <3>2 DEF TableInv
    <3>4. QED
      BY <2>1, <3>1, <3>2, <3>3 DEF RoutedInv
  <2>7. CASE SendFails(v) \/ PublishRequest(v) \/ Published(v)
    BY <1>1, <2>1, <2>7 DEF SendFails, PublishRequest, Published, Visit, Moves, RoutedInv
  <2>8. CASE GiveUp(v)
    BY <1>1, <2>1, <2>8 DEF GiveUp, Visit, RoutedInv
  <2>9. CASE TakeResponse(v)
    BY <1>1, <2>1, <2>9 DEF TakeResponse, Visit, Moves, RoutedInv
  <2>10. CASE Respond(v)
    <3>1. CASE visit[v] = "waiting"
      BY <1>1, <2>10, <3>1 DEF Respond, Visit, Moves, RoutedInv
    <3>2. CASE visit[v] # "waiting"
      BY <1>1, <2>1, <2>10, <3>2 DEF Respond, Moves, RoutedInv
    <3>3. QED
      BY <3>1, <3>2
  <2>11. QED
    BY <2>2, <2>3, <2>4, <2>5, <2>6, <2>7, <2>8, <2>9, <2>10 DEF VisitorStep
<1>8. QED
  BY <1>6, <1>7 DEF VisitInv

(* Every step keeps the requests watched.                                  *)
LEMMA VisitStep ==
  ASSUME TypeOK, TableInv, VisitInv, [Next]_vars
  PROVE  VisitInv'
<1>1. ASSUME UNCHANGED <<pc, visitorVars>>, lapsed \subseteq lapsed' PROVE VisitInv'
  BY <1>1, RoutedKept DEF VisitInv, visitorVars
<1>2. ASSUME UNCHANGED <<relayVars, visitorVars>> PROVE VisitInv'
  BY <1>1, <1>2 DEF relayVars
<1>3. ASSUME NEW s \in Agents, AskGateway(s) \/ AskReservation(s) PROVE VisitInv'
  BY <1>3, RelayStepKeepsVisits DEF AskGateway, AskReservation
<1>4. ASSUME NEW s \in Agents, NothingTaken(s) PROVE VisitInv'
  BY <1>4, RelayStepKeepsVisits DEF NothingTaken
<1>5. ASSUME NEW s \in Agents, AccessDenied(s) PROVE VisitInv'
  <2>1. UNCHANGED <<pc, lapsed, target, message, cancel>>
    BY <1>5 DEF AccessDenied
  <2>2. \A v \in Visitors : visit'[v] = visit[v] \/ visit'[v] = "failed"
    BY <1>5 DEF AccessDenied
  <2>3. QED
    BY <2>1, <2>2, RoutedKept DEF VisitInv
<1>6. ASSUME NEW r \in Relays, ReservationExpires(r), UNCHANGED visitorVars PROVE VisitInv'
  BY <1>1, <1>6 DEF ReservationExpires
<1>7. ASSUME ClaimExpires \/ NameOwnerExpires, UNCHANGED visitorVars PROVE VisitInv'
  BY <1>1, <1>7 DEF ClaimExpires, NameOwnerExpires
<1>8. ASSUME NEW g \in Pollers, AskRelay(g) \/ AskCoordinator(g) \/ AskOwner(g) \/ AskHeld(g) \/ AskBinding(g)
      PROVE  VisitInv'
  BY <1>2, <1>8 DEF AskRelay, AskCoordinator, AskOwner, AskHeld, AskBinding
<1>9. ASSUME NEW g \in Pollers, Lapses(g) PROVE VisitInv'
  BY <1>1, <1>9 DEF Lapses
<1>10. CASE UNCHANGED vars
  BY <1>2, <1>10 DEF vars
<1>11. QED
  BY <1>2, <1>3, <1>4, <1>5, <1>6, <1>7, <1>8, <1>9, <1>10,
     RelayStepKeepsVisits, DetachFailsVisits, CrashFailsVisits, VisitorStepKeepsVisits DEF Next

-----------------------------------------------------------------------------
(* The invariant of the names, in the order in which its parts rest on     *)
(* each other.                                                             *)
NamesInv == TypeOK /\ ClaimInv /\ PollInv /\ TableInv /\ AskedInv /\ VisitInv

(* It holds at every state of every behaviour.                             *)
THEOREM Inductive == Spec => []NamesInv
<1>1. Init => NamesInv
  BY TypeInit, ClaimInit, PollInit, TableInit, AskedInit, VisitInit DEF NamesInv
<1>2. NamesInv /\ [Next]_vars => NamesInv'
  BY TypeStep, ClaimStep, PollStep, TableStep, AskedStep, VisitStep DEF NamesInv
<1>3. QED
  BY <1>1, <1>2, PTL DEF Spec

(* A session that serves the name, and was never silent for too long, has  *)
(* the claim in Redis, whatever other sessions release or lose.            *)
THEOREM ClaimHeld == Spec => []ServingHoldsClaim
<1>1. NamesInv => ServingHoldsClaim
  BY DEF NamesInv, ClaimInv, HoldInv, Holding, ServingHoldsClaim, Serving
<1>2. QED
  BY <1>1, Inductive, PTL

(* Who writes a binding has been admitted and has not released its claim   *)
(* yet, so it holds the claim or has lapsed.                               *)
LEMMA BindingWritten ==
  ASSUME TypeOK, HoldInv, [Next]_vars, nameOwner' \notin {nameOwner, NoOwner}
  PROVE  \E s \in Agents : Owner[s] = nameOwner' /\ (claim = s \/ s \in lapsed)
<1>1. \E s \in Agents : Bind(s) \/ RefreshReservation(s) \/ ReserveName(s)
  <2>1. ASSUME NEW s \in Agents, RelayStep(s)
        PROVE  Bind(s) \/ RefreshReservation(s) \/ ReserveName(s)
    BY <2>1 DEF RelayStep, Register, FindNameOwner, ClaimSession, AnnounceClaim, RejectClaim,
                Withdraw, Admit, Touch, Closes, ReleaseSession, redisVars
  <2>2. ASSUME NEW s \in Agents,
               Detaches(s) \/ AskGateway(s) \/ AskReservation(s) \/ NothingTaken(s) \/ AccessDenied(s)
        PROVE  FALSE
    BY <2>2 DEF Detaches, SocketClosed, GrantExpires, AskGateway, AskReservation, Asks,
                NothingTaken, AccessDenied, redisVars
  <2>3. ASSUME NEW r \in Relays, Crash(r) \/ ReservationExpires(r) PROVE FALSE
    BY <2>3 DEF Crash, ReservationExpires, redisVars
  <2>4. CASE ClaimExpires \/ NameOwnerExpires
    BY <2>4 DEF ClaimExpires, NameOwnerExpires
  <2>5. ASSUME NEW v \in Visitors, VisitorStep(v) PROVE FALSE
    BY <2>5 DEF VisitorStep, TakeRequest, PumpSend, relayVars, redisVars
  <2>6. ASSUME NEW g \in Pollers,
               AskRelay(g) \/ AskCoordinator(g) \/ AskOwner(g) \/ AskHeld(g) \/ AskBinding(g) \/ Lapses(g)
        PROVE  FALSE
    BY <2>6 DEF AskRelay, AskCoordinator, AskOwner, AskHeld, AskBinding, Lapses, relayVars, redisVars
  <2>7. CASE UNCHANGED relayVars \/ UNCHANGED vars
    BY <2>7 DEF vars, relayVars, redisVars
  <2>8. QED
    BY <2>1, <2>2, <2>3, <2>4, <2>5, <2>6, <2>7 DEF Next
<1>2. PICK s \in Agents : Bind(s) \/ RefreshReservation(s) \/ ReserveName(s)
  BY <1>1
<1>3. pc[s] \in Attached \cup Detaching /\ Owner[s] = nameOwner'
  BY <1>2 DEF Bind, RefreshReservation, ReserveName, BindName, Attached, Detaching
<1>4. QED
  BY <1>3 DEF HoldInv, Holding

(* Only the session that holds the claim binds the name, or one that has   *)
(* lost it for having been silent too long: a session that is detached     *)
(* binds before it releases.                                               *)
THEOREM BindingByHolder == Spec => BoundByHolder
<1>1. NamesInv /\ [Next]_vars =>
        [nameOwner' \notin {nameOwner, NoOwner} =>
           \E s \in Agents : Owner[s] = nameOwner' /\ (claim = s \/ s \in lapsed)]_vars
  BY BindingWritten DEF NamesInv, ClaimInv
<1>2. QED
  BY <1>1, Inductive, PTL DEF Spec, BoundByHolder

(* The name leads to the polling session whose client is heard of.         *)
THEOREM NameHeld == Spec => []OnlineSessionKeepsName
<1>1. NamesInv => OnlineSessionKeepsName
  BY DEF NamesInv, PollInv
<1>2. QED
  BY <1>1, Inductive, PTL

(* The two transports give the name to different owners only where the     *)
(* relay session is out of sight and Redis still names the other owner.    *)
THEOREM NamesAgree == Spec => []TransportsAgree
<1>1. ASSUME NamesInv, NEW s \in Agents, NEW g \in Pollers, Serve(s, g)
      PROVE  SameOwner(s, g) \/ (Remote(s) /\ BoundBefore(g))
  <2>1. Rivals(s, g) /\ creating[g] \in PastRelay /\ creating[g] \in PastCoordinator
    BY <1>1 DEF Serve, Serving, Rivals, PastGateway, PastRelay, PastCoordinator
  <2>2. QED
    BY <1>1, <2>1 DEF NamesInv, AskedInv
<1>2. NamesInv => TransportsAgree
  BY <1>1 DEF TransportsAgree
<1>3. QED
  BY <1>2, Inductive, PTL

(* A request pending on a relay is answered or failed without its timer.   *)
THEOREM PendingWatched == Spec => []PendingIsWatched
<1>1. ASSUME NamesInv, NEW v \in Visitors, visit[v] = "waiting", message[v] # "unsendable",
             ~\E u \in lapsed \cap Agents : RelayOf[u] = RelayOf[target[v]]
      PROVE  message[v] = "sent" /\ pc[target[v]] \in Attached /\ agents[RelayOf[target[v]]] = target[v]
  <2>1. /\ message[v] = "sent" /\ target[v] \in Agents /\ RelayOf[target[v]] = EntryOf[v]
    BY <1>1 DEF NamesInv, VisitInv, RoutedInv
  <2>2. Calm(EntryOf[v])
    BY <1>1, <2>1 DEF Calm
  <2>3. pc[target[v]] \in Attached
    BY <1>1, <2>1, <2>2 DEF NamesInv, VisitInv, RoutedInv
  <2>4. QED
    BY <1>1, <2>1, <2>2, <2>3 DEF NamesInv, TableInv
<1>2. NamesInv => PendingIsWatched
  BY <1>1 DEF PendingIsWatched
<1>3. QED
  BY <1>2, Inductive, PTL

-----------------------------------------------------------------------------
(* The names are leased. Every action maps to one of LeasedName's, over    *)
(* the relays and over the polling gateway; an action about another        *)
(* transport, about visitors or about messages maps to a stutter.          *)

(* No session holds the name, serves it or has lapsed.                     *)
LEMMA LeaseInits == Init => RelayLease!LeaseInit /\ GatewayLease!LeaseInit
BY DEF Init, RelayInit, GatewayInit, RelayLease!LeaseInit, GatewayLease!LeaseInit, Serving, Attached

(* A step that leaves the claim, and whoever serves the name, alone.       *)
LEMMA RelayLeaseKept ==
  ASSUME UNCHANGED claim, lapsed' \cap Agents = lapsed \cap Agents,
         \A t \in Agents : pc'[t] \in Attached <=> pc[t] \in Attached
  PROVE  [RelayLease!LeaseNext]_(RelayLease!leaseVars)
<1>1. {t \in Agents : Serving(t)}' = {t \in Agents : Serving(t)}
  BY DEF Serving
<1>2. QED
  BY <1>1 DEF RelayLease!leaseVars

(* The session ends, and frees at most its own claim.                      *)
LEMMA RelayLeaves ==
  ASSUME NEW s \in Agents, claim' = claim \/ (claim = s /\ claim' = None), UNCHANGED lapsed,
         \A t \in Agents : pc'[t] \in Attached <=> pc[t] \in Attached /\ t # s
  PROVE  RelayLease!LeaseNext
<1>1. {t \in Agents : Serving(t)}' = {t \in Agents : Serving(t)} \ {s}
  BY DEF Serving
<1>2. RelayLease!Leave(s)
  BY <1>1 DEF RelayLease!Leave, RelayLease!Without
<1>3. QED
  BY <1>2 DEF RelayLease!LeaseNext

(* The steps of an agent.                                                  *)
LEMMA RelayStepLeases ==
  ASSUME TypeOK, HoldInv, NEW s \in Agents, RelayStep(s)
  PROVE  [RelayLease!LeaseNext]_(RelayLease!leaseVars)
<1>1. pc \in [Agents -> {"idle", "refused", "gone"} \cup Registering \cup Attached \cup Detaching]
  BY DEF TypeOK, RelayTypeOK
<1>2. CASE Register(s) \/ FindNameOwner(s) \/ AnnounceClaim(s) \/ Withdraw(s) \/ Touch(s) \/ Closes(s)
             \/ Bind(s) \/ RefreshReservation(s) \/ ReserveName(s)
  <2>1. UNCHANGED <<claim, lapsed>>
    BY <1>2 DEF Register, FindNameOwner, AnnounceClaim, Withdraw, Touch, Closes, Bind,
                RefreshReservation, ReserveName, redisVars
  <2>2. \A t \in Agents : pc'[t] \in Attached <=> pc[t] \in Attached
    BY <1>1, <1>2
       DEF Register, FindNameOwner, AnnounceClaim, Withdraw, Touch, Closes, Bind,
           RefreshReservation, PumpFails, ReserveName, Goto, Attached
  <2>3. QED
    BY <2>1, <2>2, RelayLeaseKept
<1>3. CASE ClaimSession(s)
  <2>1. \A t \in Agents : pc'[t] \in Attached <=> pc[t] \in Attached
    BY <1>1, <1>3 DEF ClaimSession, Goto, Attached
  <2>2. CASE claim = None /\ claim' = s
    <3>1. {t \in Agents : Serving(t)}' = {t \in Agents : Serving(t)}
      BY <2>1 DEF Serving
    <3>2. RelayLease!Take(s)
      BY <1>3, <2>2, <3>1 DEF ClaimSession, RelayLease!Take
    <3>3. QED
      BY <3>2 DEF RelayLease!LeaseNext
  <2>3. CASE UNCHANGED claim
    BY <1>3, <2>1, <2>3, RelayLeaseKept DEF ClaimSession
  <2>4. QED
    BY <1>3, <2>2, <2>3 DEF ClaimSession
<1>4. CASE RejectClaim(s) \/ ReleaseSession(s)
  <2>1. claim' = claim \/ (claim = s /\ claim' = None)
    BY <1>4 DEF RejectClaim, ReleaseSession, ReleaseClaim
  <2>2. \A t \in Agents : pc'[t] \in Attached <=> pc[t] \in Attached /\ t # s
    BY <1>1, <1>4 DEF RejectClaim, ReleaseSession, Goto, Attached
  <2>3. QED
    BY <1>4, <2>1, <2>2, RelayLeaves DEF RejectClaim, ReleaseSession
<1>5. CASE Admit(s)
  <2>1. \A t \in Agents : pc'[t] \in Attached <=> pc[t] \in Attached \/ t = s
    BY <1>1, <1>5 DEF Admit, Goto, Attached
  <2>2. {t \in Agents : Serving(t)}' = {t \in Agents : Serving(t)} \cup {s}
    BY <2>1 DEF Serving
  <2>3. claim = s \/ s \in lapsed
    BY <1>5 DEF Admit, HoldInv, Holding
  <2>4. RelayLease!Serve(s)
    BY <1>5, <2>2, <2>3 DEF Admit, redisVars, RelayLease!Serve
  <2>5. QED
    BY <2>4 DEF RelayLease!LeaseNext
<1>6. QED
  BY <1>2, <1>3, <1>4, <1>5 DEF RelayStep

(* A session that is detached serves the name no longer.                   *)
LEMMA DetachLeases ==
  ASSUME TypeOK, NEW s \in Agents, SocketClosed(s) \/ GrantExpires(s)
  PROVE  [RelayLease!LeaseNext]_(RelayLease!leaseVars)
<1>1. pc \in [Agents -> {"idle", "refused", "gone"} \cup Registering \cup Attached \cup Detaching]
  BY DEF TypeOK, RelayTypeOK
<1>2. UNCHANGED <<claim, lapsed>>
  BY DEF SocketClosed, GrantExpires, redisVars
<1>3. CASE DetachSession(s)
  <2>1. \A t \in Agents : pc'[t] \in Attached <=> pc[t] \in Attached /\ t # s
    BY <1>1, <1>3 DEF DetachSession, Goto, Attached
  <2>2. QED
    BY <1>2, <2>1, RelayLeaves
<1>4. CASE UNCHANGED pc
  BY <1>2, <1>4, RelayLeaseKept
<1>5. QED
  BY <1>3, <1>4 DEF SocketClosed, GrantExpires

(* A relay dies with the sessions connected to it.                         *)
LEMMA CrashLeases ==
  ASSUME TypeOK, NEW r \in Relays, Crash(r)
  PROVE  RelayLease!LeaseNext
<1> DEFINE S == {s \in Agents : RelayOf[s] = r /\ pc[s] # "idle"}
<1>1. \A t \in Agents : pc'[t] \in Attached <=> pc[t] \in Attached /\ t \notin S
  BY DEF Crash, Attached
<1>2. {t \in Agents : Serving(t)}' = {t \in Agents : Serving(t)} \ S
  BY <1>1 DEF Serving
<1>3. RelayLease!Die(S)
  BY <1>2 DEF Crash, redisVars, RelayLease!Die
<1>4. S \in SUBSET Agents
  OBVIOUS
<1>5. QED
  BY <1>3, <1>4 DEF RelayLease!LeaseNext

(* The holder of an expired claim has lapsed.                              *)
LEMMA ClaimExpiryLeases ==
  ASSUME TypeOK, ClaimExpires
  PROVE  RelayLease!LeaseNext
<1>1. claim \in Agents
  BY DEF ClaimExpires, TypeOK, RelayTypeOK
<1>2. {t \in Agents : Serving(t)}' = {t \in Agents : Serving(t)}
  BY DEF ClaimExpires, Serving
<1>3. lapsed' \cap Agents = (lapsed \cap Agents) \cup {claim}
  BY <1>1 DEF ClaimExpires
<1>4. RelayLease!Lapse(claim)
  BY <1>2, <1>3 DEF ClaimExpires, RelayLease!Lapse, RelayLease!Without
<1>5. QED
  BY <1>1, <1>4 DEF RelayLease!LeaseNext

(* Every step is a step of the lease of the relays, or none of its.        *)
LEMMA RelaysLeaseStep ==
  NamesInv /\ [Next]_vars => [RelayLease!LeaseNext]_(RelayLease!leaseVars)
<1> SUFFICES ASSUME NamesInv, [Next]_vars
             PROVE  [RelayLease!LeaseNext]_(RelayLease!leaseVars)
  OBVIOUS
<1>1. TypeOK /\ HoldInv
  BY DEF NamesInv, ClaimInv
<1>2. pc \in [Agents -> {"idle", "refused", "gone"} \cup Registering \cup Attached \cup Detaching]
  BY <1>1 DEF TypeOK, RelayTypeOK
<1>3. ASSUME NEW s \in Agents, RelayStep(s) PROVE [RelayLease!LeaseNext]_(RelayLease!leaseVars)
  BY <1>1, <1>3, RelayStepLeases
<1>4. ASSUME NEW s \in Agents, Detaches(s) PROVE [RelayLease!LeaseNext]_(RelayLease!leaseVars)
  BY <1>1, <1>4, DetachLeases DEF Detaches
<1>5. ASSUME NEW s \in Agents,
             AskGateway(s) \/ AskReservation(s) \/ NothingTaken(s) \/ AccessDenied(s)
      PROVE  [RelayLease!LeaseNext]_(RelayLease!leaseVars)
  <2>1. UNCHANGED <<claim, lapsed>>
    BY <1>5 DEF AskGateway, AskReservation, Asks, NothingTaken, AccessDenied, redisVars
  <2>2. \A t \in Agents : pc'[t] \in Attached <=> pc[t] \in Attached
    BY <1>2, <1>5 DEF AskGateway, AskReservation, Asks, NothingTaken, AccessDenied, Goto, Attached
  <2>3. QED
    BY <2>1, <2>2, RelayLeaseKept
<1>6. ASSUME NEW r \in Relays, Crash(r) PROVE RelayLease!LeaseNext
  BY <1>1, <1>6, CrashLeases
<1>7. CASE ClaimExpires
  BY <1>1, <1>7, ClaimExpiryLeases
<1>8. ASSUME NEW v \in Visitors, VisitorStep(v)
      PROVE  [RelayLease!LeaseNext]_(RelayLease!leaseVars)
  <2>1. UNCHANGED <<claim, lapsed>>
    BY <1>8 DEF VisitorStep, TakeRequest, PumpSend, relayVars, redisVars
  <2>2. \A t \in Agents : pc'[t] \in Attached <=> pc[t] \in Attached
    BY <1>2, <1>8 DEF VisitorStep, TakeRequest, PumpSend, Pumping, relayVars, Attached
  <2>3. QED
    BY <2>1, <2>2, RelayLeaseKept
<1>9. ASSUME NEW g \in Pollers, Lapses(g) PROVE [RelayLease!LeaseNext]_(RelayLease!leaseVars)
  BY <1>9, PollerAssumption, RelayLeaseKept DEF Lapses, redisVars
<1>10. ASSUME UNCHANGED <<pc, claim, lapsed>> PROVE [RelayLease!LeaseNext]_(RelayLease!leaseVars)
  BY <1>10, RelayLeaseKept
<1>11. ASSUME NEW g \in Pollers,
              AskRelay(g) \/ AskCoordinator(g) \/ AskOwner(g) \/ AskHeld(g) \/ AskBinding(g) \/ UNCHANGED relayVars
       PROVE  UNCHANGED <<pc, claim, lapsed>>
  BY <1>11 DEF AskRelay, AskCoordinator, AskOwner, AskHeld, AskBinding, relayVars, redisVars
<1>12. CASE NameOwnerExpires \/ UNCHANGED relayVars \/ UNCHANGED vars \/ \E r \in Relays : ReservationExpires(r)
  BY <1>10, <1>12 DEF NameOwnerExpires, ReservationExpires, relayVars, redisVars, vars
<1>13. QED
  BY <1>3, <1>4, <1>5, <1>6, <1>7, <1>8, <1>9, <1>10, <1>11, <1>12 DEF Next

(* The claims of the relays keep the promise of a lease: whoever registers *)
(* or lapses, on whatever relay, the name leads to one session, and only   *)
(* time takes it away.                                                     *)
THEOREM RelaysLease == Spec => RelaysImplementLease
<1>1. NamesInv /\ [Next]_vars => [RelayLease!LeaseNext]_(RelayLease!leaseVars)
  BY RelaysLeaseStep
<1>2. QED
  BY <1>1, LeaseInits, Inductive, PTL DEF Spec, RelaysImplementLease, RelayLease!LeaseSpec

(* A step that leaves the sessions of the gateway alone.                   *)
LEMMA GatewayLeaseKept ==
  ASSUME UNCHANGED <<name, sessions>>, lapsed' \cap Pollers = lapsed \cap Pollers
  PROVE  [GatewayLease!LeaseNext]_(GatewayLease!leaseVars)
BY DEF GatewayLease!leaseVars

(* The steps of a polling session, a name found stale may have been taken  *)
(* since, a session released may have been replaced.                       *)
LEMMA PollerStepLeases ==
  ASSUME TypeOK, PollInv, NEW g \in Pollers, PollerStep(g), UNCHANGED lapsed
  PROVE  [GatewayLease!LeaseNext]_(GatewayLease!leaseVars)
<1>1. existing \in [Pollers -> Pollers \cup {None}]
  BY DEF TypeOK, GatewayTypeOK
<1>2. CASE StoreSession(g)
  <2>1. CASE name \in {None, existing[g]} /\ sessions' = sessions \cup {g} /\ name' = g
    <3>1. name \in {None} \cup (lapsed \cap Pollers)
      BY <1>1, <2>1 DEF PollInv
    <3>2. GatewayLease!Take(g)
      BY <2>1, <3>1 DEF GatewayLease!Take
    <3>3. QED
      BY <3>2 DEF GatewayLease!LeaseNext
  <2>2. CASE UNCHANGED <<sessions, name>>
    BY <2>2, GatewayLeaseKept
  <2>3. QED
    BY <1>2, <2>1, <2>2 DEF StoreSession
<1>3. CASE RejectSession(g) \/ ReleaseDeletes(g) \/ SessionExpires(g)
  <2>1. GatewayLease!Leave(g)
    BY <1>3 DEF RejectSession, ReleaseDeletes, SessionExpires, DeleteSession,
                GatewayLease!Leave, GatewayLease!Without
  <2>2. QED
    BY <2>1 DEF GatewayLease!LeaseNext
<1>4. CASE MarkSessionOnline(g) \/ TouchedByVisitor(g)
  <2>1. CASE name = None
    <3>1. GatewayLease!Take(g)
      BY <1>4, <2>1 DEF MarkSessionOnline, TouchedByVisitor, GatewayLease!Take
    <3>2. QED
      BY <3>1 DEF GatewayLease!LeaseNext
  <2>2. CASE name # None
    BY <1>4, <2>2, GatewayLeaseKept DEF MarkSessionOnline, TouchedByVisitor
  <2>3. QED
    BY <2>1, <2>2
<1>5. CASE FindSession(g) \/ FindReservation(g) \/ AcceptSession(g) \/ Release(g) \/ FindCurrent(g)
             \/ ReserveBeforeDelete(g)
  BY <1>5, GatewayLeaseKept
     DEF FindSession, FindReservation, AcceptSession, Release, FindCurrent, ReserveBeforeDelete
<1>6. QED
  BY <1>2, <1>3, <1>4, <1>5 DEF PollerStep

(* Every step is a step of the lease of the gateway, or none of its.       *)
LEMMA GatewayLeaseStep ==
  NamesInv /\ [Next]_vars => [GatewayLease!LeaseNext]_(GatewayLease!leaseVars)
<1> SUFFICES ASSUME NamesInv, [Next]_vars
             PROVE  [GatewayLease!LeaseNext]_(GatewayLease!leaseVars)
  OBVIOUS
<1>1. TypeOK /\ PollInv
  BY DEF NamesInv
<1>2. ASSUME NEW g \in Pollers, PollerStep(g), UNCHANGED relayVars
      PROVE  [GatewayLease!LeaseNext]_(GatewayLease!leaseVars)
  BY <1>1, <1>2, PollerStepLeases DEF relayVars
<1>3. ASSUME NEW g \in Pollers, Lapses(g) PROVE GatewayLease!LeaseNext
  <2>1. lapsed' \cap Pollers = (lapsed \cap Pollers) \cup {g} /\ UNCHANGED <<sessions, name>>
    BY <1>3 DEF Lapses, HeartbeatMissed
  <2>2. GatewayLease!Lapse(g)
    BY <2>1 DEF GatewayLease!Lapse
  <2>3. QED
    BY <2>2 DEF GatewayLease!LeaseNext
<1>4. CASE ClaimExpires /\ UNCHANGED gatewayVars
  <2>1. lapsed' \cap Pollers = lapsed \cap Pollers
    BY <1>1, <1>4, PollerAssumption DEF ClaimExpires, TypeOK, RelayTypeOK
  <2>2. QED
    BY <1>4, <2>1, GatewayLeaseKept DEF gatewayVars
<1>5. ASSUME UNCHANGED <<gatewayVars, lapsed>>
      PROVE  [GatewayLease!LeaseNext]_(GatewayLease!leaseVars)
  BY <1>5, GatewayLeaseKept DEF gatewayVars
<1>6. ASSUME NEW s \in Agents, RelayStep(s), UNCHANGED gatewayVars PROVE UNCHANGED <<gatewayVars, lapsed>>
  BY <1>6
     DEF RelayStep, Register, FindNameOwner, ClaimSession, AnnounceClaim, RejectClaim, Withdraw, Admit,
         Bind, Touch, RefreshReservation, Closes, ReserveName, ReleaseSession
<1>7. ASSUME NEW s \in Agents,
             Detaches(s) \/ AskGateway(s) \/ AskReservation(s)
               \/ ((NothingTaken(s) \/ AccessDenied(s)) /\ UNCHANGED gatewayVars)
      PROVE  UNCHANGED <<gatewayVars, lapsed>>
  BY <1>7 DEF Detaches, SocketClosed, GrantExpires, AskGateway, AskReservation, Asks,
              NothingTaken, AccessDenied
<1>8. ASSUME NEW r \in Relays, Crash(r) \/ ReservationExpires(r), UNCHANGED gatewayVars
      PROVE  UNCHANGED <<gatewayVars, lapsed>>
  BY <1>8 DEF Crash, ReservationExpires
<1>9. ASSUME NEW v \in Visitors, VisitorStep(v), UNCHANGED gatewayVars
      PROVE  UNCHANGED <<gatewayVars, lapsed>>
  BY <1>9 DEF VisitorStep, TakeRequest, PumpSend, relayVars
<1>10. ASSUME NEW g \in Pollers, AskRelay(g) \/ AskCoordinator(g) \/ AskOwner(g) \/ AskHeld(g) \/ AskBinding(g)
       PROVE  [GatewayLease!LeaseNext]_(GatewayLease!leaseVars)
  BY <1>10, GatewayLeaseKept DEF AskRelay, AskCoordinator, AskOwner, AskHeld, AskBinding, AsksRelay, relayVars
<1>11. CASE GatewayReservationExpires /\ UNCHANGED <<relayVars, visitorVars>>
  BY <1>11, GatewayLeaseKept DEF GatewayReservationExpires, relayVars
<1>12. CASE (NameOwnerExpires /\ UNCHANGED gatewayVars) \/ UNCHANGED vars
  BY <1>5, <1>12 DEF NameOwnerExpires, vars, relayVars
<1>13. QED
  BY <1>2, <1>3, <1>4, <1>5, <1>6, <1>7, <1>8, <1>9, <1>10, <1>11, <1>12 DEF Next

(* So does the table of polling sessions: a takeover, a release or an      *)
(* expiry that comes late moves the name of no session that is heard of.   *)
THEOREM GatewayLeases == Spec => GatewayImplementsLease
<1>1. NamesInv /\ [Next]_vars => [GatewayLease!LeaseNext]_(GatewayLease!leaseVars)
  BY GatewayLeaseStep
<1>2. QED
  BY <1>1, LeaseInits, Inductive, PTL DEF Spec, GatewayImplementsLease, GatewayLease!LeaseSpec
=============================================================================
