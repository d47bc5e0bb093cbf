----------------------------- MODULE MCPreviewNames ----------------------------
(* Agents of two owners on two relays, polling sessions of both owners and  *)
(* of nobody, a visitor; OneCast bounds who acts in one behaviour.          *)
EXTENDS PreviewNames, TLC

CONSTANTS a1, a2, a3, g1, g2, g3, v, ann, bob

MCRelayOf == (a1 :> 1 @@ a2 :> 2 @@ a3 :> 2)
MCEntryOf == (v :> 2)
MCOwner   == (a1 :> ann @@ a2 :> bob @@ a3 :> bob @@ g1 :> bob @@ g2 :> NoOwner @@ g3 :> ann)

Active ==
  {s \in Agents : pc[s] # "idle"} \cup {g \in Pollers : creating[g] # "idle"}
    \cup {w \in Visitors : visit[w] # "idle"}

(* Where three act, only mayLapse is silent for too long.                   *)
Cast(actors, mayLapse) ==
  Active \subseteq actors /\ (Cardinality(Active) <= 2 \/ lapsed \subseteq mayLapse)

(* Two relays and a polling session of the first agent's owner, which the   *)
(* second agent meets on the other relay, or of the second agent's; two     *)
(* polling sessions; one relay whose owner reconnects; a visitor who comes  *)
(* to the other relay.                                                      *)
OneCast ==
  \/ Cast({a1, a2, g3}, {a1}) \/ Cast({a1, a2, g1}, {})
  \/ Cast({a1, g1, g2}, {})
  \/ Cast({a2, a3, v}, {a2}) \/ Cast({a1, v}, {})

OneAliveCast == OneCast /\ lapsed = {}
=============================================================================
