------------------------------ MODULE LeasedName ------------------------------
(***************************************************************************)
(* What a transport of the preview service promises about one public name, *)
(* whatever keeps it: a name leads to one session at a time, a session     *)
(* serves it only while the name leads to it, and nobody but time takes it *)
(* from a session.  Time is the lapse of a session that was silent for too *)
(* long: it may go on serving until it notices, and the name is open to    *)
(* others.                                                                 *)
(*                                                                         *)
(* The relays keep the name in a claim that expires, the polling gateway   *)
(* in a table of sessions with heartbeats; PreviewNames implements this    *)
(* module twice.                                                           *)
(***************************************************************************)
CONSTANTS Sessions, Nobody

VARIABLES
  holder,   \* the session the name leads to
  serving,  \* the sessions that serve it
  lapsed    \* the sessions that were silent for too long

leaseVars == <<holder, serving, lapsed>>

LeaseInit ==
  /\ holder = Nobody
  /\ serving = {}
  /\ lapsed = {}

(* The name without s.                                                     *)
Without(s) == IF holder = s THEN Nobody ELSE holder

(* A free name, or one that leads to a session that has lapsed; serving it *)
(* may begin at once or later.                                             *)
Take(s) ==
  /\ holder \in {Nobody} \cup lapsed
  /\ holder' = s
  /\ serving' \in {serving, serving \cup {s}}
  /\ UNCHANGED lapsed

Serve(s) ==
  /\ holder = s \/ s \in lapsed
  /\ serving' = serving \cup {s}
  /\ UNCHANGED <<holder, lapsed>>

(* The session ends, and takes no other's name with it.                    *)
Leave(s) ==
  /\ serving' = serving \ {s}
  /\ holder' \in {holder, Without(s)}
  /\ UNCHANGED lapsed

(* A process dies with its sessions; the name leads to them until a lapse. *)
Die(S) ==
  /\ serving' = serving \ S
  /\ UNCHANGED <<holder, lapsed>>

Lapse(s) ==
  /\ lapsed' = lapsed \cup {s}
  /\ holder' \in {holder, Without(s)}
  /\ UNCHANGED serving

LeaseNext ==
  \/ \E s \in Sessions : Take(s) \/ Serve(s) \/ Leave(s) \/ Lapse(s)
  \/ \E S \in SUBSET Sessions : Die(S)

LeaseSpec == LeaseInit /\ [][LeaseNext]_leaseVars
=============================================================================
