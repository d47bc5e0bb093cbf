---------------------------- MODULE RevalidatedData ----------------------------
(***************************************************************************)
(* What a cache shared by several servers promises its callers, without    *)
(* entries, versions, marks, leases or fills: a call is answered with data *)
(* that is no older than the revalidations completed before it, and no     *)
(* newer than what has been written.  Callers on one server may share an   *)
(* answer; it is then as fresh as one of them is entitled to.              *)
(***************************************************************************)
EXTENDS Naturals

CONSTANTS Servers, Requests, Nothing

VARIABLES
  data,          \* number of writes made
  revalidating,  \* per server: data the revalidation in progress covers
  acknowledged,  \* data covered by the revalidations completed
  status,        \* per request: "idle", "open" or "closed"
  server,        \* the server it was made to
  floor,         \* data it is entitled to
  answer         \* what it received

revalidationVars == <<data, revalidating, acknowledged>>
callVars         == <<status, server, floor, answer>>
dataVars         == <<revalidationVars, callVars>>

DataInit ==
  /\ data = 0
  /\ revalidating = [s \in Servers |-> Nothing]
  /\ acknowledged = 0
  /\ status = [r \in Requests |-> "idle"]
  /\ server = [r \in Requests |-> Nothing]
  /\ floor = [r \in Requests |-> 0]
  /\ answer = [r \in Requests |-> Nothing]

-----------------------------------------------------------------------------
Write ==
  /\ data' = data + 1
  /\ UNCHANGED <<revalidating, acknowledged, callVars>>

Revalidate(s) ==
  /\ revalidating[s] = Nothing
  /\ revalidating' = [revalidating EXCEPT ![s] = data]
  /\ UNCHANGED <<data, acknowledged, callVars>>

Complete(s) ==
  /\ revalidating[s] # Nothing
  /\ revalidating' = [revalidating EXCEPT ![s] = Nothing]
  /\ acknowledged' = IF revalidating[s] > acknowledged THEN revalidating[s] ELSE acknowledged
  /\ UNCHANGED <<data, callVars>>

Abandon(s) ==
  /\ revalidating' = [revalidating EXCEPT ![s] = Nothing]
  /\ UNCHANGED <<data, acknowledged, callVars>>

-----------------------------------------------------------------------------
Ask(r, s) ==
  /\ status[r] = "idle"
  /\ status' = [status EXCEPT ![r] = "open"]
  /\ server' = [server EXCEPT ![r] = s]
  /\ floor' = [floor EXCEPT ![r] = acknowledged]
  /\ UNCHANGED <<revalidationVars, answer>>

Together(R) == \A p, q \in R : status[p] = "open" /\ server[p] = server[q]

Close(R, a) ==
  /\ Together(R)
  /\ status' = [r \in Requests |-> IF r \in R THEN "closed" ELSE status[r]]
  /\ answer' = [r \in Requests |-> IF r \in R THEN a ELSE answer[r]]
  /\ UNCHANGED <<revalidationVars, server, floor>>

Reply(R) ==
  \E d \in 0..data :
    /\ \E r \in R : d >= floor[r]
    /\ Close(R, d)

Fail(R) == Close(R, Nothing)

(* The caller goes on.                                                     *)
Forget(R) ==
  /\ status' = [r \in Requests |-> IF r \in R THEN "idle" ELSE status[r]]
  /\ server' = [r \in Requests |-> IF r \in R THEN Nothing ELSE server[r]]
  /\ floor' = [r \in Requests |-> IF r \in R THEN 0 ELSE floor[r]]
  /\ answer' = [r \in Requests |-> IF r \in R THEN Nothing ELSE answer[r]]

Return(r) ==
  /\ status[r] = "closed"
  /\ Forget({r})
  /\ UNCHANGED revalidationVars

(* A server dies with its requests and its revalidation.                   *)
Die(s) ==
  /\ Forget({r \in Requests : server[r] = s})
  /\ revalidating' = [revalidating EXCEPT ![s] = Nothing]
  /\ UNCHANGED <<data, acknowledged>>

DataNext ==
  \/ Write
  \/ \E s \in Servers : Revalidate(s) \/ Complete(s) \/ Abandon(s) \/ Die(s)
  \/ \E r \in Requests, s \in Servers : Ask(r, s)
  \/ \E R \in SUBSET Requests : Reply(R) \/ Fail(R)
  \/ \E r \in Requests : Return(r)

DataSpec == DataInit /\ [][DataNext]_dataVars
=============================================================================
