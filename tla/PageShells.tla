------------------------------ MODULE PageShells ------------------------------
(***************************************************************************)
(* Cached PPR shells: a page visit of                                      *)
(* packages/farm/src/server/renderer.ts that looks for the shell of its    *)
(* page, renders the page on a miss and stores the document with setAsync  *)
(* of packages/farm/src/cache.ts, next to revalidatePathAsync.             *)
(*                                                                         *)
(* Unlike getOrSet, the renderer gives setAsync no tag versions, so that   *)
(* they are read from the store after the page has been rendered.  The     *)
(* production server (packages/farm/src/nitro/universal-build.ts) and the  *)
(* regeneration of SSG pages store their documents the same way.           *)
(***************************************************************************)
EXTENDS TagStore

VARIABLES
  pc,     \* where each visit is
  floor,  \* history: what was acknowledged when the visit began
  shell   \* what the visit read, rendered or serves

vars == <<storeVars, pc, floor, shell>>

NoShell == [tagVersion |-> 0, seen |-> 0]

Init ==
  /\ StoreInit
  /\ pc = [r \in Requests |-> "idle"]
  /\ floor = [r \in Requests |-> 0]
  /\ shell = [r \in Requests |-> NoShell]

Goto(r, where) == pc' = [pc EXCEPT ![r] = where]

-----------------------------------------------------------------------------
Visit(r) ==
  /\ pc[r] = "idle"
  /\ Goto(r, "getting")
  /\ floor' = [floor EXCEPT ![r] = acknowledged]
  /\ UNCHANGED <<storeVars, shell>>

(* getCachedPPRShell: adapter.get returns.                                 *)
ReadShell(r) ==
  /\ pc[r] = "getting"
  /\ Goto(r, IF stored = None THEN "missed" ELSE "checking")
  /\ shell' = [shell EXCEPT ![r] = IF stored = None THEN NoShell ELSE stored]
  /\ UNCHANGED <<storeVars, floor>>

(* The tag versions return: the shell is served, or is stale.              *)
CheckShell(r) ==
  /\ pc[r] = "checking"
  /\ Goto(r, IF IsAdapterEntryStale(shell[r]) THEN "missed" ELSE "served")
  /\ UNCHANGED <<storeVars, floor, shell>>

(* The page reads its data and renders.                                    *)
RenderPage(r) ==
  /\ pc[r] = "missed"
  /\ Goto(r, "rendered")
  /\ shell' = [shell EXCEPT ![r].seen = data]
  /\ UNCHANGED <<storeVars, floor>>

(* cachePPRShell: setAsync captures the tag versions.                      *)
CaptureTagVersions(r) ==
  /\ pc[r] = "rendered"
  /\ Goto(r, "writing")
  /\ shell' = [shell EXCEPT ![r].tagVersion = tagVersion]
  /\ UNCHANGED <<storeVars, floor>>

(* adapter.set returns.                                                    *)
StoreShell(r) ==
  /\ pc[r] = "writing"
  /\ stored' = shell[r]
  /\ Goto(r, "rendered for its visitor")
  /\ UNCHANGED <<tagVersion, lease, data, revalidating, acknowledged, floor, shell>>

Leave(r) ==
  /\ pc[r] \in {"served", "rendered for its visitor"}
  /\ Goto(r, "idle")
  /\ shell' = [shell EXCEPT ![r] = NoShell]
  /\ floor' = [floor EXCEPT ![r] = 0]
  /\ UNCHANGED storeVars

RevalidatePath(s) ==
  /\ CallInvalidateTags(s) \/ InvalidateTags(s)
  /\ UNCHANGED <<pc, floor, shell>>

Environment ==
  /\ WriteData \/ DropEntry
  /\ UNCHANGED <<pc, floor, shell>>

Next ==
  \/ \E r \in Requests :
       \/ Visit(r) \/ ReadShell(r) \/ CheckShell(r) \/ RenderPage(r)
       \/ CaptureTagVersions(r) \/ StoreShell(r) \/ Leave(r)
  \/ \E s \in Servers : RevalidatePath(s)
  \/ Environment

Spec == Init /\ [][Next]_vars

-----------------------------------------------------------------------------
(* "Adapter tag versions captured before the cached value was produced. A  *)
(* later version makes the entry stale across every server instance" (the  *)
(* comment of FarmCacheEntry.tagVersions): a visit that begins after a     *)
(* revalidation has completed is not served a shell rendered before it.    *)
ServedShellsAreFresh ==
  \A r \in Requests : pc[r] = "served" => shell[r].seen >= floor[r]
=============================================================================
