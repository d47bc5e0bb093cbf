--------------------------- MODULE SharedCacheProofs ---------------------------
(***************************************************************************)
(* Proofs about SharedCache, for any sets of servers and requests and any  *)
(* bounds: however many servers share the adapter, and whatever they do    *)
(* between two awaits of one another.                                      *)
(***************************************************************************)
EXTENDS SharedCache, TLAPS

(* Where a request is that has begun a fill and has not settled it.        *)
Leasing == {"leasing", "polling", "comparing", "retrying"}
Filling == {"capturing", "ready", "producing", "writing"}
Ending  == {"releasing", "settling"}

-----------------------------------------------------------------------------
(* Types.  A request that is not idle has a server, and one that has begun *)
(* no fill has none of a fill's locals.                                    *)

CallInv ==
  /\ TypeOK
  /\ \A r \in Requests :
       /\ pc[r] # "idle" => call[r] \in Call
       /\ pc[r] \in {"checking", "comparing"} => found[r] \in StoredEntry
       /\ pc[r] \notin Leasing \cup Filling \cup Ending => fill[r] = NoFill
       /\ pc[r] \in Leasing \cup {"capturing", "ready"} => fill[r].value = None
       /\ pc[r] \in {"producing", "writing"} => fill[r].value \in Nat
       /\ pc[r] # "done" => result[r] = None

(* Nobody has called yet.                                                  *)
LEMMA CallInvInit == Init => CallInv
<1> SUFFICES ASSUME Init PROVE CallInv
  OBVIOUS
<1>1. NoFill \in Fill /\ NoFill.value = None
  BY DEF NoFill, Fill
<1>2. TypeOK
  BY <1>1 DEF Init, StoreInit, TypeOK, StoreTypeOK, PC
<1>3. QED
  BY <1>1, <1>2 DEF Init, CallInv, Leasing, Filling, Ending

(* What a step may do to the store.                                        *)
StoreStep ==
  \/ UNCHANGED storeVars
  \/ WriteData \/ DropEntry \/ LeaseExpires
  \/ \E s \in Servers : CallInvalidateTags(s) \/ InvalidateTags(s) \/ AbandonInvalidateTags(s)
  \/ /\ UNCHANGED <<stored, tagVersion, data, revalidating, acknowledged>>
     /\ lease' \in Requests \cup {None}
  \/ \E r \in Requests :
       /\ pc[r] = "writing"
       /\ stored' = [tagVersion |-> fill[r].tagVersion, seen |-> fill[r].value]
       /\ UNCHANGED <<tagVersion, lease, data, revalidating, acknowledged>>

(* The requests and the servers touch the store only in these ways.        *)
LEMMA StoreMoves ==
  ASSUME lease \in Requests \cup {None}, [Next]_vars
  PROVE  StoreStep
<1> USE DEF StoreStep
<1>1. ASSUME NEW r \in Requests, Continue(r) PROVE StoreStep
  <2>1. CASE Lookup(r) \/ JoinInflight(r) \/ StartFill(r)
    BY <2>1 DEF Lookup, ReadEntry, CheckEntry, JoinInflight, StartFill
  <2>2. CASE AwaitHolder(r)
    BY <2>2 DEF AwaitHolder, AcquireLease, LeaseTaken, PollEntry, CompareEntry, StopPolling,
                RetryLease, Register
  <2>3. CASE RunFill(r)
    BY <2>3 DEF RunFill, CaptureTagVersions, CallProducer, ProducerReturns, ProducerReturnsLate,
                WriteEntry, ReleaseLease, Settle
  <2>4. QED
    BY <1>1, <2>1, <2>2, <2>3 DEF Continue
<1>2. ASSUME NEW r \in Requests, PollTimesOut(r) \/ CallFails(r) \/ Return(r) PROVE StoreStep
  BY <1>2 DEF PollTimesOut, CallFails, LookupFails, LeaseFails, FillFails, ReleaseFails, Return
<1>3. ASSUME NEW r \in Requests, NEW s \in Servers, GetOrSet(r, s) PROVE StoreStep
  BY <1>3 DEF GetOrSet
<1>4. ASSUME NEW s \in Servers,
             \/ RevalidateTag(s) \/ TagInvalidated(s) \/ RevalidationFails(s)
             \/ ResetLocal(s) \/ Crash(s)
      PROVE  StoreStep
  BY <1>4 DEF RevalidateTag, TagInvalidated, RevalidationFails, ResetLocal, Crash
<1>5. CASE Environment \/ ExpireLease \/ UNCHANGED vars
  BY <1>5 DEF Environment, ExpireLease, vars
<1>6. QED
  BY <1>1, <1>2, <1>3, <1>4, <1>5 DEF Next

(* The store keeps its type whatever the servers and the application do.   *)
LEMMA StoreTypeStep ==
  ASSUME CallInv, [Next]_vars
  PROVE  StoreTypeOK'
<1> USE DEF CallInv, TypeOK, StoreTypeOK
<1>1. CASE \E r \in Requests :
             /\ pc[r] = "writing"
             /\ stored' = [tagVersion |-> fill[r].tagVersion, seen |-> fill[r].value]
             /\ UNCHANGED <<tagVersion, lease, data, revalidating, acknowledged>>
  <2>1. PICK r \in Requests :
             /\ pc[r] = "writing"
             /\ stored' = [tagVersion |-> fill[r].tagVersion, seen |-> fill[r].value]
             /\ UNCHANGED <<tagVersion, lease, data, revalidating, acknowledged>>
    BY <1>1
  <2>2. fill[r].tagVersion \in Nat /\ fill[r].value \in Nat
    BY <2>1 DEF Fill
  <2>3. QED
    BY <2>1, <2>2 DEF StoredEntry
<1>2. CASE UNCHANGED storeVars \/ WriteData \/ DropEntry \/ LeaseExpires
  BY <1>2 DEF storeVars, WriteData, DropEntry, LeaseExpires
<1>3. ASSUME NEW s \in Servers, CallInvalidateTags(s) \/ InvalidateTags(s) \/ AbandonInvalidateTags(s)
      PROVE  StoreTypeOK'
  BY <1>3 DEF CallInvalidateTags, InvalidateTags, AbandonInvalidateTags, Starting, Larger
<1>4. QED
  BY <1>1, <1>2, <1>3, StoreMoves DEF StoreStep

(* A fill stays a fill when some of its locals are assigned.               *)
LEMMA FillFields ==
  ASSUME NEW f \in Fill
  PROVE  /\ \A w \in Nat \cup {None} :
              [f EXCEPT !.value = w] \in Fill /\ [f EXCEPT !.value = w].value = w
         /\ \A v \in Nat :
              [f EXCEPT !.tagVersion = v] \in Fill /\ [f EXCEPT !.tagVersion = v].value = f.value
         /\ \A v \in Nat, t \in BOOLEAN :
              /\ [f EXCEPT !.createdVersion = v, !.token = t] \in Fill
              /\ [f EXCEPT !.createdVersion = v, !.token = t].value = f.value
BY DEF Fill

(* Every step keeps the types, and the locals of a request in step with    *)
(* where it is.                                                            *)
LEMMA CallInvStep ==
  ASSUME CallInv, [Next]_vars
  PROVE  CallInv'
<1> USE DEF CallInv, TypeOK, Leasing, Filling, Ending, Goto
<1>0. StoreTypeOK' /\ stored \in StoredEntry \cup {None} /\ tagVersion \in Nat /\ data \in Nat
      /\ acknowledged \in Nat /\ NoFill \in Fill /\ NoFill.value = None
      /\ \A e \in StoredEntry : e.seen \in Nat
  BY StoreTypeStep DEF StoreTypeOK, NoFill, Fill, StoredEntry
<1>1. ASSUME NEW r \in Requests, NEW s \in Servers, GetOrSet(r, s) PROVE CallInv'
  BY <1>0, <1>1 DEF GetOrSet, localVars, PC, Call
<1>2. ASSUME NEW r \in Requests, Lookup(r) PROVE CallInv'
  BY <1>0, <1>2 DEF Lookup, ReadEntry, CheckEntry, localVars, PC
<1>3. ASSUME NEW r \in Requests, JoinInflight(r) PROVE CallInv'
  BY <1>0, <1>3 DEF JoinInflight, Joinable, Home, Call, localVars, PC
<1>4. ASSUME NEW r \in Requests, StartFill(r) PROVE CallInv'
  <2>1. generation[Home(r)] \in Nat /\ version[Home(r)] \in Nat /\ Home(r) \in Servers
    BY <1>4 DEF StartFill, Home, Call
  <2>2. QED
    BY <1>0, <1>4, <2>1 DEF StartFill, PC, Fill, NoFill
<1>5. ASSUME NEW r \in Requests, NEW token \in BOOLEAN, pc[r] \in Leasing, Register(r, token) PROVE CallInv'
  <2>1. Home(r) \in Servers /\ version[Home(r)] \in Nat
    BY <1>5 DEF Home, Call
  <2>2. fill' = [fill EXCEPT ![r].createdVersion = version[Home(r)], ![r].token = token]
    BY <1>5 DEF Register
  <2>3. fill' \in [Requests -> Fill] /\ fill'[r].value = fill[r].value
    <3>1. /\ [fill[r] EXCEPT !.createdVersion = version[Home(r)], !.token = token] \in Fill
          /\ [fill[r] EXCEPT !.createdVersion = version[Home(r)], !.token = token].value = fill[r].value
      BY <2>1, FillFields
    <3>2. QED
      BY <2>2, <3>1
  <2>4. \A q \in Requests : q # r => fill'[q] = fill[q]
    BY <2>2
  <2>5. QED
    BY <1>0, <1>5, <2>1, <2>3, <2>4 DEF Register, PC
<1>6. ASSUME NEW r \in Requests, AwaitHolder(r) PROVE CallInv'
  <2>1. CASE AcquireLease(r) \/ RetryLease(r)
    BY <2>1, <1>5 DEF AcquireLease, RetryLease, Register
  <2>2. CASE LeaseTaken(r) \/ PollEntry(r) \/ StopPolling(r)
    BY <1>0, <2>2 DEF LeaseTaken, PollEntry, StopPolling, localVars, PC
  <2>3. CASE CompareEntry(r)
    <3>1. found[r].seen \in Nat /\ pc[r] = "comparing"
      BY <1>0, <2>3 DEF CompareEntry
    <3>2. fill' \in [Requests -> Fill] /\ \A q \in Requests : q # r => fill'[q] = fill[q]
      <4>1. [fill[r] EXCEPT !.value = found[r].seen] \in Fill
        BY <3>1, FillFields
      <4>2. QED
        BY <2>3, <4>1 DEF CompareEntry
    <3>3. /\ pc' = [pc EXCEPT ![r] = pc'[r]] /\ pc'[r] \in {"retrying", "polling", "settling"}
          /\ pc'[r] = "settling" \/ fill' = fill
          /\ found' = [found EXCEPT ![r] = None]
          /\ UNCHANGED <<localVars, call, waits, result, outlived>>
      BY <2>3 DEF CompareEntry
    <3>4. QED
      BY <1>0, <3>1, <3>2, <3>3 DEF localVars, PC
  <2>4. QED
    BY <1>6, <2>1, <2>2, <2>3 DEF AwaitHolder
<1>7. ASSUME NEW r \in Requests, CaptureTagVersions(r) \/ CallProducer(r) \/ ProducerReturns(r) PROVE CallInv'
  <2>1. CASE CaptureTagVersions(r)
    <3>1. fill' \in [Requests -> Fill] /\ fill'[r].value = fill[r].value
      <4>1. /\ [fill[r] EXCEPT !.tagVersion = tagVersion] \in Fill
            /\ [fill[r] EXCEPT !.tagVersion = tagVersion].value = fill[r].value
        BY <1>0, FillFields
      <4>2. QED
        BY <2>1, <4>1 DEF CaptureTagVersions
    <3>2. \A q \in Requests : q # r => fill'[q] = fill[q]
      BY <2>1 DEF CaptureTagVersions
    <3>3. QED
      BY <1>0, <2>1, <3>1, <3>2 DEF CaptureTagVersions, localVars, PC
  <2>2. CASE CallProducer(r)
    <3>1. fill' \in [Requests -> Fill] /\ fill'[r].value \in Nat
      <4>1. /\ [fill[r] EXCEPT !.value = data] \in Fill
            /\ [fill[r] EXCEPT !.value = data].value = data
        BY <1>0, FillFields
      <4>2. QED
        BY <1>0, <2>2, <4>1 DEF CallProducer
    <3>2. \A q \in Requests : q # r => fill'[q] = fill[q]
      BY <2>2 DEF CallProducer
    <3>3. QED
      BY <1>0, <2>2, <3>1, <3>2 DEF CallProducer, localVars, PC
  <2>3. CASE ProducerReturns(r)
    BY <1>0, <2>3 DEF ProducerReturns, localVars, PC
  <2>4. QED
    BY <1>7, <2>1, <2>2, <2>3
<1>8. ASSUME NEW r \in Requests, pc[r] \in Filling, CloseFill(r),
             \/ UNCHANGED fill 
             \/ fill' = [fill EXCEPT ![r].value = None],
             UNCHANGED <<call, found, waits, result, outlived>>
      PROVE CallInv'
  <2>1. Home(r) \in Servers
    BY <1>8 DEF Home, Call
  <2>2. /\ active' \in [Servers -> SUBSET Requests]
        /\ mark' \in [Servers -> Nat]
        /\ pc' \in [Requests -> PC]
        /\ pc'[r] \in Ending
        /\ \A q \in Requests : q # r => pc'[q] = pc[q]
        /\ UNCHANGED <<version, generation, inflight, announced>>
    BY <1>8, <2>1 DEF CloseFill, PC
  <2>3. fill' \in [Requests -> Fill] /\ \A q \in Requests : q # r => fill'[q] = fill[q]
    <3>1. [fill[r] EXCEPT !.value = None] \in Fill
      BY FillFields
    <3>2. QED
      BY <1>8, <3>1
  <2>4. QED
    BY <1>0, <1>8, <2>2, <2>3
<1>9. ASSUME NEW r \in Requests, ProducerReturnsLate(r) \/ WriteEntry(r) \/ FillFails(r) PROVE CallInv'
  BY <1>8, <1>9 DEF ProducerReturnsLate, WriteEntry, FillFails
<1>10. ASSUME NEW r \in Requests,
              \/ ReleaseLease(r) \/ ReleaseFails(r) \/ LookupFails(r) \/ LeaseFails(r) \/ PollTimesOut(r)
       PROVE CallInv'
  BY <1>0, <1>10 DEF ReleaseLease, ReleaseFails, LookupFails, LeaseFails, PollTimesOut, localVars, PC
<1>11. ASSUME NEW r \in Requests, Settle(r) PROVE CallInv'
  <2>1. fill[r].value \in Nat \cup {None}
    BY DEF Fill
  <2>2. QED
    BY <1>0, <1>11, <2>1 DEF Settle, PC
<1>12. ASSUME NEW R, Forget(R), \A r \in R \cap Requests : pc'[r] = "idle",
              \A r \in Requests \ R : pc'[r] = pc[r], pc' \in [Requests -> PC],
              version' \in [Servers -> Nat], generation' \in [Servers -> Nat],
              mark' \in [Servers -> Nat], active' \in [Servers -> SUBSET Requests],
              inflight' \in [Servers -> Requests \cup {None}], announced' \in [Servers -> Nat],
              outlived' \subseteq Requests
       PROVE CallInv'
  BY <1>0, <1>12 DEF Forget
<1>13. ASSUME NEW r \in Requests, Return(r) PROVE CallInv'
  BY <1>12, <1>13 DEF Return, localVars, PC
<1>14. ASSUME NEW s \in Servers, EmptyLocal(s)
       PROVE  /\ version' \in [Servers -> Nat] /\ generation' \in [Servers -> Nat]
              /\ mark' \in [Servers -> Nat] /\ active' \in [Servers -> SUBSET Requests]
              /\ inflight' \in [Servers -> Requests \cup {None}] /\ announced' \in [Servers -> Nat]
  BY <1>14 DEF EmptyLocal
<1>15. ASSUME NEW s \in Servers, Crash(s) PROVE CallInv'
  BY <1>12, <1>14, <1>15 DEF Crash, PC
<1>16. ASSUME NEW s \in Servers, ResetLocal(s) PROVE CallInv'
  BY <1>0, <1>14, <1>16 DEF ResetLocal, requestVars
<1>17. ASSUME NEW s \in Servers, RevalidateTag(s) PROVE CallInv'
  BY <1>0, <1>17 DEF RevalidateTag, requestVars
<1>18. ASSUME UNCHANGED <<localVars, requestVars>>, outlived' \subseteq Requests PROVE CallInv'
  BY <1>0, <1>18 DEF localVars, requestVars
<1>19. ASSUME NEW s \in Servers, TagInvalidated(s) \/ RevalidationFails(s) PROVE CallInv'
  BY <1>18, <1>19 DEF TagInvalidated, RevalidationFails
<1>20. CASE Environment \/ ExpireLease \/ UNCHANGED vars
  BY <1>18, <1>20 DEF Environment, ExpireLease, Holders, vars
<1>21. QED
  BY <1>1, <1>2, <1>3, <1>4, <1>6, <1>7, <1>9, <1>10, <1>11, <1>13, <1>15, <1>16, <1>17, <1>19, <1>20
     DEF Next, Continue, RunFill, CallFails

-----------------------------------------------------------------------------
(* Freshness.  An entry that carries the tag's present version has seen    *)
(* the data of every revalidation that has completed.                      *)

Covered(v, seen) == v <= tagVersion /\ (v = tagVersion => seen >= acknowledged)

StoreInv ==
  /\ acknowledged <= data
  /\ \A s \in Servers : revalidating[s] # None => revalidating[s] <= data
  /\ stored # None => Covered(stored.tagVersion, stored.seen)

RequestInv(r) ==
  /\ pc[r] # "idle" => call[r].floor <= acknowledged
  /\ pc[r] \in {"checking", "comparing"} => Covered(found[r].tagVersion, found[r].seen)
  /\ pc[r] = "ready" => fill[r].tagVersion <= tagVersion
  /\ pc[r] \in {"producing", "writing"} => Covered(fill[r].tagVersion, fill[r].value)
  /\ pc[r] \in {"producing", "writing"} \cup Ending /\ fill[r].value # None
       => fill[r].value >= call[r].floor
  /\ pc[r] = "done" /\ waits[r] = r /\ result[r] # None => result[r] >= call[r].floor

FreshInv == StoreInv /\ \A r \in Requests : RequestInv(r)

(* The counters only grow, and acknowledged only with the tag's version.   *)
LEMMA StoreGrows ==
  ASSUME CallInv, StoreInv, [Next]_vars
  PROVE  /\ acknowledged <= acknowledged' /\ data <= data' /\ tagVersion <= tagVersion'
         /\ tagVersion' = tagVersion => acknowledged' = acknowledged
         /\ acknowledged' <= data'
         /\ \A s \in Servers : revalidating'[s] # None => revalidating'[s] <= data'
<1> USE DEF CallInv, TypeOK, StoreTypeOK, StoreInv
<1>1. CASE UNCHANGED <<tagVersion, data, revalidating, acknowledged>>
  BY <1>1
<1>2. CASE WriteData \/ DropEntry \/ LeaseExpires
  BY <1>2 DEF WriteData, DropEntry, LeaseExpires
<1>3. ASSUME NEW s \in Servers, CallInvalidateTags(s) \/ AbandonInvalidateTags(s)
      PROVE  /\ UNCHANGED <<tagVersion, data, acknowledged>>
             /\ \A t \in Servers : revalidating'[t] # None => revalidating'[t] <= data'
  BY <1>3 DEF CallInvalidateTags, AbandonInvalidateTags
<1>4. ASSUME NEW s \in Servers, InvalidateTags(s)
      PROVE  /\ acknowledged <= acknowledged' /\ acknowledged' <= data
             /\ tagVersion' = tagVersion + 1 /\ data' = data
             /\ \A t \in Servers : revalidating'[t] # None => revalidating'[t] <= data
  BY <1>4 DEF InvalidateTags, Starting, Larger
<1>5. QED
  BY <1>1, <1>2, <1>3, <1>4, StoreMoves DEF StoreStep, storeVars

(* So what covers the revalidations now will cover them or be stale.       *)
LEMMA CoverKept ==
  ASSUME CallInv, StoreInv, [Next]_vars, NEW v \in Nat, NEW seen \in Nat, Covered(v, seen)
  PROVE  Covered(v, seen)'
BY StoreGrows, StoreTypeStep DEF Covered, CallInv, TypeOK, StoreTypeOK

(* What is written to the store was captured before its producer ran.      *)
LEMMA StoreInvStep ==
  ASSUME CallInv, FreshInv, [Next]_vars
  PROVE  StoreInv'
<1>1. StoreInv
  BY DEF FreshInv
<1>2. ASSUME stored' # None PROVE Covered(stored.tagVersion, stored.seen)'
  <2>1. CASE stored' = stored
    <3>1. stored.tagVersion \in Nat /\ stored.seen \in Nat
      BY <1>2, <2>1 DEF CallInv, TypeOK, StoreTypeOK, StoredEntry
    <3>2. Covered(stored.tagVersion, stored.seen)
      BY <1>1, <1>2, <2>1 DEF StoreInv
    <3>3. QED
      BY <1>1, <2>1, <3>1, <3>2, CoverKept DEF Covered
  <2>2. ASSUME NEW r \in Requests, pc[r] = "writing",
               stored' = [tagVersion |-> fill[r].tagVersion, seen |-> fill[r].value]
        PROVE  Covered(stored.tagVersion, stored.seen)'
    <3>1. fill[r].tagVersion \in Nat /\ fill[r].value \in Nat
      BY <2>2 DEF CallInv, TypeOK, Fill
    <3>2. Covered(fill[r].tagVersion, fill[r].value)
      BY <2>2 DEF FreshInv, RequestInv
    <3>3. QED
      BY <1>1, <2>2, <3>1, <3>2, CoverKept DEF Covered
  <2>3. QED
    BY <1>2, <2>1, <2>2, StoreMoves
       DEF StoreStep, storeVars, WriteData, DropEntry, LeaseExpires, CallInvalidateTags,
           InvalidateTags, AbandonInvalidateTags, CallInv, TypeOK, StoreTypeOK
<1>3. QED
  BY <1>1, <1>2, StoreGrows DEF StoreInv

(* A request that a step leaves where it is keeps what it has.             *)
Unmoved(r) ==
  /\ pc'[r] = pc[r] /\ call'[r] = call[r] /\ found'[r] = found[r] /\ fill'[r] = fill[r]
  /\ waits'[r] = waits[r] /\ result'[r] = result[r]

(* What it has read or captured stays covered or becomes recognisably      *)
(* stale.                                                                  *)
LEMMA UnmovedKeeps ==
  ASSUME CallInv, FreshInv, [Next]_vars, NEW r \in Requests, Unmoved(r)
  PROVE  RequestInv(r)'
<1>1. StoreInv /\ RequestInv(r) /\ StoreTypeOK'
  BY StoreTypeStep DEF FreshInv
<1>2. pc[r] # "idle" => call[r].floor \in Nat
  BY DEF CallInv, Call
<1>3. ASSUME pc[r] \in {"checking", "comparing"}
      PROVE  Covered(found[r].tagVersion, found[r].seen)'
  <2>1. found[r].tagVersion \in Nat /\ found[r].seen \in Nat
    BY <1>3 DEF CallInv, StoredEntry
  <2>2. Covered(found[r].tagVersion, found[r].seen)
    BY <1>1, <1>3 DEF RequestInv
  <2>3. QED
    BY <1>1, <2>1, <2>2, CoverKept DEF Covered, Unmoved
<1>4. ASSUME pc[r] \in {"producing", "writing"}
      PROVE  Covered(fill[r].tagVersion, fill[r].value)'
  <2>1. fill[r].tagVersion \in Nat /\ fill[r].value \in Nat
    BY <1>4 DEF CallInv, TypeOK, Fill
  <2>2. Covered(fill[r].tagVersion, fill[r].value)
    BY <1>1, <1>4 DEF RequestInv
  <2>3. QED
    BY <1>1, <2>1, <2>2, CoverKept DEF Covered, Unmoved
<1>5. fill[r].tagVersion \in Nat
  BY DEF CallInv, TypeOK, Fill
<1>6. QED
  BY <1>1, <1>2, <1>3, <1>4, <1>5, StoreGrows
     DEF Unmoved, RequestInv, Ending, CallInv, TypeOK, StoreTypeOK

(* The steps a request takes, but for Settle and Crash, move it alone.     *)
LEMMA RequestInvStep ==
  ASSUME CallInv, FreshInv, [Next]_vars, NEW r \in Requests
  PROVE  RequestInv(r)'
<1> USE DEF Goto
<1>0. StoreInv /\ RequestInv(r) /\ TypeOK /\ StoreTypeOK /\ CallInv'
  BY CallInvStep DEF FreshInv, CallInv, TypeOK
<1>1. Unmoved(r) => RequestInv(r)'
  BY UnmovedKeeps
<1>2. ASSUME NEW q \in Requests, NEW s \in Servers, GetOrSet(q, s) PROVE RequestInv(r)'
  <2>1. q # r => Unmoved(r)
    BY <1>0, <1>2 DEF GetOrSet, Unmoved, TypeOK
  <2>2. q = r => pc'[r] = "getting" /\ call'[r].floor = acknowledged /\ acknowledged' = acknowledged
    BY <1>0, <1>2 DEF GetOrSet, TypeOK, storeVars
  <2>3. QED
    BY <1>0, <1>1, <2>1, <2>2 DEF RequestInv, StoreTypeOK, Ending
<1>3. ASSUME NEW q \in Requests, Lookup(q) \/ LookupFails(q) PROVE RequestInv(r)'
  <2>1. q # r => Unmoved(r)
    BY <1>0, <1>3 DEF Lookup, ReadEntry, CheckEntry, LookupFails, Unmoved, TypeOK
  <2>2. CASE q = r /\ ReadEntry(r)
    BY <1>0, <2>2 DEF ReadEntry, RequestInv, StoreInv, Covered, TypeOK, storeVars, Ending
  <2>3. CASE q = r /\ CheckEntry(r)
    <3>1. found[r].tagVersion \in Nat /\ found[r].seen \in Nat /\ call[r].floor \in Nat
      BY <2>3 DEF CheckEntry, CallInv, StoredEntry, Call
    <3>2. result[r] = None
      BY <2>3 DEF CheckEntry, CallInv
    <3>3. QED
      BY <1>0, <2>3, <3>1, <3>2 DEF CheckEntry, IsAdapterEntryStale, RequestInv, Covered, TypeOK,
                               StoreTypeOK, storeVars, Ending
  <2>4. CASE q = r /\ LookupFails(r)
    BY <1>0, <2>4 DEF LookupFails, RequestInv, TypeOK, storeVars, Ending, CallInv
  <2>5. QED
    BY <1>1, <1>3, <2>1, <2>2, <2>3, <2>4 DEF Lookup
<1>4. ASSUME NEW q \in Requests, JoinInflight(q) \/ StartFill(q) \/ LeaseTaken(q) \/ StopPolling(q)
               \/ PollTimesOut(q) \/ AcquireLease(q) \/ RetryLease(q)
      PROVE RequestInv(r)'
  <2>1. q # r => Unmoved(r)
    BY <1>0, <1>4 DEF JoinInflight, StartFill, LeaseTaken, StopPolling, PollTimesOut,
                      AcquireLease, RetryLease, Register, Unmoved, TypeOK
  <2>2. q = r => /\ pc'[r] \in {"joined", "leasing", "polling", "retrying", "capturing"}
                 /\ pc[r] # "idle" /\ call' = call /\ acknowledged' = acknowledged
    BY <1>0, <1>4 DEF JoinInflight, StartFill, LeaseTaken, StopPolling, PollTimesOut,
                      AcquireLease, RetryLease, Register, TypeOK, storeVars
  <2>3. QED
    BY <1>0, <1>1, <2>1, <2>2 DEF RequestInv, Ending
<1>5. ASSUME NEW q \in Requests, PollEntry(q) \/ CompareEntry(q) PROVE RequestInv(r)'
  <2>1. q # r => Unmoved(r)
    BY <1>0, <1>5 DEF PollEntry, CompareEntry, Unmoved, TypeOK
  <2>2. CASE q = r /\ PollEntry(r)
    BY <1>0, <2>2 DEF PollEntry, RequestInv, StoreInv, Covered, TypeOK, storeVars, Ending
  <2>3. CASE q = r /\ CompareEntry(r)
    <3>1. found[r].tagVersion \in Nat /\ found[r].seen \in Nat /\ call[r].floor \in Nat
      BY <2>3 DEF CompareEntry, CallInv, StoredEntry, Call
    <3>2. /\ pc'[r] \in {"retrying", "polling", "settling"} /\ pc[r] = "comparing"
          /\ pc'[r] = "settling" => /\ ~IsAdapterEntryStale(found[r])
                                    /\ fill' = [fill EXCEPT ![r].value = found[r].seen]
          /\ UNCHANGED <<call, storeVars>>
      BY <1>0, <2>3 DEF CompareEntry, TypeOK
    <3>3. pc'[r] = "settling" => fill'[r].value = found[r].seen
      BY <1>0, <3>2 DEF TypeOK, Fill
    <3>4. QED
      BY <1>0, <3>1, <3>2, <3>3 DEF IsAdapterEntryStale, RequestInv, Covered, StoreTypeOK, storeVars, Ending
  <2>4. QED
    BY <1>1, <1>5, <2>1, <2>2, <2>3
<1>6. ASSUME NEW q \in Requests, CaptureTagVersions(q) \/ CallProducer(q) \/ ProducerReturns(q)
      PROVE RequestInv(r)'
  <2>1. q # r => Unmoved(r)
    BY <1>0, <1>6 DEF CaptureTagVersions, CallProducer, ProducerReturns, Unmoved, TypeOK
  <2>2. CASE q = r /\ CaptureTagVersions(r)
    <3>1. pc'[r] = "ready" /\ pc[r] = "capturing" /\ UNCHANGED <<call, storeVars>>
          /\ fill'[r].tagVersion = tagVersion
      BY <1>0, <2>2 DEF CaptureTagVersions, TypeOK, Fill
    <3>2. QED
      BY <1>0, <3>1 DEF RequestInv, storeVars, StoreTypeOK, Ending
  <2>3. CASE q = r /\ CallProducer(r)
    <3>1. pc'[r] = "producing" /\ pc[r] = "ready" /\ UNCHANGED <<call, storeVars>>
          /\ fill'[r].value = data /\ fill'[r].tagVersion = fill[r].tagVersion
      BY <1>0, <2>3 DEF CallProducer, TypeOK, Fill
    <3>2. call[r].floor \in Nat
      BY <3>1 DEF CallInv, Call
    <3>3. QED
      BY <1>0, <3>1, <3>2 DEF RequestInv, StoreInv, Covered, storeVars, StoreTypeOK, Ending
  <2>4. CASE q = r /\ ProducerReturns(r)
    BY <1>0, <2>4 DEF ProducerReturns, RequestInv, Covered, TypeOK, storeVars, Ending
  <2>5. QED
    BY <1>1, <1>6, <2>1, <2>2, <2>3, <2>4
<1>7. ASSUME NEW q \in Requests,
             ProducerReturnsLate(q) \/ WriteEntry(q) \/ FillFails(q) \/ ReleaseLease(q) \/ ReleaseFails(q)
               \/ LeaseFails(q)
      PROVE RequestInv(r)'
  <2>1. q # r => Unmoved(r)
    BY <1>0, <1>7 DEF ProducerReturnsLate, WriteEntry, FillFails, ReleaseLease, ReleaseFails, LeaseFails,
                      CloseFill, Unmoved, TypeOK
  <2>2. q = r => /\ pc[r] \in Leasing \cup Filling \cup Ending
                 /\ pc'[r] \in Ending /\ call' = call /\ acknowledged' = acknowledged
    BY <1>0, <1>7 DEF ProducerReturnsLate, WriteEntry, FillFails, ReleaseLease, ReleaseFails, LeaseFails,
                      CloseFill, TypeOK, storeVars, Leasing, Filling, Ending
  <2>3. q = r => fill'[r].value = None \/ (pc[r] \in {"producing", "writing", "releasing"} /\ fill' = fill)
    <3>1. fill[r] \in Fill
      BY <1>0 DEF TypeOK
    <3>2. CASE FillFails(q)
      BY <1>0, <3>1, <3>2 DEF FillFails, TypeOK, Fill
    <3>3. CASE LeaseFails(q)
      BY <3>3 DEF LeaseFails, CallInv, Leasing
    <3>4. QED
      BY <1>7, <3>2, <3>3 DEF ProducerReturnsLate, WriteEntry, ReleaseLease, ReleaseFails
  <2>4. QED
    BY <1>0, <1>1, <2>1, <2>2, <2>3 DEF RequestInv, Leasing, Filling, Ending
<1>8. ASSUME NEW q \in Requests, Settle(q) PROVE RequestInv(r)'
  <2>1. CASE r # q /\ ~(pc[r] = "joined" /\ waits[r] = q)
    BY <1>0, <1>1, <1>8, <2>1 DEF Settle, Unmoved, TypeOK
  <2>2. CASE r = q
    BY <1>0, <1>8, <2>2 DEF Settle, RequestInv, TypeOK, storeVars, Ending
  <2>3. CASE r # q /\ pc[r] = "joined" /\ waits[r] = q
    BY <1>0, <1>8, <2>3 DEF Settle, RequestInv, TypeOK, storeVars, Ending
  <2>4. QED
    BY <2>1, <2>2, <2>3
<1>9. ASSUME NEW R, Forget(R), pc'[r] = IF r \in R THEN "idle" ELSE pc[r] PROVE RequestInv(r)'
  <2>1. r \notin R => Unmoved(r)
    BY <1>9 DEF Forget, Unmoved
  <2>2. r \in R => pc'[r] = "idle"
    BY <1>9
  <2>3. QED
    BY <1>1, <2>1, <2>2 DEF RequestInv, Ending
<1>10. ASSUME NEW q \in Requests, Return(q) PROVE RequestInv(r)'
  BY <1>0, <1>9, <1>10 DEF Return, TypeOK
<1>11. ASSUME NEW s \in Servers, Crash(s) PROVE RequestInv(r)'
  BY <1>9, <1>11 DEF Crash
<1>12. ASSUME NEW s \in Servers,
              RevalidateTag(s) \/ TagInvalidated(s) \/ RevalidationFails(s) \/ ResetLocal(s)
       PROVE RequestInv(r)'
  BY <1>1, <1>12 DEF RevalidateTag, TagInvalidated, RevalidationFails, ResetLocal, requestVars, Unmoved
<1>13. CASE Environment \/ ExpireLease \/ UNCHANGED vars
  BY <1>1, <1>13 DEF Environment, ExpireLease, vars, requestVars, Unmoved
<1>14. QED
  BY <1>2, <1>3, <1>4, <1>5, <1>6, <1>7, <1>8, <1>10, <1>11, <1>12, <1>13
     DEF Next, Continue, AwaitHolder, RunFill, CallFails

-----------------------------------------------------------------------------
(* The lease                                                               *)

(* A lease is taken only when it is free, and released only by its holder. *)
LEMMA LeaseStep ==
  ASSUME CallInv, LeaseHeld, [Next]_vars
  PROVE  LeaseHeld'
<1> USE DEF LeaseHeld, Holders, CallInv, TypeOK, StoreTypeOK, Goto
<1>0. None \notin Requests
  BY StoreNoneAssumption
<1>1. ASSUME UNCHANGED <<lease, outlived>>,
             \A r \in Requests : r \in Holders' => r \in Holders
      PROVE  LeaseHeld'
  BY <1>1
<1>2. ASSUME NEW r \in Requests, NEW token \in BOOLEAN, Register(r, token), token => lease = None
      PROVE  LeaseHeld'
  <2>1. fill'[r].token = token /\ \A q \in Requests : q # r => fill'[q] = fill[q] /\ pc'[q] = pc[q]
    BY <1>2 DEF Register, Fill
  <2>2. lease' = (IF token THEN r ELSE lease) /\ outlived' = outlived \ {r}
    BY <1>2 DEF Register
  <2>3. QED
    BY <1>0, <1>2, <2>1, <2>2
<1>3. ASSUME NEW r \in Requests, AcquireLease(r) \/ RetryLease(r) PROVE LeaseHeld'
  BY <1>2, <1>3 DEF AcquireLease, RetryLease
<1>4. ASSUME NEW r \in Requests, NEW s \in Servers, GetOrSet(r, s) PROVE LeaseHeld'
  BY <1>1, <1>4 DEF GetOrSet, storeVars
<1>5. ASSUME NEW r \in Requests,
             Lookup(r) \/ JoinInflight(r) \/ LeaseTaken(r) \/ PollEntry(r) \/ StopPolling(r)
               \/ PollTimesOut(r) \/ ProducerReturns(r) \/ LookupFails(r) \/ LeaseFails(r)
      PROVE LeaseHeld'
  BY <1>1, <1>5 DEF Lookup, ReadEntry, CheckEntry, JoinInflight, LeaseTaken, PollEntry, StopPolling,
                    PollTimesOut, ProducerReturns, LookupFails, LeaseFails, storeVars
<1>6. ASSUME NEW r \in Requests,
             StartFill(r) \/ CompareEntry(r) \/ CaptureTagVersions(r) \/ CallProducer(r)
      PROVE LeaseHeld'
  <2>1. UNCHANGED <<lease, outlived>>
    BY <1>6 DEF StartFill, CompareEntry, CaptureTagVersions, CallProducer, storeVars
  <2>2. CASE StartFill(r) \/ CompareEntry(r)
    BY <1>1, <2>1, <2>2 DEF StartFill, CompareEntry
  <2>3. CASE CaptureTagVersions(r) \/ CallProducer(r)
    <3>1. fill'[r].token = fill[r].token
      BY <2>3 DEF CaptureTagVersions, CallProducer, Fill
    <3>2. QED
      BY <1>1, <2>1, <2>3, <3>1 DEF CaptureTagVersions, CallProducer
  <2>4. QED
    BY <1>6, <2>2, <2>3
<1>7. ASSUME NEW r \in Requests, ProducerReturnsLate(r) \/ WriteEntry(r) \/ FillFails(r) PROVE LeaseHeld'
  <2>1. /\ UNCHANGED <<lease, outlived>>
        /\ pc[r] \in Filling /\ pc' = [pc EXCEPT ![r] = IF fill[r].token THEN "releasing" ELSE "settling"]
    BY <1>7 DEF ProducerReturnsLate, WriteEntry, FillFails, CloseFill, storeVars, Filling
  <2>2. fill'[r].token = fill[r].token /\ \A q \in Requests : q # r => fill'[q] = fill[q]
    BY <1>7 DEF ProducerReturnsLate, WriteEntry, FillFails, Fill
  <2>3. QED
    BY <1>1, <2>1, <2>2 DEF Filling
<1>8. ASSUME NEW r \in Requests, ReleaseLease(r) \/ ReleaseFails(r) PROVE LeaseHeld'
  BY <1>0, <1>8 DEF ReleaseLease, ReleaseFails, storeVars
<1>9. ASSUME NEW r \in Requests, Settle(r) PROVE LeaseHeld'
  BY <1>9 DEF Settle, storeVars
<1>10. ASSUME NEW r \in Requests, Return(r) PROVE LeaseHeld'
  BY <1>1, <1>10 DEF Return, Forget, storeVars
<1>11. ASSUME NEW s \in Servers, Crash(s) PROVE LeaseHeld'
  BY <1>11 DEF Crash, Forget, AbandonInvalidateTags
<1>12. ASSUME NEW s \in Servers,
              RevalidateTag(s) \/ TagInvalidated(s) \/ RevalidationFails(s) \/ ResetLocal(s)
       PROVE LeaseHeld'
  BY <1>1, <1>12 DEF RevalidateTag, TagInvalidated, RevalidationFails, ResetLocal, requestVars,
                     CallInvalidateTags, InvalidateTags, AbandonInvalidateTags, storeVars
<1>13. CASE Environment \/ UNCHANGED vars
  BY <1>1, <1>13 DEF Environment, WriteData, DropEntry, vars, requestVars, storeVars
<1>14. CASE ExpireLease
  BY <1>14 DEF ExpireLease, LeaseExpires, requestVars
<1>15. QED
  BY <1>3, <1>4, <1>5, <1>6, <1>7, <1>8, <1>9, <1>10, <1>11, <1>12, <1>13, <1>14
     DEF Next, Continue, AwaitHolder, RunFill, CallFails

-----------------------------------------------------------------------------
(* The marks of a server and the fills it shares                           *)

(* An active fill that has missed a revalidation of its server is older    *)
(* than the server's mark, and one that may still be joined began no later *)
(* than it was registered.                                                 *)
ActiveFill(s, f) ==
  /\ pc[f] \in Filling /\ Home(f) = s
  /\ fill[f].createdVersion <= version[s]
  /\ fill[f].value # None => fill[f].value >= announced[s] \/ mark[s] > fill[f].createdVersion
  /\ inflight[s] = f => fill[f].startVersion <= fill[f].createdVersion

SharedFill(s) ==
  inflight[s] # None /\ Home(inflight[s]) = s => fill[inflight[s]].startVersion <= version[s]

MarkInv ==
  /\ \A s \in Servers : announced[s] <= data /\ SharedFill(s)
  /\ \A s \in Servers : \A f \in active[s] : ActiveFill(s, f)
  /\ \A r \in Requests : pc[r] # "idle" => call[r].announced <= data
  /\ \A r \in Requests : pc[r] # "idle" => call[r].announced <= announced[Home(r)]
  /\ ActiveFillsAreFresh

(* Steps that start no fill, end some and prune or empty what depends on   *)
(* none of the others leave every active fill and its readers alone.       *)
LEMMA MarkKept ==
  ASSUME CallInv, CallInv', StoreInv, MarkInv, [Next]_vars, UNCHANGED announced,
         \A s \in Servers :
           /\ active'[s] \subseteq active[s]
           /\ inflight'[s] \in {inflight[s], None}
           /\ version'[s] = version[s] \/ (active'[s] = {} /\ inflight'[s] = None)
           /\ \A f \in active'[s] :
                /\ pc'[f] \in Filling /\ fill'[f] = fill[f]
                /\ mark[s] > fill[f].createdVersion => mark'[s] > fill[f].createdVersion,
         \A q \in Requests :
           /\ pc'[q] # "idle" => pc[q] # "idle" /\ call'[q] = call[q]
           /\ pc'[q] = "joined" => pc[q] = "joined" /\ waits'[q] = waits[q]
           /\ \/ fill'[q].startVersion = 0
              \/ fill'[q].startVersion = fill[q].startVersion /\ call'[q] = call[q]
  PROVE  MarkInv'
<1>0. /\ data \in Nat /\ data' \in Nat /\ data <= data'
      /\ \A q \in Requests : pc[q] # "idle" => Home(q) \in Servers /\ call[q].announced \in Nat
      /\ \A s \in Servers : version'[s] \in Nat /\ announced[s] \in Nat
      /\ \A s \in Servers : inflight[s] \in Requests \cup {None} /\ active[s] \subseteq Requests
  BY StoreGrows DEF CallInv, TypeOK, StoreTypeOK, Home, Call
<1>1. \A s \in Servers : \A f \in active'[s] : ActiveFill(s, f)'
  <2> SUFFICES ASSUME NEW s \in Servers, NEW f \in active'[s] PROVE ActiveFill(s, f)'
    OBVIOUS
  <2>1. f \in Requests /\ ActiveFill(s, f) /\ f # None
    BY <1>0, StoreNoneAssumption DEF MarkInv
  <2>2. /\ pc'[f] \in Filling /\ call'[f] = call[f] /\ fill'[f] = fill[f] /\ version'[s] = version[s]
        /\ announced'[s] = announced[s] /\ (inflight'[s] = f => inflight[s] = f)
        /\ mark[s] > fill[f].createdVersion => mark'[s] > fill[f].createdVersion
    BY <2>1 DEF Filling
  <2>3. QED
    BY <2>1, <2>2 DEF ActiveFill, Home
<1>2. \A s \in Servers : (announced[s] <= data)' /\ SharedFill(s)'
  <2> SUFFICES ASSUME NEW s \in Servers PROVE (announced[s] <= data)' /\ SharedFill(s)'
    OBVIOUS
  <2>1. announced'[s] <= data'
    BY <1>0 DEF MarkInv
  <2>2. SUFFICES ASSUME inflight'[s] # None, Home(inflight[s])' = s
                 PROVE  fill'[inflight'[s]].startVersion <= version'[s]
    BY <2>1 DEF SharedFill
  <2>3. inflight'[s] = inflight[s] /\ inflight[s] \in Requests /\ version'[s] = version[s] /\ SharedFill(s)
    BY <1>0, <2>2 DEF MarkInv
  <2>4. QED
    BY <1>0, <2>2, <2>3 DEF SharedFill, Home
<1>3. \A r \in Requests : pc'[r] # "idle" => /\ (call[r].announced <= data)'
                                           /\ (call[r].announced <= announced[Home(r)])'
  BY <1>0 DEF MarkInv, Home
<1>4. ActiveFillsAreFresh'
  <2> SUFFICES ASSUME NEW r \in Requests, pc'[r] = "joined", NEW f, f = waits'[r],
                      f \in active'[Home(r)'], fill'[f].value # None
               PROVE  fill'[f].value >= call'[r].announced
    BY DEF ActiveFillsAreFresh
  <2>1. Home(r) \in Servers /\ Home(r)' = Home(r) /\ f = waits[r] /\ pc[r] = "joined" /\ call'[r] = call[r]
    BY <1>0 DEF Home
  <2>2. f \in active[Home(r)] /\ fill'[f] = fill[f]
    BY <2>1
  <2>3. QED
    BY <2>1, <2>2 DEF MarkInv, ActiveFillsAreFresh
<1>5. QED
  BY <1>1, <1>2, <1>3, <1>4 DEF MarkInv

(* No prune, reset, retried lease or other fill separates a stale active   *)
(* fill from its mark.                                                     *)
LEMMA MarkInvStep ==
  ASSUME CallInv, StoreInv, MarkInv, [Next]_vars
  PROVE  MarkInv'
<1> USE DEF Goto
<1>0. /\ CallInv' /\ TypeOK /\ data \in Nat /\ data' \in Nat /\ data <= data'
      /\ \A r \in Requests : pc[r] # "idle" => Home(r) \in Servers /\ call[r].announced \in Nat
      /\ \A s \in Servers : version[s] \in Nat /\ mark[s] \in Nat /\ announced[s] \in Nat
      /\ \A r \in Requests : fill[r].createdVersion \in Nat /\ fill[r].startVersion \in Nat
                            /\ fill[r].value \in Nat \cup {None}
      /\ \A s \in Servers : \A f \in active[s] : f \in Requests /\ pc[f] \in Filling /\ Home(f) = s
  BY CallInvStep, StoreGrows DEF CallInv, TypeOK, StoreTypeOK, Home, Call, Fill, MarkInv, ActiveFill
<1>1. ASSUME NEW r \in Requests,
             Lookup(r) \/ LookupFails(r) \/ LeaseTaken(r) \/ PollEntry(r) \/ StopPolling(r) \/ PollTimesOut(r)
               \/ ProducerReturns(r) \/ ReleaseLease(r) \/ ReleaseFails(r) \/ LeaseFails(r)
      PROVE  MarkInv'
  <2>1. UNCHANGED <<localVars, call, fill, waits>>
    BY <1>1 DEF Lookup, ReadEntry, CheckEntry, LookupFails, LeaseTaken, PollEntry, StopPolling,
                PollTimesOut, ProducerReturns, ReleaseLease, ReleaseFails, LeaseFails
  <2>2. /\ pc[r] # "idle" /\ pc'[r] # "joined" /\ \A q \in Requests : q # r => pc'[q] = pc[q]
        /\ pc[r] \in Filling => pc'[r] \in Filling
    BY <1>0, <1>1 DEF Lookup, ReadEntry, CheckEntry, LookupFails, LeaseTaken, PollEntry, StopPolling,
                PollTimesOut, ProducerReturns, ReleaseLease, ReleaseFails, LeaseFails, Filling, TypeOK
  <2>3. QED
    BY <1>0, <2>1, <2>2, MarkKept DEF localVars
<1>2. ASSUME NEW r \in Requests, ProducerReturnsLate(r) \/ WriteEntry(r) \/ FillFails(r) PROVE MarkInv'
  <2>1. UNCHANGED <<call, waits, version, announced, inflight>> /\ pc[r] \in Filling
    BY <1>2 DEF ProducerReturnsLate, WriteEntry, FillFails, CloseFill, Filling
  <2>2. fill'[r].startVersion = fill[r].startVersion /\ \A q \in Requests : q # r => fill'[q] = fill[q]
    BY <1>0, <1>2 DEF ProducerReturnsLate, WriteEntry, FillFails, TypeOK, Fill
  <2>3. /\ active' = [active EXCEPT ![Home(r)] = active[Home(r)] \ {r}]
        /\ mark' = [mark EXCEPT ![Home(r)] =
                      IF Dependent(Home(r), active[Home(r)] \ {r}) THEN mark[Home(r)] ELSE 0]
    BY <1>2 DEF ProducerReturnsLate, WriteEntry, FillFails, CloseFill
  <2>4. pc'[r] \in Ending /\ \A q \in Requests : q # r => pc'[q] = pc[q]
    BY <1>0, <1>2 DEF ProducerReturnsLate, WriteEntry, FillFails, CloseFill, Ending, TypeOK
  <2>5. Home(r) \in Servers
    BY <1>0, <2>1 DEF Filling
  <2>6. \A s \in Servers : active'[s] \subseteq active[s] /\ r \notin active'[s]
    BY <1>0, <2>3, <2>5 DEF TypeOK
  <2>7. \A s \in Servers : \A f \in active'[s] :
           mark[s] > fill[f].createdVersion => mark'[s] > fill[f].createdVersion
    BY <1>0, <2>3, <2>5, <2>6 DEF Dependent, TypeOK
  <2>8. QED
    BY <1>0, <2>1, <2>2, <2>4, <2>6, <2>7, MarkKept DEF Filling, Ending
<1>3. ASSUME NEW r \in Requests, CompareEntry(r) PROVE MarkInv'
  <2>1. /\ UNCHANGED <<localVars, call, waits>> /\ pc[r] = "comparing"
        /\ \A q \in Requests : q # r => fill'[q] = fill[q] /\ pc'[q] = pc[q]
        /\ pc'[r] \in {"retrying", "polling", "settling"}
    BY <1>0, <1>3 DEF CompareEntry, TypeOK
  <2>2. fill'[r].startVersion = fill[r].startVersion
    BY <1>0, <1>3 DEF CompareEntry, TypeOK, Fill
  <2>3. QED
    <3>1. \A s \in Servers : r \notin active[s]
      BY <1>0, <2>1 DEF Filling
    <3>2. \A s \in Servers : \A f \in active[s] : pc'[f] \in Filling /\ fill'[f] = fill[f]
      BY <1>0, <2>1, <3>1
    <3>3. QED
      BY <1>0, <2>1, <2>2, <3>2, MarkKept DEF localVars
<1>4. ASSUME NEW r \in Requests, Settle(r) PROVE MarkInv'
  <2>1. /\ UNCHANGED <<version, active, mark, announced, call, waits>> /\ pc[r] = "settling"
        /\ \A s \in Servers : inflight'[s] \in {inflight[s], None}
        /\ \A q \in Requests : pc'[q] = pc[q] \/ (pc'[q] = "done" /\ pc[q] \in {"joined", "settling"})
        /\ pc'[r] = "done" /\ fill' = [fill EXCEPT ![r] = NoFill]
    BY <1>0, <1>4 DEF Settle, TypeOK
  <2>2. fill'[r].startVersion = 0 /\ \A q \in Requests : q # r => fill'[q] = fill[q]
    BY <1>0, <2>1 DEF TypeOK, NoFill
  <2>3. QED
    BY <1>0, <2>1, <2>2, MarkKept DEF Filling
<1>5. ASSUME NEW R, Forget(R)
      PROVE  \A q \in Requests : IF q \in R THEN fill'[q].startVersion = 0
                                ELSE call'[q] = call[q] /\ fill'[q] = fill[q] /\ waits'[q] = waits[q]
  BY <1>5 DEF Forget, NoFill
<1>6. ASSUME NEW r \in Requests, Return(r) PROVE MarkInv'
  BY <1>0, <1>5, <1>6, MarkKept DEF Return, localVars, TypeOK, Filling
<1>7. ASSUME NEW s \in Servers, EmptyLocal(s)
      PROVE  /\ UNCHANGED announced
             /\ \A t \in Servers :
                  /\ active'[t] \subseteq active[t] /\ inflight'[t] \in {inflight[t], None}
                  /\ version'[t] = version[t] \/ (active'[t] = {} /\ inflight'[t] = None)
                  /\ active'[t] = {} \/ (t # s /\ mark'[t] = mark[t])
  BY <1>0, <1>7 DEF EmptyLocal, TypeOK
<1>8. ASSUME NEW s \in Servers, Crash(s) PROVE MarkInv'
  <2>1. \A q \in Requests : pc'[q] = IF Home(q) = s THEN "idle" ELSE pc[q]
    BY <1>8 DEF Crash
  <2>2. \A q \in Requests : IF Home(q) = s THEN fill'[q].startVersion = 0
                           ELSE call'[q] = call[q] /\ fill'[q] = fill[q] /\ waits'[q] = waits[q]
    BY <1>5, <1>8 DEF Crash
  <2>3. QED
    BY <1>0, <1>7, <1>8, <2>1, <2>2, MarkKept DEF Crash
<1>9. ASSUME NEW s \in Servers, ResetLocal(s) PROVE MarkInv'
  BY <1>0, <1>7, <1>9, MarkKept DEF ResetLocal, requestVars
<1>10. CASE UNCHANGED <<localVars, requestVars>>
  BY <1>0, <1>10, MarkKept DEF localVars, requestVars
<1>11. ASSUME NEW s \in Servers, TagInvalidated(s) \/ RevalidationFails(s) PROVE MarkInv'
  BY <1>10, <1>11 DEF TagInvalidated, RevalidationFails
<1>12. CASE Environment \/ ExpireLease \/ UNCHANGED vars
  BY <1>10, <1>12 DEF Environment, ExpireLease, vars
<1>13. ASSUME NEW r \in Requests, NEW s \in Servers, GetOrSet(r, s) PROVE MarkInv'
  <2>1. /\ pc[r] = "idle" /\ fill[r] = NoFill /\ UNCHANGED <<localVars, fill, waits, data>>
        /\ pc'[r] = "getting" /\ Home(r)' = s /\ call'[r].announced = announced[s]
        /\ \A q \in Requests : q # r => pc'[q] = pc[q] /\ call'[q] = call[q]
    BY <1>0, <1>13 DEF GetOrSet, TypeOK, Home, storeVars, CallInv, Leasing, Filling, Ending
  <2>2. \A t \in Servers : \A f \in active[t] : ActiveFill(t, f)'
    BY <1>0, <2>1 DEF MarkInv, ActiveFill, Home, localVars, Filling
  <2>3. \A t \in Servers : SharedFill(t)'
    <3> SUFFICES ASSUME NEW t \in Servers, inflight[t] # None, Home(inflight[t])' = t
                 PROVE  fill[inflight[t]].startVersion <= version[t]
      BY <2>1 DEF SharedFill, localVars
    <3>1. CASE inflight[t] = r
      BY <1>0, <2>1, <3>1 DEF NoFill
    <3>2. CASE inflight[t] # r
      <4>1. inflight[t] \in Requests
        BY <1>0, <2>1, <3>2 DEF TypeOK
      <4>2. Home(inflight[t]) = t
        BY <2>1, <3>2, <4>1 DEF Home, localVars
      <4>3. QED
        BY <4>1, <4>2 DEF MarkInv, SharedFill
    <3>3. QED
      BY <3>1, <3>2
  <2>4. \A q \in Requests : pc'[q] # "idle" => /\ (call[q].announced <= data)'
                                             /\ (call[q].announced <= announced[Home(q)])'
    BY <1>0, <2>1 DEF MarkInv, Home, localVars
  <2>5. ActiveFillsAreFresh'
    BY <1>0, <2>1 DEF MarkInv, ActiveFillsAreFresh, Home, localVars
  <2>6. QED
    BY <2>1, <2>2, <2>3, <2>4, <2>5 DEF MarkInv, localVars
<1>14. ASSUME NEW r \in Requests, JoinInflight(r) PROVE MarkInv'
  <2>1. /\ UNCHANGED <<localVars, fill, call, data>> /\ pc[r] = "missed" /\ pc'[r] = "joined" /\ Joinable(r)
        /\ waits'[r] = inflight[Home(r)] /\ Home(r) \in Servers
        /\ \A q \in Requests : q # r => pc'[q] = pc[q] /\ waits'[q] = waits[q]
    BY <1>0, <1>14 DEF JoinInflight, TypeOK, storeVars
  <2>2. ActiveFillsAreFresh'
    <3> SUFFICES ASSUME NEW q \in Requests, pc'[q] = "joined", NEW f, f = waits'[q],
                        f \in active[Home(q)], fill[f].value # None
                 PROVE  fill[f].value >= call[q].announced
      BY <2>1 DEF ActiveFillsAreFresh, Home, localVars
    <3>1. CASE q = r
      <4>1. f = inflight[Home(r)] /\ ActiveFill(Home(r), f) /\ f \in Requests
        BY <1>0, <2>1, <3>1 DEF MarkInv
      <4>2. ~(mark[Home(r)] > fill[f].createdVersion)
        BY <1>0, <2>1, <4>1 DEF Joinable, WasInvalidatedSince, ActiveFill
      <4>3. fill[f].value >= announced[Home(r)] /\ call[r].announced <= announced[Home(r)]
        BY <2>1, <4>1, <4>2 DEF ActiveFill, MarkInv
      <4>4. QED
        BY <1>0, <2>1, <3>1, <4>1, <4>3
    <3>2. CASE q # r
      BY <2>1, <3>2 DEF MarkInv, ActiveFillsAreFresh
    <3>3. QED
      BY <3>1, <3>2
  <2>3. \A t \in Servers : \A f \in active[t] : ActiveFill(t, f)'
    BY <1>0, <2>1 DEF MarkInv, ActiveFill, Home, localVars, Filling
  <2>4. QED
    BY <2>1, <2>2, <2>3 DEF MarkInv, SharedFill, Home, localVars
<1>15. ASSUME NEW r \in Requests, StartFill(r) PROVE MarkInv'
  <2>1. /\ UNCHANGED <<version, mark, active, announced, call, waits, data>>
        /\ pc[r] = "missed" /\ pc'[r] = "leasing" /\ Home(r) \in Servers
        /\ inflight' = [inflight EXCEPT ![Home(r)] = r]
        /\ \A q \in Requests : q # r => pc'[q] = pc[q] /\ fill'[q] = fill[q]
    BY <1>0, <1>15 DEF StartFill, TypeOK, storeVars
  <2>2. fill'[r].startVersion = version[Home(r)]
    BY <1>0, <1>15 DEF StartFill, TypeOK, NoFill
  <2>3. \A t \in Servers : r \notin active[t]
    BY <1>0, <2>1 DEF Filling
  <2>4. \A t \in Servers : \A f \in active[t] : ActiveFill(t, f)'
    BY <1>0, <2>1, <2>3 DEF MarkInv, ActiveFill, Home, TypeOK
  <2>5. \A t \in Servers : SharedFill(t)'
    <3> SUFFICES ASSUME NEW t \in Servers, inflight'[t] # None, Home(inflight'[t]) = t
                 PROVE  fill'[inflight'[t]].startVersion <= version[t]
      BY <2>1 DEF SharedFill, Home
    <3>1. CASE inflight'[t] = r
      BY <1>0, <2>2, <3>1
    <3>2. CASE inflight'[t] # r
      BY <1>0, <2>1, <3>2 DEF MarkInv, SharedFill, TypeOK
    <3>3. QED
      BY <3>1, <3>2
  <2>6. ActiveFillsAreFresh'
    BY <1>0, <2>1, <2>3 DEF MarkInv, ActiveFillsAreFresh, Home
  <2>7. QED
    BY <1>0, <2>1, <2>4, <2>5, <2>6 DEF MarkInv, Home
<1>16. ASSUME NEW r \in Requests, AcquireLease(r) \/ RetryLease(r) PROVE MarkInv'
  <2>1. PICK token \in BOOLEAN : Register(r, token) /\ pc[r] \in Leasing
    BY <1>0, <1>16 DEF AcquireLease, RetryLease, Leasing
  <2>2. /\ UNCHANGED <<version, mark, inflight, announced, call, waits, data>>
        /\ pc'[r] = "capturing" /\ Home(r) \in Servers
        /\ active' = [active EXCEPT ![Home(r)] = active[Home(r)] \cup {r}]
        /\ \A q \in Requests : q # r => pc'[q] = pc[q] /\ fill'[q] = fill[q]
    BY <1>0, <2>1 DEF Register, TypeOK, Leasing
  <2>3. fill'[r].startVersion = fill[r].startVersion /\ fill'[r].createdVersion = version[Home(r)]
    BY <1>0, <2>1 DEF Register, TypeOK, Fill
  <2>4. fill'[r].value = None
    BY <1>0, <2>2 DEF CallInv
  <2>5. ASSUME NEW t \in Servers, t = Home(r) PROVE ActiveFill(t, r)'
    <3>1. inflight[Home(r)] = r => fill[r].startVersion <= version[Home(r)]
      BY <2>2, StoreNoneAssumption DEF MarkInv, SharedFill
    <3>2. QED
      BY <1>0, <2>2, <2>3, <2>4, <2>5, <3>1 DEF ActiveFill, Home, Filling
  <2>6. \A t \in Servers : \A f \in active'[t] : f # r => ActiveFill(t, f)'
    <3> SUFFICES ASSUME NEW t \in Servers, NEW f \in active'[t], f # r PROVE ActiveFill(t, f)'
      OBVIOUS
    <3>1. f \in active[t] /\ f \in Requests /\ ActiveFill(t, f)
      BY <1>0, <2>2 DEF TypeOK, MarkInv
    <3>2. QED
      BY <2>2, <3>1 DEF ActiveFill, Home
  <2>7. \A t \in Servers : \A f \in active'[t] : ActiveFill(t, f)'
    <3>1. \A t \in Servers : r \in active'[t] => t = Home(r)
      BY <1>0, <2>1, <2>2 DEF TypeOK, Leasing, Filling
    <3>2. QED
      BY <2>5, <2>6, <3>1
  <2>8. \A t \in Servers : SharedFill(t)'
    BY <1>0, <2>2, <2>3 DEF MarkInv, SharedFill, Home, TypeOK
  <2>9. ActiveFillsAreFresh'
    <3> SUFFICES ASSUME NEW q \in Requests, pc'[q] = "joined", NEW f, f = waits[q],
                        f \in active'[Home(q)], fill'[f].value # None
                 PROVE  fill'[f].value >= call[q].announced
      BY <2>2 DEF ActiveFillsAreFresh, Home
    <3>1. q # r /\ f # r /\ pc[q] = "joined" /\ Home(q) \in Servers
      BY <1>0, <2>2, <2>4
    <3>2. f \in active[Home(q)] /\ f \in Requests /\ fill'[f] = fill[f]
      BY <1>0, <2>2, <3>1 DEF TypeOK
    <3>3. QED
      BY <3>1, <3>2 DEF MarkInv, ActiveFillsAreFresh
  <2>10. QED
    BY <1>0, <2>1, <2>2, <2>7, <2>8, <2>9 DEF MarkInv, Home, Leasing
<1>17. ASSUME NEW r \in Requests, CaptureTagVersions(r) \/ CallProducer(r) PROVE MarkInv'
  <2>1. /\ UNCHANGED <<localVars, call, waits, data>> /\ pc[r] \in Filling /\ pc'[r] \in Filling
        /\ \A q \in Requests : q # r => pc'[q] = pc[q] /\ fill'[q] = fill[q]
    BY <1>0, <1>17 DEF CaptureTagVersions, CallProducer, TypeOK, storeVars, Filling
  <2>2. /\ fill'[r].startVersion = fill[r].startVersion
        /\ fill'[r].createdVersion = fill[r].createdVersion
        /\ fill'[r].value \in {None, data}
    <3>1. CASE CaptureTagVersions(r)
      BY <1>0, <3>1 DEF CaptureTagVersions, TypeOK, Fill, CallInv
    <3>2. CASE CallProducer(r)
      BY <1>0, <3>2 DEF CallProducer, TypeOK, Fill
    <3>3. QED
      BY <1>17, <3>1, <3>2
  <2>3. pc'[r] # "joined" /\ pc'[r] # "idle" /\ pc[r] # "idle"
    BY <2>1 DEF Filling
  <2>4. \A t \in Servers : \A f \in active[t] : ActiveFill(t, f)'
    <3> SUFFICES ASSUME NEW t \in Servers, NEW f \in active[t] PROVE ActiveFill(t, f)'
      OBVIOUS
    <3>1. f \in Requests /\ ActiveFill(t, f) /\ announced[t] <= data
      BY <1>0 DEF MarkInv
    <3>2. CASE f # r
      BY <2>1, <3>1, <3>2 DEF ActiveFill, Home, localVars
    <3>3. CASE f = r
      BY <1>0, <2>1, <2>2, <3>1, <3>3 DEF ActiveFill, Home, localVars
    <3>4. QED
      BY <3>2, <3>3
  <2>5. \A t \in Servers : SharedFill(t)'
    BY <1>0, <2>1, <2>2 DEF MarkInv, SharedFill, Home, TypeOK, localVars
  <2>6. ActiveFillsAreFresh'
    <3> SUFFICES ASSUME NEW q \in Requests, pc'[q] = "joined", NEW f, f = waits[q],
                        f \in active[Home(q)], fill'[f].value # None
                 PROVE  fill'[f].value >= call[q].announced
      BY <2>1 DEF ActiveFillsAreFresh, Home, localVars
    <3>1. pc[q] = "joined" /\ call[q].announced <= data
      BY <2>1, <2>3 DEF MarkInv
    <3>2. CASE f = r
      BY <1>0, <2>2, <3>1, <3>2
    <3>3. CASE f # r
      <4>1. f \in Requests
        BY <1>0, <3>1
      <4>2. QED
        BY <2>1, <3>1, <3>3, <4>1 DEF MarkInv, ActiveFillsAreFresh
    <3>4. QED
      BY <3>2, <3>3
  <2>7. QED
    BY <1>0, <2>1, <2>3, <2>4, <2>5, <2>6 DEF MarkInv, Home, localVars
<1>18. ASSUME NEW s \in Servers, RevalidateTag(s) PROVE MarkInv'
  <2>1. /\ UNCHANGED <<generation, active, inflight, requestVars, data>>
        /\ version' = [version EXCEPT ![s] = version[s] + 1]
        /\ announced' = [announced EXCEPT ![s] = data]
        /\ mark' = [mark EXCEPT ![s] =
                      IF \E q \in active[s] : fill[q].createdVersion < version[s] + 1
                        THEN version[s] + 1 ELSE 0]
    BY <1>18 DEF RevalidateTag, CallInvalidateTags
  <2>2. \A t \in Servers : announced[t] <= announced'[t] /\ announced'[t] <= data /\ announced'[t] \in Nat
                          /\ version[t] <= version'[t] /\ version'[t] \in Nat
    BY <1>0, <2>1 DEF MarkInv, TypeOK
  <2>3. \A t \in Servers : \A f \in active[t] : ActiveFill(t, f)'
    <3> SUFFICES ASSUME NEW t \in Servers, NEW f \in active[t] PROVE ActiveFill(t, f)'
      OBVIOUS
    <3>1. f \in Requests /\ ActiveFill(t, f)
      BY <1>0 DEF MarkInv
    <3>2. CASE t # s
      BY <1>0, <2>1, <2>2, <3>1, <3>2 DEF ActiveFill, Home, requestVars, TypeOK
    <3>3. CASE t = s
      <4>1. fill[f].createdVersion < version[s] + 1
        BY <1>0, <3>1, <3>3 DEF ActiveFill
      <4>2. mark'[s] = version[s] + 1
        BY <1>0, <2>1, <3>3, <4>1 DEF TypeOK
      <4>3. QED
        BY <1>0, <2>1, <2>2, <3>1, <3>3, <4>1, <4>2 DEF ActiveFill, Home, requestVars
    <3>4. QED
      BY <3>2, <3>3
  <2>4. \A t \in Servers : SharedFill(t)'
    BY <1>0, <2>1, <2>2 DEF MarkInv, SharedFill, Home, requestVars, TypeOK
  <2>5. ActiveFillsAreFresh'
    BY <2>1 DEF MarkInv, ActiveFillsAreFresh, Home, requestVars
  <2>6. \A r \in Requests : pc'[r] # "idle" => /\ (call[r].announced <= data)'
                                             /\ (call[r].announced <= announced[Home(r)])'
    BY <1>0, <2>1, <2>2 DEF MarkInv, Home, requestVars
  <2>7. QED
    BY <2>1, <2>2, <2>3, <2>4, <2>5, <2>6 DEF MarkInv
<1>19. QED
  BY <1>1, <1>2, <1>3, <1>4, <1>6, <1>8, <1>9, <1>11, <1>12, <1>13, <1>14, <1>15, <1>16, <1>17, <1>18
     DEF Next, Continue, AwaitHolder, RunFill, CallFails

-----------------------------------------------------------------------------
(* The invariant and what follows from it                                  *)

SharedInv == CallInv /\ FreshInv /\ LeaseHeld /\ MarkInv

(* The inductive invariant: types and the locals of each request; what     *)
(* entries and fills cover; the lease; marks and active fills.             *)
THEOREM Inductive == Spec => []SharedInv
<1>1. Init => SharedInv
  <2> SUFFICES ASSUME Init PROVE SharedInv
    OBVIOUS
  <2>1. CallInv
    BY CallInvInit
  <2>2. FreshInv
    BY DEF Init, StoreInit, FreshInv, StoreInv, RequestInv, Ending
  <2>3. LeaseHeld
    BY DEF Init, LeaseHeld, Holders
  <2>4. MarkInv
    BY DEF Init, StoreInit, MarkInv, SharedFill, ActiveFillsAreFresh
  <2>5. QED
    BY <2>1, <2>2, <2>3, <2>4 DEF SharedInv
<1>2. SharedInv /\ [Next]_vars => SharedInv'
  BY CallInvStep, StoreInvStep, RequestInvStep, LeaseStep, MarkInvStep DEF SharedInv, FreshInv
<1>3. QED
  BY <1>1, <1>2, PTL DEF Spec

(* The fields of every server, the locals of every call and the store keep *)
(* their types.                                                            *)
THEOREM TypeSafe == Spec => []TypeOK
<1>1. SharedInv => TypeOK
  BY DEF SharedInv, CallInv
<1>2. QED
  BY <1>1, Inductive, PTL

(* A hit, a polled entry and a fill's own value are no older than the      *)
(* revalidations completed on any server before the call (getEntryAsync,   *)
(* fillCacheEntry); nothing is claimed of a read that joined a fill.       *)
THEOREM OwnReadsFresh == Spec => []OwnReadsAreFresh
<1>1. SharedInv => OwnReadsAreFresh
  BY DEF SharedInv, FreshInv, RequestInv, OwnReadsAreFresh
<1>2. QED
  BY <1>1, Inductive, PTL

(* The value of an active fill reaches no reader who called after the      *)
(* server of both had started to invalidate the tag (wasInvalidatedSince); *)
(* nothing is claimed of invalidations on other servers.                   *)
THEOREM LocalJoinsFresh == Spec => []ActiveFillsAreFresh
<1>1. SharedInv => ActiveFillsAreFresh
  BY DEF SharedInv, MarkInv
<1>2. QED
  BY <1>1, Inductive, PTL

(* Nobody else releases a lease that has not run out (releaseLease).       *)
THEOREM LeaseSafe == Spec => []LeaseHeld
<1>1. SharedInv => LeaseHeld
  BY DEF SharedInv
<1>2. QED
  BY <1>1, Inductive, PTL

-----------------------------------------------------------------------------
(* The data is revalidated. A promise a server shares, or awaits, is a     *)
(* fill of that server that has not settled, and nobody has seen data      *)
(* before it was written: with these two, every action maps to one of      *)
(* RevalidatedData's.                                                      *)

(* A request whose fill has begun and has not settled.                     *)
InFill(f) == pc[f] \in Leasing \cup Filling \cup Ending

(* The promise a server shares, and the promise a reader awaits, belong to *)
(* a fill of that server that has not settled.                             *)
JoinInv ==
  /\ \A s \in Servers : inflight[s] # None => InFill(inflight[s]) /\ Home(inflight[s]) = s
  /\ \A q \in Requests : pc[q] = "joined" => InFill(waits[q]) /\ Home(waits[q]) = Home(q)

(* Nobody has seen data that was not written.                              *)
SeenInv ==
  /\ stored # None => stored.seen <= data
  /\ \A r \in Requests : pc[r] \in {"checking", "comparing"} => found[r].seen <= data
  /\ \A r \in Requests : fill[r].value # None => fill[r].value <= data

(* Steps that call nobody, start no fill and settle none.                  *)
LEMMA JoinKept ==
  ASSUME CallInv, JoinInv, UNCHANGED <<call, waits>>,
         \A s \in Servers : inflight'[s] \in {None, inflight[s]},
         \A q \in Requests : InFill(q) => InFill(q)',
         \A q \in Requests : pc'[q] = "joined" => pc[q] = "joined"
  PROVE  JoinInv'
BY DEF CallInv, TypeOK, JoinInv, Home

(* A server empties what it shares before its fills are lost, and a fill   *)
(* takes with it whoever awaits it.                                        *)
LEMMA JoinStep ==
  ASSUME CallInv, JoinInv, [Next]_vars
  PROVE  JoinInv'
<1> USE DEF Goto
<1>1. TypeOK /\ \A r \in Requests : pc[r] # "idle" => call[r].server \in Servers
  BY DEF CallInv, Call
<1>2. ASSUME NEW r \in Requests, NEW s \in Servers, GetOrSet(r, s) PROVE JoinInv'
  <2>1. /\ pc' = [pc EXCEPT ![r] = "getting"] /\ pc[r] = "idle" /\ UNCHANGED <<inflight, waits>>
        /\ \A q \in Requests : q # r => call'[q] = call[q]
    BY <1>1, <1>2 DEF GetOrSet, localVars, TypeOK
  <2>2. QED
    BY <1>1, <2>1 DEF JoinInv, InFill, Home, Leasing, Filling, Ending, TypeOK
<1>3. ASSUME NEW r \in Requests, Lookup(r) \/ LookupFails(r) PROVE JoinInv'
  BY <1>1, <1>3, JoinKept
     DEF Lookup, ReadEntry, CheckEntry, LookupFails, InFill, Leasing, Filling, Ending, localVars, TypeOK
<1>4. ASSUME NEW r \in Requests, JoinInflight(r) PROVE JoinInv'
  <2>1. /\ pc' = [pc EXCEPT ![r] = "joined"] /\ pc[r] = "missed" /\ UNCHANGED <<inflight, call>>
        /\ inflight[Home(r)] # None
        /\ waits' = [waits EXCEPT ![r] = inflight[Home(r)]]
    BY <1>4 DEF JoinInflight, Joinable, localVars
  <2>2. Home(r) \in Servers
    BY <1>1, <2>1 DEF Home
  <2>3. InFill(inflight[Home(r)]) /\ Home(inflight[Home(r)]) = Home(r)
    BY <2>1, <2>2 DEF JoinInv
  <2>4. \A q \in Requests : InFill(q) => InFill(q)'
    BY <1>1, <2>1 DEF InFill, Leasing, Filling, Ending, TypeOK
  <2>5. QED
    BY <1>1, <2>1, <2>2, <2>3, <2>4 DEF JoinInv, Home, TypeOK
<1>5. ASSUME NEW r \in Requests, StartFill(r) PROVE JoinInv'
  <2>1. /\ pc' = [pc EXCEPT ![r] = "leasing"] /\ pc[r] = "missed" /\ UNCHANGED <<call, waits>>
        /\ inflight' = [inflight EXCEPT ![Home(r)] = r]
    BY <1>5 DEF StartFill
  <2>2. Home(r) \in Servers
    BY <1>1, <2>1 DEF Home
  <2>3. InFill(r)' /\ \A q \in Requests : InFill(q) => InFill(q)'
    BY <1>1, <2>1 DEF InFill, Leasing, Filling, Ending, TypeOK
  <2>4. QED
    BY <1>1, <2>1, <2>2, <2>3 DEF JoinInv, Home, TypeOK
<1>6. ASSUME NEW r \in Requests, AwaitHolder(r) \/ PollTimesOut(r) \/ LeaseFails(r) PROVE JoinInv'
  BY <1>1, <1>6, JoinKept
     DEF AwaitHolder, AcquireLease, LeaseTaken, PollEntry, CompareEntry, StopPolling, RetryLease,
         Register, PollTimesOut, LeaseFails, InFill, Leasing, Filling, Ending, localVars, TypeOK
<1>7. ASSUME NEW r \in Requests,
             CaptureTagVersions(r) \/ CallProducer(r) \/ ProducerReturns(r) \/ ReleaseLease(r)
               \/ ReleaseFails(r)
      PROVE  JoinInv'
  BY <1>1, <1>7, JoinKept
     DEF CaptureTagVersions, CallProducer, ProducerReturns, ReleaseLease, ReleaseFails,
         InFill, Leasing, Filling, Ending, localVars, TypeOK
<1>8. ASSUME NEW r \in Requests, ProducerReturnsLate(r) \/ WriteEntry(r) \/ FillFails(r)
      PROVE  JoinInv'
  BY <1>1, <1>8, JoinKept
     DEF ProducerReturnsLate, WriteEntry, FillFails, CloseFill, InFill, Leasing, Filling, Ending, TypeOK
<1>9. ASSUME NEW r \in Requests, Settle(r) PROVE JoinInv'
  <2>1. /\ pc[r] = "settling" /\ UNCHANGED <<call, waits>>
        /\ pc' = [q \in Requests |->
                    IF q = r \/ (pc[q] = "joined" /\ waits[q] = r) THEN "done" ELSE pc[q]]
        /\ inflight' = IF inflight[Home(r)] = r
                         THEN [inflight EXCEPT ![Home(r)] = None] ELSE inflight
    BY <1>9 DEF Settle
  <2>2. \A q \in Requests : InFill(q) /\ q # r => InFill(q)'
    BY <2>1 DEF InFill, Leasing, Filling, Ending
  <2>3. \A s \in Servers : inflight'[s] # None => inflight'[s] = inflight[s] /\ inflight[s] # r
    BY <1>1, <2>1 DEF JoinInv, TypeOK
  <2>4. \A s \in Servers : inflight'[s] # None => InFill(inflight[s])' /\ Home(inflight[s])' = s
    BY <1>1, <2>1, <2>2, <2>3 DEF JoinInv, Home, TypeOK
  <2>5. \A q \in Requests : pc'[q] = "joined" => pc[q] = "joined" /\ waits[q] # r
    BY <2>1
  <2>6. QED
    BY <1>1, <2>1, <2>2, <2>3, <2>4, <2>5 DEF JoinInv, Home, TypeOK
<1>10. ASSUME NEW r \in Requests, Return(r) PROVE JoinInv'
  <2>1. /\ pc' = [pc EXCEPT ![r] = "idle"] /\ pc[r] = "done" /\ UNCHANGED inflight
        /\ \A q \in Requests : q # r => call'[q] = call[q] /\ waits'[q] = waits[q]
    BY <1>10 DEF Return, Forget, localVars
  <2>2. \A q \in Requests : InFill(q) => InFill(q)' /\ q # r
    BY <1>1, <2>1 DEF InFill, Leasing, Filling, Ending, TypeOK
  <2>3. QED
    BY <1>1, <2>1, <2>2 DEF JoinInv, Home, TypeOK
<1>11. ASSUME NEW s \in Servers, Crash(s) PROVE JoinInv'
  <2>1. \A q \in Requests : Home(q) # s => pc'[q] = pc[q] /\ call'[q] = call[q] /\ waits'[q] = waits[q]
    BY <1>11 DEF Crash, Forget
  <2>2. \A q \in Requests : Home(q) = s => pc'[q] = "idle"
    BY <1>11 DEF Crash
  <2>3. inflight' = [inflight EXCEPT ![s] = None]
    BY <1>11 DEF Crash, EmptyLocal
  <2>4. \A q \in Requests : InFill(q) /\ Home(q) # s => InFill(q)' /\ Home(q)' = Home(q)
    BY <2>1 DEF InFill, Home
  <2>5. \A t \in Servers : inflight'[t] # None => t # s /\ inflight'[t] = inflight[t]
    BY <1>1, <2>3 DEF TypeOK
  <2>6. ASSUME NEW t \in Servers, inflight'[t] # None
        PROVE  InFill(inflight[t])' /\ Home(inflight[t])' = t
    BY <1>1, <2>4, <2>5, <2>6 DEF JoinInv, InFill, Home, TypeOK
  <2>7. ASSUME NEW q \in Requests, pc'[q] = "joined"
        PROVE  InFill(waits[q])' /\ Home(waits[q])' = Home(q)'
    <3>1. Home(q) # s /\ pc[q] = "joined" /\ waits'[q] = waits[q] /\ Home(q)' = Home(q)
      BY <2>1, <2>2, <2>7 DEF Home
    <3>2. waits[q] \in Requests /\ InFill(waits[q]) /\ Home(waits[q]) = Home(q)
      BY <1>1, <3>1 DEF JoinInv, TypeOK
    <3>3. QED
      BY <2>4, <3>1, <3>2 DEF InFill, Home
  <2>8. QED
    BY <2>6, <2>7 DEF JoinInv
<1>12. ASSUME NEW s \in Servers,
              RevalidateTag(s) \/ TagInvalidated(s) \/ RevalidationFails(s) \/ ResetLocal(s)
       PROVE  JoinInv'
  BY <1>1, <1>12, JoinKept
     DEF RevalidateTag, TagInvalidated, RevalidationFails, ResetLocal, EmptyLocal,
         localVars, requestVars, InFill, TypeOK
<1>13. CASE Environment \/ ExpireLease \/ UNCHANGED vars
  BY <1>13, JoinKept DEF Environment, ExpireLease, vars, localVars, requestVars, InFill
<1>14. QED
  BY <1>2, <1>3, <1>4, <1>5, <1>6, <1>7, <1>8, <1>9, <1>10, <1>11, <1>12, <1>13
     DEF Next, Continue, RunFill, CallFails

(* What a request reads, it has from the store, the data or what it read   *)
(* before.                                                                 *)
Reads(r) ==
  /\ pc'[r] \in {"checking", "comparing"} =>
       \/ pc[r] \in {"checking", "comparing"} /\ found'[r] = found[r]
       \/ stored # None /\ found'[r] = stored
  /\ fill'[r].value # None =>
       \/ fill'[r].value \in {fill[r].value, data}
       \/ pc[r] = "comparing" /\ fill'[r].value = found[r].seen

(* Every step keeps to it.                                                 *)
LEMMA AllRead ==
  ASSUME CallInv, [Next]_vars, NEW r \in Requests
  PROVE  Reads(r)
<1> USE DEF Goto, Reads
<1>1. TypeOK /\ fill[r] \in Fill /\ NoFill.value = None
  BY DEF CallInv, TypeOK, NoFill
<1>2. Unmoved(r) => Reads(r)
  BY DEF Unmoved
<1>3. ASSUME NEW q \in Requests, NEW s \in Servers, GetOrSet(q, s) PROVE Reads(r)
  BY <1>1, <1>3 DEF GetOrSet, TypeOK
<1>4. ASSUME NEW q \in Requests, Lookup(q) \/ LookupFails(q) \/ JoinInflight(q) PROVE Reads(r)
  BY <1>1, <1>4 DEF Lookup, ReadEntry, CheckEntry, LookupFails, JoinInflight, TypeOK
<1>5. ASSUME NEW q \in Requests, StartFill(q) PROVE Reads(r)
  <2>1. q # r => Unmoved(r)
    BY <1>1, <1>5 DEF StartFill, Unmoved, TypeOK
  <2>2. q = r => pc'[r] = "leasing" /\ fill'[r].value = None
    BY <1>1, <1>5 DEF StartFill, TypeOK, NoFill
  <2>3. QED
    BY <1>2, <2>1, <2>2
<1>6. ASSUME NEW q \in Requests, AcquireLease(q) \/ RetryLease(q) PROVE Reads(r)
  <2>1. q # r => Unmoved(r)
    BY <1>1, <1>6 DEF AcquireLease, RetryLease, Register, Unmoved, TypeOK
  <2>2. q = r => pc'[r] = "capturing" /\ fill'[r].value = fill[r].value
    BY <1>1, <1>6 DEF AcquireLease, RetryLease, Register, TypeOK, Fill
  <2>3. QED
    BY <1>2, <2>1, <2>2
<1>7. ASSUME NEW q \in Requests,
             LeaseTaken(q) \/ PollEntry(q) \/ StopPolling(q) \/ PollTimesOut(q) \/ LeaseFails(q)
      PROVE  Reads(r)
  BY <1>1, <1>7 DEF LeaseTaken, PollEntry, StopPolling, PollTimesOut, LeaseFails, TypeOK
<1>8. ASSUME NEW q \in Requests, CompareEntry(q) PROVE Reads(r)
  <2>1. q # r => Unmoved(r)
    BY <1>1, <1>8 DEF CompareEntry, Unmoved, TypeOK
  <2>2. q = r => /\ pc[r] = "comparing" /\ pc'[r] \in {"retrying", "polling", "settling"}
                 /\ fill'[r].value \in {fill[r].value, found[r].seen}
    BY <1>1, <1>8 DEF CompareEntry, TypeOK, Fill
  <2>3. QED
    BY <1>2, <2>1, <2>2
<1>9. ASSUME NEW q \in Requests, CaptureTagVersions(q) \/ CallProducer(q) \/ FillFails(q)
      PROVE  Reads(r)
  <2>1. q # r => Unmoved(r)
    BY <1>1, <1>9 DEF CaptureTagVersions, CallProducer, FillFails, CloseFill, Unmoved, TypeOK
  <2>2. q = r => /\ pc'[r] \in {"ready", "producing", "releasing", "settling"}
                 /\ fill'[r].value \in {fill[r].value, data, None}
    BY <1>1, <1>9 DEF CaptureTagVersions, CallProducer, FillFails, CloseFill, TypeOK, Fill
  <2>3. QED
    BY <1>2, <2>1, <2>2
<1>10. ASSUME NEW q \in Requests,
             ProducerReturns(q) \/ ProducerReturnsLate(q) \/ WriteEntry(q) \/ ReleaseLease(q)
               \/ ReleaseFails(q)
      PROVE  Reads(r)
  BY <1>1, <1>10 DEF ProducerReturns, ProducerReturnsLate, WriteEntry, ReleaseLease, ReleaseFails,
                     CloseFill, TypeOK
<1>11. ASSUME NEW q \in Requests, Settle(q) PROVE Reads(r)
  BY <1>1, <1>11 DEF Settle, TypeOK
<1>12. ASSUME NEW R, Forget(R), pc'[r] = IF r \in R THEN "idle" ELSE pc[r] PROVE Reads(r)
  BY <1>1, <1>12 DEF Forget
<1>13. ASSUME NEW q \in Requests, Return(q) PROVE Reads(r)
  BY <1>1, <1>12, <1>13 DEF Return, TypeOK
<1>14. ASSUME NEW s \in Servers, Crash(s) PROVE Reads(r)
  BY <1>12, <1>14 DEF Crash
<1>15. ASSUME NEW s \in Servers,
              RevalidateTag(s) \/ TagInvalidated(s) \/ RevalidationFails(s) \/ ResetLocal(s)
       PROVE  Reads(r)
  BY <1>15 DEF RevalidateTag, TagInvalidated, RevalidationFails, ResetLocal, requestVars
<1>16. CASE Environment \/ ExpireLease \/ UNCHANGED vars
  BY <1>16 DEF Environment, ExpireLease, vars, requestVars
<1>17. QED
  BY <1>3, <1>4, <1>5, <1>6, <1>7, <1>8, <1>9, <1>10, <1>11, <1>13, <1>14, <1>15, <1>16
     DEF Next, Continue, AwaitHolder, RunFill, CallFails

(* No step makes a value of nothing.                                       *)
LEMMA SeenStep ==
  ASSUME CallInv, StoreInv, SeenInv, [Next]_vars
  PROVE  SeenInv'
<1>1. data <= data' /\ data \in Nat /\ data' \in Nat
  BY StoreGrows, StoreTypeStep DEF CallInv, TypeOK, StoreTypeOK
<1>2. stored \in StoredEntry \cup {None} /\ \A e \in StoredEntry : e.seen \in Nat
  BY DEF CallInv, TypeOK, StoreTypeOK, StoredEntry
<1>3. ASSUME stored' # None PROVE stored'.seen <= data'
  <2>1. CASE stored' = stored
    BY <1>1, <1>2, <1>3, <2>1 DEF SeenInv
  <2>2. ASSUME NEW r \in Requests, pc[r] = "writing",
               stored' = [tagVersion |-> fill[r].tagVersion, seen |-> fill[r].value]
        PROVE  stored'.seen <= data'
    <3>1. fill[r].value \in Nat
      BY <2>2 DEF CallInv
    <3>2. fill[r].value <= data
      BY <2>2, <3>1, StoreNoneAssumption DEF SeenInv
    <3>3. QED
      BY <1>1, <2>2, <3>1, <3>2
  <2>3. QED
    BY <1>3, <2>1, <2>2, StoreMoves
       DEF StoreStep, storeVars, WriteData, DropEntry, LeaseExpires, CallInvalidateTags,
           InvalidateTags, AbandonInvalidateTags, CallInv, TypeOK, StoreTypeOK
<1>4. ASSUME NEW r \in Requests, pc'[r] \in {"checking", "comparing"} PROVE found'[r].seen <= data'
  <2>1. CASE pc[r] \in {"checking", "comparing"} /\ found'[r] = found[r]
    BY <1>1, <1>2, <2>1 DEF SeenInv, CallInv
  <2>2. CASE stored # None /\ found'[r] = stored
    BY <1>1, <1>2, <2>2 DEF SeenInv
  <2>3. QED
    BY <1>4, <2>1, <2>2, AllRead DEF Reads
<1>5. ASSUME NEW r \in Requests, fill'[r].value # None PROVE fill'[r].value <= data'
  <2>1. fill[r].value \in Nat \cup {None}
    BY DEF CallInv, TypeOK, Fill
  <2>2. CASE fill'[r].value \in {fill[r].value, data}
    BY <1>1, <1>5, <2>1, <2>2 DEF SeenInv
  <2>3. CASE pc[r] = "comparing" /\ fill'[r].value = found[r].seen
    BY <1>1, <1>2, <2>3 DEF SeenInv, CallInv
  <2>4. QED
    BY <1>5, <2>2, <2>3, AllRead DEF Reads
<1>6. QED
  BY <1>3, <1>4, <1>5 DEF SeenInv

-----------------------------------------------------------------------------
(* The actions, mapped one by one.                                         *)

(* Nobody has called, and no revalidation runs.                            *)
LEMMA PromiseInit == Init => JoinInv /\ SeenInv /\ Promise!DataInit
BY DEF Init, StoreInit, JoinInv, SeenInv, InFill, Leasing, Filling, Ending, NoFill, NoCall,
       Promise!DataInit, StatusOf

(* What a caller does not see of a request.                                *)
Unseen(r) == pc'[r] = pc[r] \/ {pc[r], pc'[r]} \cap {"idle", "done"} = {}

(* Such a request is idle, open or closed as it was.                       *)
LEMMA UnseenStatus ==
  ASSUME NEW r \in Requests, Unseen(r)
  PROVE  StatusOf(r)' = StatusOf(r)
BY DEF Unseen, StatusOf

(* A step no caller sees.                                                  *)
LEMMA PromiseKept ==
  ASSUME UNCHANGED <<data, revalidating, acknowledged, call, result>>, \A r \in Requests : Unseen(r)
  PROVE  [Promise!DataNext]_(Promise!dataVars)
<1>1. UNCHANGED [r \in Requests |-> StatusOf(r)]
  BY UnseenStatus
<1>2. QED
  BY <1>1 DEF Promise!dataVars, Promise!revalidationVars, Promise!callVars

(* A step of the revalidations or of the data.                             *)
LEMMA RevalidationMaps ==
  ASSUME TypeOK, UNCHANGED requestVars,
         \/ WriteData
         \/ \E s \in Servers : CallInvalidateTags(s) \/ InvalidateTags(s) \/ AbandonInvalidateTags(s)
  PROVE  Promise!DataNext
<1>1. UNCHANGED Promise!callVars
  BY DEF requestVars, Promise!callVars, StatusOf
<1>2. CASE WriteData
  BY <1>1, <1>2 DEF WriteData, Promise!DataNext, Promise!Write
<1>3. ASSUME NEW s \in Servers, CallInvalidateTags(s) PROVE Promise!Revalidate(s)
  BY <1>1, <1>3 DEF CallInvalidateTags, Promise!Revalidate
<1>4. ASSUME NEW s \in Servers, InvalidateTags(s) PROVE Promise!Complete(s)
  BY <1>1, <1>4 DEF InvalidateTags, Starting, Larger, Promise!Complete, TypeOK, StoreTypeOK
<1>5. ASSUME NEW s \in Servers, AbandonInvalidateTags(s) PROVE Promise!Abandon(s)
  BY <1>1, <1>5 DEF AbandonInvalidateTags, Promise!Abandon
<1>6. QED
  BY <1>2, <1>3, <1>4, <1>5 DEF Promise!DataNext

(* Requests of one server that settle together, with an answer or without. *)
LEMMA AnswerMaps ==
  ASSUME NEW R \in SUBSET Requests, NEW a,
         UNCHANGED <<data, revalidating, acknowledged, call>>,
         \A p, q \in R : pc[p] \notin {"idle", "done"} /\ Home(p) = Home(q),
         \A q \in Requests : pc'[q] = IF q \in R THEN "done" ELSE pc[q],
         result' = [q \in Requests |-> IF q \in R THEN a ELSE result[q]],
         a = None \/ (a \in 0..data /\ \E r \in R : a >= call[r].floor)
  PROVE  Promise!DataNext
<1>1. Promise!Together(R)
  BY DEF Promise!Together, StatusOf, Home
<1>2. [r \in Requests |-> StatusOf(r)]' = [r \in Requests |-> IF r \in R THEN "closed" ELSE StatusOf(r)]
  BY DEF StatusOf
<1>3. Promise!Close(R, a)
  BY <1>1, <1>2 DEF Promise!Close, Promise!revalidationVars
<1>4. CASE a = None
  BY <1>3, <1>4 DEF Promise!DataNext, Promise!Fail
<1>5. CASE a \in 0..data /\ \E r \in R : a >= call[r].floor
  <2>1. Promise!Reply(R)
    BY <1>3, <1>5 DEF Promise!Reply
  <2>2. QED
    BY <2>1 DEF Promise!DataNext
<1>6. QED
  BY <1>4, <1>5

(* Requests whose caller goes on, or whose server dies.                    *)
LEMMA ForgetMaps ==
  ASSUME NEW R, Forget(R), \A q \in Requests : pc'[q] = IF q \in R THEN "idle" ELSE pc[q]
  PROVE  Promise!Forget(R)
<1>1. [r \in Requests |-> StatusOf(r)]' = [r \in Requests |-> IF r \in R THEN "idle" ELSE StatusOf(r)]
  BY DEF StatusOf
<1>2. /\ [r \in Requests |-> call[r].server]'
           = [r \in Requests |-> IF r \in R THEN None ELSE call[r].server]
      /\ [r \in Requests |-> call[r].floor]' = [r \in Requests |-> IF r \in R THEN 0 ELSE call[r].floor]
  BY DEF Forget, NoCall
<1>3. QED
  BY <1>1, <1>2 DEF Forget, Promise!Forget

(* Every step keeps the promise.                                           *)
LEMMA PromiseStep ==
  ASSUME CallInv, FreshInv, JoinInv, SeenInv, [Next]_vars
  PROVE  [Promise!DataNext]_(Promise!dataVars)
<1> USE DEF Goto
<1>1. /\ TypeOK /\ data \in Nat /\ acknowledged \in Nat
      /\ \A r \in Requests : RequestInv(r)
      /\ \A r \in Requests : pc[r] # "idle" => call[r].floor \in Nat
      /\ \A r \in Requests : pc[r] # "done" => result[r] = None
  BY DEF CallInv, TypeOK, StoreTypeOK, FreshInv, Call
<1>2. ASSUME NEW r \in Requests, NEW s \in Servers, GetOrSet(r, s) PROVE Promise!DataNext
  <2>1. StatusOf(r) = "idle" /\ StatusOf(r)' = "open" /\ \A q \in Requests : q # r => StatusOf(q)' = StatusOf(q)
    BY <1>1, <1>2 DEF GetOrSet, StatusOf, TypeOK
  <2>2. \A q \in Requests : call'[q] = IF q = r THEN [server |-> s, generation |-> generation[s],
                                                     floor |-> acknowledged, announced |-> announced[s]]
                                       ELSE call[q]
    BY <1>1, <1>2 DEF GetOrSet, TypeOK
  <2>3. /\ [q \in Requests |-> StatusOf(q)]' = [[q \in Requests |-> StatusOf(q)] EXCEPT ![r] = "open"]
        /\ [q \in Requests |-> call[q].server]' = [[q \in Requests |-> call[q].server] EXCEPT ![r] = s]
        /\ [q \in Requests |-> call[q].floor]' = [[q \in Requests |-> call[q].floor] EXCEPT ![r] = acknowledged]
    <3>1. [q \in Requests |-> StatusOf(q)]' = [[q \in Requests |-> StatusOf(q)] EXCEPT ![r] = "open"]
      BY <2>1
    <3>2. \A q \in Requests : /\ call'[q].server = IF q = r THEN s ELSE call[q].server
                              /\ call'[q].floor = IF q = r THEN acknowledged ELSE call[q].floor
      BY <2>2
    <3>3. QED
      BY <3>1, <3>2
  <2>4. UNCHANGED <<data, revalidating, acknowledged, result>>
    BY <1>2 DEF GetOrSet, storeVars
  <2>5. Promise!Ask(r, s)
    BY <2>1, <2>3, <2>4 DEF Promise!Ask, Promise!revalidationVars
  <2>6. QED
    BY <2>5 DEF Promise!DataNext
<1>3. ASSUME NEW r \in Requests, ReadEntry(r) \/ JoinInflight(r) \/ StartFill(r)
      PROVE  [Promise!DataNext]_(Promise!dataVars)
  BY <1>1, <1>3, PromiseKept DEF ReadEntry, JoinInflight, StartFill, storeVars, Unseen, TypeOK
<1>4. ASSUME NEW r \in Requests, pc[r] \notin {"idle", "done"}, Goto(r, "done"), NEW a,
             UNCHANGED <<storeVars, call>>, result' = [result EXCEPT ![r] = a],
             a = None \/ (a \in 0..data /\ a >= call[r].floor)
      PROVE  Promise!DataNext
  <2>1. {r} \in SUBSET Requests
    OBVIOUS
  <2>2. UNCHANGED <<data, revalidating, acknowledged, call>>
    BY <1>4 DEF storeVars
  <2>3. \A q \in Requests : pc'[q] = IF q \in {r} THEN "done" ELSE pc[q]
    BY <1>1, <1>4 DEF TypeOK
  <2>4. result' = [q \in Requests |-> IF q \in {r} THEN a ELSE result[q]]
    BY <1>1, <1>4 DEF TypeOK
  <2>5. a = None \/ (a \in 0..data /\ \E q \in {r} : a >= call[q].floor)
    BY <1>4
  <2>6. \A p, q \in {r} : pc[p] \notin {"idle", "done"} /\ Home(p) = Home(q)
    BY <1>4
  <2>7. QED
    BY <2>1, <2>2, <2>3, <2>4, <2>5, <2>6, AnswerMaps
<1>5. ASSUME NEW r \in Requests, CheckEntry(r) PROVE [Promise!DataNext]_(Promise!dataVars)
  <2>1. CASE InGeneration(r, call[r].generation) /\ ~IsAdapterEntryStale(found[r])
    <3>1. found[r].seen \in Nat /\ found[r].tagVersion \in Nat /\ tagVersion \in Nat
      BY <1>5 DEF CheckEntry, CallInv, StoredEntry, TypeOK, StoreTypeOK
    <3>2. found[r].seen >= acknowledged /\ call[r].floor <= acknowledged /\ found[r].seen <= data
      BY <1>1, <1>5, <2>1, <3>1 DEF CheckEntry, IsAdapterEntryStale, RequestInv, Covered, SeenInv
    <3>3. found[r].seen \in 0..data /\ found[r].seen >= call[r].floor
      BY <1>1, <1>5, <3>1, <3>2 DEF CheckEntry
    <3>4. QED
      BY <1>4, <1>5, <2>1, <3>3 DEF CheckEntry
  <2>2. CASE ~(InGeneration(r, call[r].generation) /\ ~IsAdapterEntryStale(found[r]))
    BY <1>1, <1>5, <2>2, PromiseKept DEF CheckEntry, storeVars, Unseen, TypeOK
  <2>3. QED
    BY <2>1, <2>2
<1>6. ASSUME NEW r \in Requests, LookupFails(r) PROVE Promise!DataNext
  <2>1. result' = [result EXCEPT ![r] = None]
    BY <1>1, <1>6 DEF LookupFails, TypeOK
  <2>2. QED
    BY <1>4, <1>6, <2>1 DEF LookupFails
<1>7. ASSUME NEW r \in Requests, AwaitHolder(r) \/ PollTimesOut(r) \/ LeaseFails(r)
      PROVE  [Promise!DataNext]_(Promise!dataVars)
  BY <1>1, <1>7, PromiseKept
     DEF AwaitHolder, AcquireLease, LeaseTaken, PollEntry, CompareEntry, StopPolling, RetryLease,
         Register, PollTimesOut, LeaseFails, storeVars, Unseen, TypeOK
<1>8. ASSUME NEW r \in Requests,
             CaptureTagVersions(r) \/ CallProducer(r) \/ ProducerReturns(r) \/ ReleaseLease(r)
               \/ ReleaseFails(r)
      PROVE  [Promise!DataNext]_(Promise!dataVars)
  BY <1>1, <1>8, PromiseKept
     DEF CaptureTagVersions, CallProducer, ProducerReturns, ReleaseLease, ReleaseFails,
         storeVars, Unseen, TypeOK
<1>9. ASSUME NEW r \in Requests, ProducerReturnsLate(r) \/ WriteEntry(r) \/ FillFails(r)
      PROVE  [Promise!DataNext]_(Promise!dataVars)
  BY <1>1, <1>9, PromiseKept
     DEF ProducerReturnsLate, WriteEntry, FillFails, CloseFill, storeVars, Unseen, TypeOK
<1>10. ASSUME NEW r \in Requests, Settle(r) PROVE Promise!DataNext
  <2> DEFINE heirs == {q \in Requests : pc[q] = "joined" /\ waits[q] = r} \cup {r}
  <2>1. /\ pc[r] = "settling" /\ UNCHANGED <<data, revalidating, acknowledged, call>>
        /\ \A q \in Requests : pc'[q] = IF q \in heirs THEN "done" ELSE pc[q]
        /\ result' = [q \in Requests |-> IF q \in heirs THEN fill[r].value ELSE result[q]]
    BY <1>10 DEF Settle, storeVars
  <2>2. heirs \in SUBSET Requests
    OBVIOUS
  <2>3. \A p \in heirs : pc[p] \notin {"idle", "done"} /\ Home(p) = Home(r)
    BY <2>1 DEF JoinInv
  <2>4. fill[r].value = None \/ (fill[r].value \in 0..data /\ \E q \in heirs : fill[r].value >= call[q].floor)
    <3>1. fill[r].value \in Nat \cup {None}
      BY <1>1 DEF TypeOK, Fill
    <3>2. fill[r].value # None => fill[r].value <= data /\ fill[r].value >= call[r].floor
      BY <1>1, <2>1 DEF SeenInv, RequestInv, Ending
    <3>3. QED
      BY <1>1, <3>1, <3>2
  <2> HIDE DEF heirs
  <2>5. QED
    BY <2>1, <2>2, <2>3, <2>4, AnswerMaps
<1>11. ASSUME NEW r \in Requests, Return(r) PROVE Promise!DataNext
  <2>1. Promise!Forget({r})
    BY <1>1, <1>11, ForgetMaps DEF Return, TypeOK
  <2>2. Promise!Return(r)
    BY <1>11, <2>1 DEF Return, StatusOf, storeVars, Promise!Return, Promise!revalidationVars
  <2>3. QED
    BY <2>2 DEF Promise!DataNext
<1>12. ASSUME NEW s \in Servers, Crash(s) PROVE Promise!DataNext
  <2> DEFINE lost == {r \in Requests : Home(r) = s}
  <2>1. /\ Forget(lost) /\ AbandonInvalidateTags(s)
        /\ \A q \in Requests : pc'[q] = IF q \in lost THEN "idle" ELSE pc[q]
    BY <1>12 DEF Crash
  <2>2. lost = {r \in Requests : [q \in Requests |-> call[q].server][r] = s}
    BY DEF Home
  <2> HIDE DEF lost
  <2>3. Promise!Forget(lost)
    BY <2>1, ForgetMaps DEF Forget, Promise!Forget
  <2>4. Promise!Die(s)
    BY <2>1, <2>2, <2>3 DEF AbandonInvalidateTags, Promise!Die, Promise!Forget
  <2>5. QED
    BY <2>4 DEF Promise!DataNext
<1>13. ASSUME NEW s \in Servers, RevalidateTag(s) \/ TagInvalidated(s) \/ RevalidationFails(s)
       PROVE  Promise!DataNext
  BY <1>1, <1>13, RevalidationMaps DEF RevalidateTag, TagInvalidated, RevalidationFails
<1>14. ASSUME NEW s \in Servers, ResetLocal(s) PROVE [Promise!DataNext]_(Promise!dataVars)
  BY <1>14, PromiseKept DEF ResetLocal, storeVars, requestVars, Unseen
<1>15. CASE Environment \/ ExpireLease \/ UNCHANGED vars
  <2>1. CASE WriteData /\ UNCHANGED requestVars
    BY <1>1, <2>1, RevalidationMaps
  <2>2. CASE DropEntry \/ LeaseExpires \/ UNCHANGED storeVars
    BY <1>15, <2>2, PromiseKept
       DEF Environment, ExpireLease, DropEntry, LeaseExpires, storeVars, requestVars, vars, Unseen, WriteData
  <2>3. QED
    BY <1>15, <2>1, <2>2 DEF Environment, ExpireLease, vars
<1>16. QED
  BY <1>2, <1>3, <1>5, <1>6, <1>7, <1>8, <1>9, <1>10, <1>11, <1>12, <1>13, <1>14, <1>15
     DEF Next, Continue, Lookup, RunFill, CallFails

(* Leases, marks, generations and captured tag versions on any number of   *)
(* servers, with any call of the adapter failing, amount to a cache that   *)
(* answers one call, or several of one server together, with data covering *)
(* the revalidations completed before at least one of those calls.         *)
THEOREM Implements == Spec => ImplementsRevalidatedData
<1>1. Init => JoinInv /\ SeenInv /\ Promise!DataInit
  BY PromiseInit
<1>2. SharedInv /\ JoinInv /\ SeenInv /\ [Next]_vars => JoinInv' /\ SeenInv'
  BY JoinStep, SeenStep DEF SharedInv, FreshInv
<1>3. SharedInv /\ JoinInv /\ SeenInv /\ [Next]_vars => [Promise!DataNext]_(Promise!dataVars)
  BY PromiseStep DEF SharedInv
<1>4. QED
  BY <1>1, <1>2, <1>3, Inductive, PTL DEF Spec, ImplementsRevalidatedData, Promise!DataSpec
=============================================================================
