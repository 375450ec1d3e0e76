------------------------- MODULE MemoryStore_proofs -------------------------
(***************************************************************************)
(* Theorems about MemoryStore, for any number of goroutines, ids and calls.*)
(***************************************************************************)
EXTENDS MemoryStore, TLAPS

LEMMA InitIInv == Init => IInv
<1> SUFFICES ASSUME Init PROVE IInv
  OBVIOUS
<1>1. TypeOK
  BY DEF Init, TypeOK
<1>2. ASSUME NEW h \in Handlers
      PROVE  CallFits(h) /\ (HoldsMutex(h) <=> mutex = h) /\ FindingStands(h)
  BY NobodyIsNoHandler DEF Init, CallFits, HoldsMutex, FindingStands
<1> QED
  BY <1>1, <1>2 DEF Init, IInv

(***************************************************************************)
(* A call that has begun names one id.                                     *)
(***************************************************************************)
LEMMA CallOf ==
  ASSUME IInv, NEW h \in Handlers, pc[h] \notin {"idle", "wipe"}
  PROVE  /\ req[h] \in Request
         /\ req[h].op \in {"create", "update", "delete"}
         /\ Id(h) \in Ids /\ req[h].ids = {Id(h)}
         /\ req[h].val \in Values
<1>1. req[h] \in Request /\ req[h].op # "deleteAll" /\ \E i \in Ids : req[h].ids = {i}
  BY DEF IInv, CallFits
<1>2. Id(h) \in Ids /\ req[h].ids = {Id(h)}
  BY <1>1 DEF Id
<1> QED
  BY <1>1, <1>2 DEF Request

-----------------------------------------------------------------------------
(***************************************************************************)
(* One lemma for each kind of step.                                        *)
(***************************************************************************)
LEMMA AcceptKeepsIInv ==
  ASSUME IInv, NEW h \in Handlers, NEW q \in Requests,
         Reject(h, q) \/ Begin(h, q)
  PROVE  IInv'
<1> USE DEF Arrives
<1>1. q \in Request /\ (q.op # "deleteAll" => \E i \in Ids : q.ids = {i})
  BY RequestsAreCalls
<1>2. CASE Reject(h, q)
  BY <1>2 DEF Reject, IInv, TypeOK, CallFits, HoldsMutex, FindingStands, Fits, Id
<1>3. CASE Begin(h, q)
  <2> USE <1>1, <1>3 DEF Begin
  <2>1. TypeOK'
    BY DEF IInv, TypeOK
  <2>2. ASSUME NEW g \in Handlers
        PROVE  CallFits(g)' /\ (HoldsMutex(g) <=> mutex = g)' /\ FindingStands(g)'
    <3>1. CASE g = h
      BY <3>1 DEF IInv, TypeOK, CallFits, HoldsMutex, FindingStands
    <3>2. CASE g # h
      BY <3>2 DEF IInv, TypeOK, CallFits, HoldsMutex, FindingStands, Fits, Id
    <3> QED
      BY <3>1, <3>2
  <2> QED
    BY <2>1, <2>2 DEF IInv
<1> QED
  BY <1>2, <1>3

LEMMA AdvanceKeepsIInv ==
  ASSUME IInv, NEW h \in Handlers, Advance(h)
  PROVE  IInv'
<1>1. CASE Lock(h)
  <2> USE <1>1 DEF Lock
  <2>1. TypeOK'
    BY DEF IInv, TypeOK
  <2>2. ASSUME NEW g \in Handlers
        PROVE  CallFits(g)' /\ (HoldsMutex(g) <=> mutex = g)' /\ FindingStands(g)'
    BY NobodyIsNoHandler
    DEF IInv, TypeOK, CallFits, HoldsMutex, FindingStands, Fits, Id
  <2> QED
    BY <2>1, <2>2 DEF IInv
<1>2. CASE Look(h)
  <2> USE <1>2 DEF Look, Decide
  <2>1. TypeOK'
    BY DEF IInv, TypeOK
  <2>2. ASSUME NEW g \in Handlers
        PROVE  CallFits(g)' /\ (HoldsMutex(g) <=> mutex = g)' /\ FindingStands(g)'
    BY DEF IInv, TypeOK, CallFits, HoldsMutex, FindingStands, Fits, Id
  <2> QED
    BY <2>1, <2>2 DEF IInv
<1>3. CASE Load(h)
  <2> USE <1>3 DEF Load
  <2>1. TypeOK'
    BY DEF IInv, TypeOK
  <2>2. ASSUME NEW g \in Handlers
        PROVE  CallFits(g)' /\ (HoldsMutex(g) <=> mutex = g)' /\ FindingStands(g)'
    BY DEF IInv, TypeOK, CallFits, HoldsMutex, FindingStands, Fits, Id
  <2> QED
    BY <2>1, <2>2 DEF IInv
<1>4. CASE Assign(h)
  <2> USE <1>4 DEF Assign, Decide
  <2>1. TypeOK'
    BY CallOf DEF IInv, TypeOK
  <2>2. ASSUME NEW g \in Handlers
        PROVE  CallFits(g)' /\ (HoldsMutex(g) <=> mutex = g)'
    BY DEF IInv, TypeOK, CallFits, HoldsMutex
  <2>3. ASSUME NEW g \in Handlers
        PROVE  FindingStands(g)'
    <3>1. mutex = h
      BY DEF IInv, HoldsMutex
    <3>2. CASE g = h
      BY <3>2 DEF IInv, TypeOK, FindingStands
    <3>3. CASE g # h
      BY <3>1, <3>3 DEF IInv, TypeOK, HoldsMutex, FindingStands
    <3> QED
      BY <3>2, <3>3
  <2> QED
    BY <2>1, <2>2, <2>3 DEF IInv
<1>5. CASE Unlock(h)
  <2> USE <1>5 DEF Unlock
  <2>1. TypeOK'
    BY DEF IInv, TypeOK
  <2>2. ASSUME NEW g \in Handlers
        PROVE  CallFits(g)' /\ (HoldsMutex(g) <=> mutex = g)' /\ FindingStands(g)'
    BY NobodyIsNoHandler
    DEF IInv, TypeOK, CallFits, HoldsMutex, FindingStands, Fits, Id
  <2> QED
    BY <2>1, <2>2 DEF IInv
<1>6. CASE DeleteAll(h)
  <2> USE <1>6 DEF DeleteAll
  <2>1. TypeOK'
    BY DEF IInv, TypeOK
  <2>2. ASSUME NEW g \in Handlers
        PROVE  CallFits(g)' /\ (HoldsMutex(g) <=> mutex = g)' /\ FindingStands(g)'
    BY DEF IInv, TypeOK, CallFits, HoldsMutex, FindingStands
  <2> QED
    BY <2>1, <2>2 DEF IInv, TypeOK
<1> QED
  BY <1>1, <1>2, <1>3, <1>4, <1>5, <1>6 DEF Advance

(***************************************************************************)
(* Methods exclude each other, DeleteAll apart, and until it is called     *)
(* what a method found when it looked still holds when it writes.          *)
(***************************************************************************)
THEOREM MethodsExcludeEachOther == Spec => []IInv
<1>1. Init => IInv
  BY InitIInv
<1>2. IInv /\ [Next]_vars => IInv'
  <2>1. ASSUME IInv, UNCHANGED vars
        PROVE  IInv'
    BY <2>1 DEF vars, IInv, TypeOK, CallFits, HoldsMutex, FindingStands, Fits, Id
  <2> QED
    BY <2>1, AcceptKeepsIInv, AdvanceKeepsIInv DEF Next, Accept
<1> QED
  BY <1>1, <1>2, PTL DEF Spec

-----------------------------------------------------------------------------
LEMMA OtherCallsStay ==
  ASSUME IInv, NEW h \in Handlers, NEW p, pc' = [pc EXCEPT ![h] = p],
         NEW q, req' = [req EXCEPT ![h] = q]
  PROVE  PendingCalls' = [PendingCalls EXCEPT ![h] =
           IF p \in {"idle", "unlock"} THEN NoRequest ELSE CallOn(q)]
BY DEF IInv, TypeOK, PendingCalls, Decided

LEMMA PendingCall ==
  ASSUME IInv, NEW h \in Handlers, ~Decided(h), pc[h] # "wipe"
  PROVE  /\ PendingCalls[h] = CallOn(req[h])
         /\ PendingCalls[h] # NoRequest
         /\ CallOn(req[h]).op = req[h].op
         /\ CallOn(req[h]).ids = {Id(h)}
         /\ CallOn(req[h]).val = req[h].val
<1>1. PendingCalls[h] = CallOn(req[h])
  BY DEF PendingCalls
<1>2. req[h].op # "none" /\ req[h].ids = {Id(h)}
  BY CallOf DEF Decided
<1>3. CallOn(req[h]).op = req[h].op /\ NoRequest.op = "none"
  BY DEF CallOn, NoRequest
<1>4. CallOn(req[h]) # NoRequest
  BY <1>2, <1>3
<1> QED
  BY <1>1, <1>2, <1>3, <1>4 DEF CallOn

LEMMA AcceptInvokes ==
  ASSUME IInv, NEW h \in Handlers, NEW q \in Requests,
         Reject(h, q) \/ Begin(h, q)
  PROVE  Promise!SNext
<1>1. pc[h] = "idle" /\ req[h] = NoRequest
  BY DEF Reject, Begin, Arrives, IInv, CallFits
<1>2. PendingCalls[h] = NoRequest
  BY <1>1 DEF PendingCalls, Decided
<1>3. CASE Reject(h, q)
  <2>1. PendingCalls' = PendingCalls
    BY <1>3 DEF Reject, PendingCalls, Decided
  <2>2. Promise!AnswerAtOnce(h)
    BY <1>2, <1>3, <2>1 DEF Reject, Promise!AnswerAtOnce
  <2> QED
    BY <2>2 DEF Promise!SNext
<1>4. CASE Begin(h, q)
  <2>1. PendingCalls' = [PendingCalls EXCEPT ![h] = CallOn(q)]
    <3>1. PICK p \in {"lock", "wipe"} : pc' = [pc EXCEPT ![h] = p]
      BY <1>4 DEF Begin
    <3>2. req' = [req EXCEPT ![h] = q]
      BY <1>4 DEF Begin
    <3> QED
      BY <3>1, <3>2, OtherCallsStay
  <2>2. CallOn(q) \in Promise!ACall
    BY RequestsAreCalls DEF CallOn, Request, Promise!ACall
  <2>3. Promise!Invoke(h)
    BY <1>2, <1>4, <2>1, <2>2 DEF Begin, Promise!Invoke
  <2> QED
    BY <2>3 DEF Promise!SNext
<1> QED
  BY <1>3, <1>4

(***************************************************************************)
(* A look that fails refuses the call, the assignment is its effect, and   *)
(* everything else is hidden.                                              *)
(***************************************************************************)
LEMMA AdvanceKeepsPromise ==
  ASSUME IInv, NEW h \in Handlers, Advance(h), ~wiped'
  PROVE  [Promise!SNext]_(Promise!storageVars)
<1> ~wiped /\ ~DeleteAll(h)
  BY DEF Advance, DeleteAll, Lock, Look, Load, Assign, Unlock, Decide, IInv, TypeOK
<1>1. CASE Lock(h) \/ Load(h) \/ Unlock(h) \/ (Look(h) /\ Fits(h))
  <2>1. \A g \in Handlers : Decided(g)' <=> Decided(g)
    BY <1>1 DEF Lock, Load, Unlock, Look, Decided, IInv, TypeOK
  <2>2. \A g \in Handlers : ~Decided(g) => req'[g] = req[g]
    BY <1>1 DEF Lock, Load, Unlock, Look, Decided, IInv, TypeOK
  <2>3. PendingCalls' = PendingCalls
    BY <2>1, <2>2 DEF PendingCalls
  <2>4. entities' = entities /\ reply' = reply
    BY <1>1 DEF Lock, Load, Unlock, Look
  <2> QED
    BY <2>3, <2>4 DEF Promise!storageVars
<1>2. ASSUME NEW a, Decide(h, a), pc[h] \in {"look", "assign"}
      PROVE  /\ PendingCalls[h] = CallOn(req[h]) /\ PendingCalls[h] # NoRequest
             /\ Promise!Answer(h, a)
  <2>1. PendingCalls' = [PendingCalls EXCEPT ![h] = NoRequest]
    <3>1. req' = [req EXCEPT ![h] = req[h]]
      BY <1>2 DEF Decide, IInv, TypeOK
    <3> QED
      BY <1>2, <3>1, OtherCallsStay DEF Decide
  <2> QED
    BY <1>2, <2>1, PendingCall DEF Decide, Decided, Promise!Answer
<1>3. CASE Look(h) /\ ~Fits(h)
  <2> DEFINE a == IF req[h].op = "create" THEN "conflict" ELSE "notfound"
             q == CallOn(req[h])
  <2>1. pc[h] = "look" /\ Decide(h, a) /\ entities' = entities
    BY <1>3 DEF Look
  <2>2. q.op = req[h].op /\ q.ids = {Id(h)} /\ Id(h) \in Ids
        /\ req[h].op \in {"create", "update", "delete"}
    BY <2>1, PendingCall, CallOf DEF Decided
  <2>3. Promise!Present(Id(h)) <=> req[h].op = "create"
    BY <1>3 DEF Fits, Promise!Present
  <2>4. Promise!Justified(q, a)
    BY <2>2, <2>3 DEF Promise!Justified
  <2>5. Promise!Refuse(h)
    BY <1>2, <2>1, <2>4 DEF Promise!Refuse
  <2> QED
    BY <2>5 DEF Promise!SNext
<1>4. CASE Assign(h)
  <2> DEFINE q == CallOn(req[h])
  <2>1. pc[h] = "assign" /\ Decide(h, "ok") /\ h \notin old /\ Fits(h)
    BY <1>4 DEF Assign, IInv, FindingStands
  <2>2. q.op = req[h].op /\ q.ids = {Id(h)} /\ q.val = req[h].val /\ Id(h) \in Ids
        /\ req[h].op \in {"create", "update", "delete"}
    BY <2>1, PendingCall, CallOf DEF Decided
  <2>3. Promise!Applies(q)
    BY <2>1, <2>2 DEF Fits, Promise!Applies, Promise!Present
  <2>4. entities' = Promise!Effect(q)
    BY <1>4, <2>1, <2>2 DEF Assign, Promise!Effect, IInv, TypeOK
  <2>5. Promise!TakeEffect(h)
    BY <1>2, <2>1, <2>3, <2>4 DEF Promise!TakeEffect
  <2> QED
    BY <2>5 DEF Promise!SNext
<1> QED
  BY <1>1, <1>3, <1>4 DEF Advance

(***************************************************************************)
(* Until DeleteAll is called, the in-memory backend implements the         *)
(* interface Storage: the methods are atomic, and refuse with a reason.    *)
(***************************************************************************)
THEOREM MemoryStoreKeepsPromise == Spec => KeepsPromiseUntilWiped
<1>1. Init => Promise!SInit
  BY DEF Init, Promise!SInit, PendingCalls, Decided
<1>2. IInv /\ [Next]_vars =>
        [~wiped' => [Promise!SNext]_(Promise!storageVars)]_vars
  <2>1. SUFFICES ASSUME IInv, Next, ~wiped'
                 PROVE  [Promise!SNext]_(Promise!storageVars)
    OBVIOUS
  <2>2. PICK h \in Handlers : Accept(h) \/ Advance(h)
    BY <2>1 DEF Next
  <2>3. CASE Accept(h)
    BY <2>1, <2>3, AcceptInvokes DEF Accept
  <2>4. CASE Advance(h)
    BY <2>1, <2>4, AdvanceKeepsPromise
  <2> QED
    BY <2>2, <2>3, <2>4
<1> QED
  BY <1>1, <1>2, MethodsExcludeEachOther, PTL DEF Spec, KeepsPromiseUntilWiped
=============================================================================
