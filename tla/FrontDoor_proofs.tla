---------------------------- MODULE FrontDoor_proofs ----------------------------
(* Proofs about the front door, for any number of environments and requests. IInv  *)
(* adds to the stated invariants that an environment's cached secret is no older   *)
(* than the environment and that an environment at work is within its timeout.     *)
EXTENDS FrontDoor, TLAPS

\* The cache is filled only after the environment started, and secrets only get newer.
CacheIsYoung ==
    \A e \in Envs : /\ cached[e] # 0 => oldest[e] <= cached[e]
                    /\ oldest[e] <= stored[DoorOf[e]]

\* An invocation passed the check after it was received and within the window.
WithinTimeout ==
    \A e \in Envs :
        pc[e] # "idle" =>
            /\ started[e] <= clock /\ clock <= started[e] + Timeout[DoorOf[e]]
            /\ pc[e] = "invoke" => /\ DoorOf[e] = "webhook"
                                   /\ call[e].stamp - Skew <= clock
                                   /\ started[e] <= call[e].stamp + Skew

IInv ==
    /\ FrontDoorTypeOK /\ CacheIsYoung /\ WithinTimeout
    /\ RetiredSecretRefused

LEMMA InitIInv == Init => IInv
<1> SUFFICES ASSUME Init PROVE IInv
    OBVIOUS
<1> USE FrontDoorAssumption DEF Init, IInv, CacheIsYoung, WithinTimeout, RetiredSecretRefused
<1>1. (CHOOSE r \in Requests : TRUE) \in Requests
    BY Zenon
<1>2. FrontDoorTypeOK
    BY <1>1 DEF FrontDoorTypeOK
<1> QED
    BY <1>2

LEMMA NextIInv == IInv /\ [Next]_vars => IInv'
<1> SUFFICES ASSUME IInv, [Next]_vars PROVE IInv'
    OBVIOUS
<1> USE FrontDoorAssumption DEF IInv, FrontDoorTypeOK, CacheIsYoung, WithinTimeout,
        RetiredSecretRefused, Goto
<1>1. CASE UNCHANGED vars
    BY <1>1 DEF vars
<1>2. CASE Tick
    <2>1. ASSUME NEW e \in Envs, pc[e] # "idle" PROVE clock + 1 <= started[e] + Timeout[DoorOf[e]]
        BY <1>2, <2>1 DEF Tick, Expired
    <2>2. \A e \in Envs : call[e].stamp \in Int
        BY DEF Request
    <2> QED
        BY <1>2, <2>1, <2>2 DEF Tick
<1>3. ASSUME NEW d \in Door, Rotate(d) PROVE IInv'
    <2>1. PICK s \in 1 .. MaxSecret : s > stored[d] /\ stored' = [stored EXCEPT ![d] = s]
        BY <1>3 DEF Rotate
    <2> QED
        BY <1>3, <2>1 DEF Rotate
<1>4. ASSUME NEW e \in Envs, NEW r \in Requests, Post(e, r) PROVE IInv'
    BY <1>4 DEF Post
<1>5. ASSUME NEW e \in Envs, Check(e) PROVE IInv'
    <2> DEFINE s == getSigningSecret(e)
               ok == Verify(DoorOf[e], call[e], s, clock)
               a == [request |-> call[e], oldest |-> oldest[e]]
               invokes == ok /\ DoorOf[e] = "webhook" /\ call[e].body = "complete"
    <2>1. /\ pc[e] = "secret" /\ cached' = [cached EXCEPT ![e] = s]
          /\ accepted' = IF ok THEN accepted \cup {a} ELSE accepted
          /\ pc' = [pc EXCEPT ![e] = IF invokes THEN "invoke" ELSE "idle"]
          /\ open' = [open EXCEPT ![e] = invokes /\ open[e]]
          /\ UNCHANGED <<clock, calls, stored, oldest, call, started, returned, answered>>
        BY <1>5 DEF Check
    <2>2. s \in 1 .. MaxSecret /\ oldest[e] <= s
        BY DEF getSigningSecret
    <2>3. call[e] \in Requests /\ call[e].stamp \in Int
        BY <2>1 DEF Request
    <2>4. ok => /\ call[e].secret = s
                /\ call[e].stamp - Skew <= clock /\ clock <= call[e].stamp + Skew
        BY <2>3 DEF Verify, Fresh
    <2>5. /\ a \in [request : Requests, oldest : 1 .. MaxSecret]
          /\ a.request = call[e] /\ a.oldest = oldest[e]
        BY <2>3
    <2> HIDE DEF s, ok, a
    <2>6. FrontDoorTypeOK'
        <3>1. cached' \in [Envs -> 0 .. MaxSecret]
            BY <2>1, <2>2
        <3>2. accepted' \subseteq [request : Requests, oldest : 1 .. MaxSecret]
            BY <2>1, <2>5
        <3>3. /\ pc' \in [Envs -> {"idle", "secret", "invoke"}] /\ open' \in [Envs -> BOOLEAN]
              /\ \A f \in Envs : open'[f] => pc'[f] # "idle"
            <4>1. (invokes /\ open[e]) \in BOOLEAN
                OBVIOUS
            <4> HIDE DEF invokes
            <4> QED
                BY <2>1, <4>1
        <3> QED
            BY <2>1, <3>1, <3>2, <3>3
    <2>7. CacheIsYoung'
        BY <2>1, <2>2
    <2>8. WithinTimeout'
        <3>1. /\ started[e] \in Nat /\ clock \in Nat /\ started[e] <= clock
              /\ clock <= started[e] + Timeout[DoorOf[e]]
            BY <2>1
        <3>2. invokes => /\ DoorOf[e] = "webhook" /\ call[e].stamp - Skew <= clock
                         /\ started[e] <= call[e].stamp + Skew
            BY <2>3, <2>4, <3>1
        <3> HIDE DEF invokes
        <3> QED
            BY <2>1, <3>1, <3>2
    <2>9. RetiredSecretRefused'
        BY <2>1, <2>2, <2>3, <2>4, <2>5
    <2> QED
        BY <2>6, <2>7, <2>8, <2>9
<1>6. ASSUME NEW e \in Envs, Fail(e) PROVE IInv'
    BY <1>6 DEF Fail
<1>7. ASSUME NEW e \in Envs, Reply(e) PROVE IInv'
    BY <1>7 DEF Reply
<1>8. ASSUME NEW e \in Envs, GiveUp(e) PROVE IInv'
    BY <1>8 DEF GiveUp
<1>9. ASSUME NEW e \in Envs, Recycle(e) PROVE IInv'
    BY <1>9 DEF Recycle
<1> QED
    BY <1>1, <1>2, <1>3, <1>4, <1>5, <1>6, <1>7, <1>8, <1>9 DEF Next

LEMMA IInvHolds == Spec => []IInv
    BY InitIInv, NextIInv, PTL DEF Spec

\* The variables of the front door keep their types, and a caller gets a 200 only with
\* a reply of the runtime (webhook index.ts:49-114).
THEOREM FrontDoorTyped == Spec => []FrontDoorTypeOK
<1>1. IInv => FrontDoorTypeOK
    BY DEF IInv
<1> QED
    BY <1>1, IInvHolds, PTL

\* A secret that was replaced before an environment started is not accepted by it
\* (webhook index.ts:14-22, verification index.ts:15-23).
THEOREM RetiredRefused == Spec => []RetiredSecretRefused
<1>1. IInv => RetiredSecretRefused
    BY DEF IInv
<1> QED
    BY <1>1, IInvHolds, PTL

\* Every invocation is in progress only near its request's stamp (signature.ts:41).
THEOREM TurnsNearStamp == Spec => []TurnsNearTheirStamp
<1>1. IInv => TurnsNearTheirStamp
    <2> SUFFICES ASSUME IInv, NEW e \in Envs, pc[e] = "invoke"
                 PROVE  call[e].stamp - Skew <= clock /\ clock <= call[e].stamp + Skew + Timeout["webhook"]
        BY DEF TurnsNearTheirStamp
    <2>1. /\ clock \in Nat /\ started[e] \in Nat /\ call[e].stamp \in Int /\ Timeout["webhook"] \in Nat
          /\ Skew \in Nat
        BY FrontDoorAssumption DEF IInv, FrontDoorTypeOK, Request, Door
    <2>2. /\ clock <= started[e] + Timeout["webhook"]
          /\ call[e].stamp - Skew <= clock /\ started[e] <= call[e].stamp + Skew
        BY DEF IInv, WithinTimeout
    <2> QED
        BY <2>1, <2>2
<1> QED
    BY <1>1, IInvHolds, PTL
=============================================================================
