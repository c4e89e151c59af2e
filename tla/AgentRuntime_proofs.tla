-------------------------- MODULE AgentRuntime_proofs --------------------------
(* Proofs about the agent runtime. OwnContext says that a worker inside a turn    *)
(* has that turn's context, which is what the guard and added_by rest on; when    *)
(* the adapters keep the turns of a thread apart, Transcript says that every      *)
(* version of an item that some copy holds is older than the turn at work, and    *)
(* that what a worker has loaded from copies that agreed is still the thread's.   *)
EXTENDS AgentRuntime, SequenceTheorems, TLAPS

Busy(w) == pc[w] # "idle"

\* A worker inside a turn has that turn's context.
OwnContext ==
    \A w \in Workers :
        Busy(w) => turn[w] \in 1 .. turns /\ context[w] = ContextOf(w, request[turn[w]])

IInv == RuntimeTypeOK /\ OwnContext /\ DestructionIsConfirmed /\ AddedByOwnPrincipal

LEMMA InitIInv == Init => IInv
<1> SUFFICES ASSUME Init PROVE IInv
    OBVIOUS
<1> USE RuntimeAssumption DEF Init, IInv, RuntimeTypeOK, OwnContext, Busy, Request, Context, Defaults,
        DestructionIsConfirmed, AddedByOwnPrincipal
<1>1. RuntimeTypeOK
    OBVIOUS
<1>2. OwnContext /\ DestructionIsConfirmed /\ AddedByOwnPrincipal
    OBVIOUS
<1> QED
    BY <1>1, <1>2

LEMMA ContextTyped == ASSUME NEW w, NEW r \in Requests PROVE ContextOf(w, r) \in Context
    BY RuntimeAssumption DEF ContextOf, PrincipalOf, Context, Request

LEMMA NextIInv == IInv /\ [Next]_vars => IInv'
<1> SUFFICES ASSUME IInv, [Next]_vars PROVE IInv'
    OBVIOUS
<1> USE RuntimeAssumption DEF IInv, RuntimeTypeOK, OwnContext, Busy, DestructionIsConfirmed,
        AddedByOwnPrincipal, Slot, Goto
<1>1. CASE UNCHANGED vars
    BY <1>1 DEF vars, localVars, tableVars, Request, Context, ContextOf, PrincipalOf
<1>2. CASE Die
    <2>1. Defaults \in Context
        BY DEF Defaults, Context
    <2>2. /\ pc' = [w \in Workers |-> "idle"] /\ turn' = [w \in Workers |-> 0]
          /\ context' = [w \in Workers |-> Defaults] /\ prior' = [w \in Workers |-> <<>>]
          /\ settled' = [w \in Workers |-> FALSE]
          /\ UNCHANGED <<turns, request, history, readable, destroyed, added>>
        BY <1>2 DEF Die, tableVars
    <2>3. RuntimeTypeOK'
        BY <2>1, <2>2
    <2> QED
        BY <2>2, <2>3
<1>3. ASSUME NEW t \in Threads, Expire(t) \/ Propagate(t) PROVE IInv'
    <2>1. UNCHANGED <<turns, request, pc, turn, context, prior, settled, destroyed, added>>
        BY <1>3 DEF Expire, Propagate, localVars
    <2>2. /\ history' \in [Threads -> Seq(1 .. MaxTurns)]
          /\ readable' \in [Threads -> SUBSET Seq(1 .. MaxTurns)]
          /\ \A u \in Threads : history'[u] \in readable'[u]
        <3>1. CASE Expire(t)
            <4>1. <<>> \in Seq(1 .. MaxTurns)
                OBVIOUS
            <4>2. /\ history' = [history EXCEPT ![t] = <<>>]
                  /\ readable' = [readable EXCEPT ![t] = readable[t] \cup {<<>>}]
                BY <3>1 DEF Expire, Write
            <4> QED
                BY <4>1, <4>2
        <3>2. CASE Propagate(t)
            <4>1. PICK item \in readable[t] \ {history[t]} :
                      readable' = [readable EXCEPT ![t] = readable[t] \ {item}]
                BY <3>2 DEF Propagate
            <4>2. history' = history
                BY <3>2 DEF Propagate
            <4> QED
                BY <4>1, <4>2
        <3> QED
            BY <1>3, <3>1, <3>2
    <2> QED
        BY <2>1, <2>2 DEF ContextOf, PrincipalOf
<1>4. ASSUME NEW w \in Workers, Begin(w) PROVE IInv'
    <2> DEFINE r == request[turns + 1]
    <2>1. turns + 1 \in 1 .. MaxTurns /\ r \in Requests
        BY <1>4 DEF Begin
    <2>2. ContextOf(w, r) \in Context
        BY <2>1, ContextTyped
    <2>3. /\ context' = [context EXCEPT ![w] = ContextOf(w, r)]
          /\ turns' = turns + 1 /\ turn' = [turn EXCEPT ![w] = turns + 1]
          /\ pc' = [pc EXCEPT ![w] = "load"]
          /\ UNCHANGED <<request, prior, settled, history, readable, destroyed, added>>
        BY <1>4 DEF Begin, localVars, tableVars
    <2>4. RuntimeTypeOK'
        BY <2>1, <2>2, <2>3
    <2>5. OwnContext'
        BY <2>1, <2>2, <2>3 DEF ContextOf, PrincipalOf
    <2> QED
        BY <2>3, <2>4, <2>5
<1>5. ASSUME NEW w \in Workers, Load(w) PROVE IInv'
    <2>1. Thread(w) \in Threads
        BY <1>5 DEF Load, Thread, Request
    <2>2. /\ prior' \in [Workers -> Seq(1 .. MaxTurns)] /\ settled' \in [Workers -> BOOLEAN]
          /\ pc' = [pc EXCEPT ![w] = "agent"]
          /\ UNCHANGED <<turns, request, turn, context, history, readable, destroyed, added>>
        BY <1>5, <2>1 DEF Load, tableVars
    <2> QED
        BY <1>5, <2>2 DEF Load, ContextOf, PrincipalOf
<1>6. ASSUME NEW w \in Workers, CallDestructive(w) PROVE IInv'
    <2>1. PICK c \in Seen(w) :
              destroyed' = IF c.confirmed THEN destroyed \cup {turn[w]} ELSE destroyed
        BY <1>6 DEF CallDestructive
    <2>2. c.confirmed => request[turn[w]].confirmed
        BY <1>6, <2>1 DEF CallDestructive, Seen, Defaults, ContextOf
    <2>3. /\ turn[w] \in 1 .. MaxTurns
          /\ UNCHANGED <<turns, request, pc, turn, context, prior, settled, history, readable, added>>
        BY <1>6 DEF CallDestructive, localVars, tableVars
    <2>4. RuntimeTypeOK'
        BY <2>1, <2>3
    <2>5. DestructionIsConfirmed'
        BY <2>1, <2>2, <2>3
    <2> QED
        BY <2>3, <2>4, <2>5 DEF ContextOf, PrincipalOf
<1>7. ASSUME NEW w \in Workers, CallAdminTool(w) PROVE IInv'
    <2>1. PICK c \in Seen(w) : added' = added \cup {[by |-> c.principal, turn |-> turn[w]]}
        BY <1>7 DEF CallAdminTool
    <2>2. c.principal \in {request[turn[w]].principal, Unknown}
        BY <1>7, <2>1 DEF CallAdminTool, Seen, Defaults, ContextOf, PrincipalOf
    <2>3. c.principal \in Principals \cup {Unknown}
        BY <1>7, <2>1 DEF CallAdminTool, Seen, Defaults, Context
    <2>4. /\ turn[w] \in 1 .. MaxTurns /\ request[turn[w]].admin
          /\ UNCHANGED <<turns, request, pc, turn, context, prior, settled, history, readable, destroyed>>
        BY <1>7 DEF CallAdminTool, localVars, tableVars
    <2> DEFINE e == [by |-> c.principal, turn |-> turn[w]]
    <2>5. e \in [by : Principals \cup {Unknown}, turn : 1 .. MaxTurns] /\ e.by = c.principal /\ e.turn = turn[w]
        BY <2>3, <2>4
    <2>6. added' = added \cup {e}
        BY <2>1
    <2> HIDE DEF e
    <2>7. RuntimeTypeOK'
        BY <2>4, <2>5, <2>6
    <2>8. AddedByOwnPrincipal'
        BY <2>2, <2>4, <2>5, <2>6
    <2> QED
        BY <2>4, <2>7, <2>8 DEF ContextOf, PrincipalOf
<1>8. ASSUME NEW w \in Workers, Reply(w) \/ Raise(w) PROVE IInv'
    <2>1. /\ pc' \in [Workers -> {"idle", "load", "agent", "save"}]
          /\ turn' \in [Workers -> 0 .. MaxTurns]
          /\ prior' \in [Workers -> Seq(1 .. MaxTurns)] /\ settled' \in [Workers -> BOOLEAN]
          /\ \A v \in Workers : Busy(v)' => Busy(v) /\ turn'[v] = turn[v]
          /\ UNCHANGED <<turns, request, context, history, readable, destroyed, added>>
        <3>1. CASE Reply(w)
            BY <3>1 DEF Reply, localVars, tableVars
        <3>2. CASE Raise(w)
            <4>1. <<>> \in Seq(1 .. MaxTurns)
                OBVIOUS
            <4> QED
                BY <3>2, <4>1 DEF Raise, Finish, tableVars
        <3> QED
            BY <1>8, <3>1, <3>2
    <2>2. RuntimeTypeOK'
        BY <2>1
    <2> QED
        BY <2>1, <2>2 DEF ContextOf, PrincipalOf
<1>9. ASSUME NEW w \in Workers, Save(w) PROVE IInv'
    <2>1. Thread(w) \in Threads /\ Persisted(w) \in Seq(1 .. MaxTurns)
        BY <1>9 DEF Save, Thread, Request, Persisted
    <2>2. /\ history' \in [Threads -> Seq(1 .. MaxTurns)]
          /\ readable' \in [Threads -> SUBSET Seq(1 .. MaxTurns)]
          /\ \A u \in Threads : history'[u] \in readable'[u]
        BY <1>9, <2>1 DEF Save, Write
    <2> QED
        BY <1>9, <2>2 DEF Save, Finish, ContextOf, PrincipalOf
<1> QED
    BY <1>1, <1>2, <1>3, <1>4, <1>5, <1>6, <1>7, <1>8, <1>9 DEF Next

LEMMA IInvHolds == Spec => []IInv
    BY InitIInv, NextIInv, PTL DEF Spec

\* The variables of the runtime keep their types (main.py:147-212).
THEOREM RuntimeTyped == Spec => []RuntimeTypeOK
<1>1. IInv => RuntimeTypeOK
    BY DEF IInv
<1> QED
    BY <1>1, IInvHolds, PTL

\* The guard lets a destructive tool run only in a turn whose own request carries the
\* confirmation (destructive_guard.py:65), for any number of workers, wherever tools run.
THEOREM DestructionConfirmed == Spec => []DestructionIsConfirmed
<1>1. IInv => DestructionIsConfirmed
    BY DEF IInv
<1> QED
    BY <1>1, IInvHolds, PTL

\* An allowlist entry is never recorded in another caller's name (admin_tools.py:112).
THEOREM AddedInOwnName == Spec => []AddedByOwnPrincipal
<1>1. IInv => AddedByOwnPrincipal
    BY DEF IInv
<1> QED
    BY <1>1, IInvHolds, PTL
-----------------------------------------------------------------------------
(* Turns of a thread that never overlap *)

\* No two workers are inside turns of one thread.
Apart == \A v, w \in Workers : v # w /\ Busy(v) /\ Busy(w) => Thread(v) # Thread(w)

\* turnsOf is a transcript of t whose turns are all older than n.
Older(turnsOf, t, n) == InOrder(turnsOf, t) /\ \A i \in DOMAIN turnsOf : turnsOf[i] < n

Transcript ==
    /\ \A t \in Threads : \A item \in readable[t] : Older(item, t, turns + 1)
    /\ \A w \in Workers :
          Busy(w) => \A item \in readable[Thread(w)] : Older(item, Thread(w), turn[w])
    /\ \A w \in Workers :
          pc[w] \in {"agent", "save"} =>
              /\ Older(prior[w], Thread(w), turn[w])
              /\ settled[w] => history[Thread(w)] \in {prior[w], <<>>}

SInv == IInv /\ Apart /\ Transcript

LEMMA OlderStable == ASSUME UNCHANGED request PROVE \A s, t, n : Older(s, t, n) => Older(s, t, n)'
    BY DEF Older, InOrder

LEMMA EmptyOlder == ASSUME NEW t, NEW n PROVE Older(<<>>, t, n)
    BY DEF Older, InOrder

\* A turn is appended behind the older ones.
LEMMA AppendOlder ==
    ASSUME NEW s \in Seq(1 .. MaxTurns), NEW n \in 1 .. MaxTurns, NEW t, NEW k \in Nat, n < k,
           Older(s, t, n), request[n].thread = t
    PROVE  Older(Append(s, n), t, k)
<1> DEFINE a == Append(s, n)
<1>a. DOMAIN a = 1 .. Len(s) + 1 /\ DOMAIN s = 1 .. Len(s) /\ Len(s) \in Nat
    OBVIOUS
<1>b. a[Len(s) + 1] = n /\ \A i \in 1 .. Len(s) : a[i] = s[i]
    OBVIOUS
<1>c. \A i \in 1 .. Len(s) : s[i] \in 1 .. MaxTurns
    BY ElementOfSeq
<1>1. /\ DOMAIN a = 1 .. Len(s) + 1 /\ DOMAIN s = 1 .. Len(s) /\ Len(s) \in Nat
      /\ a[Len(s) + 1] = n /\ \A i \in 1 .. Len(s) : a[i] = s[i] /\ s[i] \in 1 .. MaxTurns
    BY <1>a, <1>b, <1>c
<1>2. InOrder(a, t)
    <2> SUFFICES ASSUME NEW i \in 1 .. Len(s) + 1
                 PROVE  request[a[i]].thread = t /\ \A j \in 1 .. i - 1 : a[j] < a[i]
        BY <1>1 DEF InOrder
    <2>1. CASE i = Len(s) + 1
        BY <1>1, <2>1 DEF Older
    <2>2. CASE i \in 1 .. Len(s)
        BY <1>1, <2>2 DEF Older, InOrder
    <2> QED
        BY <1>1, <2>1, <2>2
<1>3. \A i \in DOMAIN a : a[i] < k
    <2>1. n \in Nat /\ \A i \in 1 .. Len(s) : s[i] \in Nat /\ s[i] < n
        BY <1>1, RuntimeAssumption DEF Older
    <2> QED
        BY <1>1, <2>1
<1> QED
    BY <1>2, <1>3 DEF Older

\* A step that leaves the transcripts alone and begins or loads nothing.
LEMMA QuietStep ==
    ASSUME IInv, Apart, Transcript, UNCHANGED <<turns, request, history>>,
           \A t \in Threads : readable'[t] \subseteq readable[t],
           \A w \in Workers :
              \/ pc'[w] = "idle"
              \/ /\ pc'[w] = pc[w] \/ pc[w] = "agent"
                 /\ turn'[w] = turn[w] /\ prior'[w] = prior[w] /\ settled'[w] = settled[w]
    PROVE  Apart' /\ Transcript'
<1>1. Apart'
    BY DEF Apart, Busy, Thread
<1>2. (\A t \in Threads : \A item \in readable[t] : Older(item, t, turns + 1))'
    BY OlderStable DEF Transcript
<1>3. \A w \in Workers : Busy(w)' => /\ Busy(w) /\ Thread(w)' = Thread(w) /\ Thread(w) \in Threads
                                     /\ turn'[w] = turn[w] /\ prior'[w] = prior[w] /\ settled'[w] = settled[w]
    BY RuntimeAssumption DEF Busy, Thread, IInv, RuntimeTypeOK, OwnContext, Request
<1>4. (\A w \in Workers :
          Busy(w) => \A item \in readable[Thread(w)] : Older(item, Thread(w), turn[w]))'
    <2> SUFFICES ASSUME NEW w \in Workers, Busy(w)', NEW item \in readable'[Thread(w)']
                 PROVE  Older(item, Thread(w), turn[w])'
        OBVIOUS
    <2>1. Older(item, Thread(w), turn[w])
        BY <1>3 DEF Transcript
    <2> HIDE DEF Thread
    <2> QED
        BY <1>3, <2>1, OlderStable
<1>5. (\A w \in Workers : pc[w] \in {"agent", "save"} =>
          /\ Older(prior[w], Thread(w), turn[w])
          /\ settled[w] => history[Thread(w)] \in {prior[w], <<>>})'
    <2> SUFFICES ASSUME NEW w \in Workers, pc'[w] \in {"agent", "save"}
                 PROVE  /\ Older(prior[w], Thread(w), turn[w])'
                        /\ settled'[w] => history'[Thread(w)'] \in {prior'[w], <<>>}
        OBVIOUS
    <2>1. Busy(w)' /\ pc[w] \in {"agent", "save"}
        BY DEF Busy
    <2>2. /\ Older(prior[w], Thread(w), turn[w])
          /\ settled[w] => history[Thread(w)] \in {prior[w], <<>>}
        BY <2>1 DEF Transcript
    <2> HIDE DEF Thread
    <2> QED
        BY <1>3, <2>1, <2>2, OlderStable
<1> QED
    BY <1>1, <1>2, <1>4, <1>5 DEF Transcript

LEMMA InitSInv == Init => SInv
    BY InitIInv, EmptyOlder DEF Init, SInv, Apart, Transcript, Busy

LEMMA NextSInv == ASSUME Serial PROVE SInv /\ [Next]_vars => SInv'
<1> SUFFICES ASSUME SInv, [Next]_vars PROVE Apart' /\ Transcript'
    BY NextIInv DEF SInv
<1> USE RuntimeAssumption DEF SInv, IInv, RuntimeTypeOK, OwnContext, Busy, Apart, Thread, Goto, Request
<1>1. CASE UNCHANGED vars
    BY <1>1, QuietStep DEF vars, localVars, tableVars
<1>2. CASE Die
    BY <1>2, QuietStep DEF Die, tableVars
<1>3. ASSUME NEW t \in Threads, Expire(t) PROVE Apart' /\ Transcript'
    <2>1. /\ history' = [history EXCEPT ![t] = <<>>]
          /\ readable' = [readable EXCEPT ![t] = @ \cup {<<>>}]
          /\ UNCHANGED <<turns, request, pc, turn, prior, settled>>
        BY <1>3 DEF Expire, Write, localVars
    <2>2. Apart'
        BY <2>1
    <2>3. \A u, n : Older(<<>>, u, n)'
        BY DEF Older, InOrder
    <2>4. \A s, u, n : Older(s, u, n) => Older(s, u, n)'
        BY <2>1, OlderStable
    <2> QED
        BY <2>1, <2>2, <2>3, <2>4 DEF Transcript
<1>9. ASSUME NEW t \in Threads, Propagate(t) PROVE Apart' /\ Transcript'
    <2>1. /\ UNCHANGED <<turns, request, pc, turn, prior, settled, history>>
          /\ \A u \in Threads : readable'[u] \subseteq readable[u]
        BY <1>9 DEF Propagate, localVars
    <2> QED
        BY <2>1, QuietStep
<1>4. ASSUME NEW w \in Workers, Begin(w) PROVE Apart' /\ Transcript'
    <2> DEFINE t == request[turns + 1].thread
    <2>1. /\ turns \in Nat /\ turns' = turns + 1 /\ turn' = [turn EXCEPT ![w] = turns + 1]
          /\ pc' = [pc EXCEPT ![w] = "load"]
          /\ UNCHANGED <<request, prior, settled, history, readable>>
          /\ ~Busy(w) /\ \A v \in Workers : Busy(v) => Thread(v) # t
          /\ t \in Threads
        BY <1>4 DEF Begin, localVars, tableVars
    <2>2. Apart'
        BY <2>1
    <2>3. \A s, u, n : Older(s, u, n) => Older(s, u, n)'
        BY <2>1, OlderStable
    <2>4. \A u \in Threads : \A item \in readable[u] : Older(item, u, turns + 2)
        <3> SUFFICES ASSUME NEW u \in Threads, NEW item \in readable[u] PROVE Older(item, u, turns + 2)
            OBVIOUS
        <3>1. Older(item, u, turns + 1) /\ item \in Seq(1 .. MaxTurns)
            BY DEF Transcript
        <3>2. \A i \in DOMAIN item : item[i] \in Nat
            BY <3>1
        <3> QED
            BY <2>1, <3>1, <3>2 DEF Older
    <2>5. (\A v \in Workers :
              Busy(v) => \A item \in readable[Thread(v)] : Older(item, Thread(v), turn[v]))'
        <3>1. \A item \in readable[t] : Older(item, t, turns + 1)
            BY <2>1 DEF Transcript
        <3>2. ASSUME NEW v \in Workers, v # w, Busy(v)
              PROVE  \A item \in readable[Thread(v)] : Older(item, Thread(v), turn[v])
            BY <3>2 DEF Transcript
        <3> QED
            BY <2>1, <2>3, <3>1, <3>2
    <2>6. (\A v \in Workers : pc[v] \in {"agent", "save"} =>
              /\ Older(prior[v], Thread(v), turn[v])
              /\ settled[v] => history[Thread(v)] \in {prior[v], <<>>})'
        BY <2>1, <2>3 DEF Transcript
    <2>7. (\A u \in Threads : \A item \in readable[u] : Older(item, u, turns + 1))'
        BY <2>1, <2>3, <2>4
    <2>8. Transcript'
        BY <2>5, <2>6, <2>7 DEF Transcript
    <2> QED
        BY <2>2, <2>8
<1>5. ASSUME NEW w \in Workers, Load(w) PROVE Apart' /\ Transcript'
    <2>1. PICK item \in readable[Thread(w)] : prior' = [prior EXCEPT ![w] = item]
        BY <1>5 DEF Load
    <2>2. /\ pc[w] = "load" /\ pc' = [pc EXCEPT ![w] = "agent"]
          /\ settled' = [settled EXCEPT ![w] = readable[Thread(w)] = {history[Thread(w)]}]
          /\ UNCHANGED <<turns, request, turn, history, readable>>
        BY <1>5 DEF Load, tableVars
    <2>3. Apart'
        BY <2>2
    <2>4. \A s, u, n : Older(s, u, n) => Older(s, u, n)'
        BY <2>2, OlderStable
    <2>5. Older(item, Thread(w), turn[w])
        BY <2>2 DEF Transcript
    <2>6. settled'[w] => history[Thread(w)] = item
        BY <2>1, <2>2
    <2>7. (\A v \in Workers : pc[v] \in {"agent", "save"} =>
              /\ Older(prior[v], Thread(v), turn[v])
              /\ settled[v] => history[Thread(v)] \in {prior[v], <<>>})'
        BY <2>1, <2>2, <2>4, <2>5, <2>6 DEF Transcript
    <2>8. (\A u \in Threads : \A i \in readable[u] : Older(i, u, turns + 1))'
        BY <2>2, <2>4 DEF Transcript
    <2>9. (\A v \in Workers : Busy(v) => \A i \in readable[Thread(v)] : Older(i, Thread(v), turn[v]))'
        BY <2>2, <2>4 DEF Transcript
    <2> QED
        BY <2>3, <2>7, <2>8, <2>9 DEF Transcript
<1>6. ASSUME NEW w \in Workers, CallDestructive(w) \/ CallAdminTool(w) PROVE Apart' /\ Transcript'
    <2>1. UNCHANGED <<turns, request, pc, turn, prior, settled, history, readable>>
        BY <1>6 DEF CallDestructive, CallAdminTool, localVars, tableVars
    <2> QED
        BY <2>1, QuietStep
<1>7. ASSUME NEW w \in Workers, Reply(w) \/ Raise(w) PROVE Apart' /\ Transcript'
    <2>1. /\ UNCHANGED <<turns, request, history, readable>>
          /\ \A v \in Workers :
                \/ pc'[v] = "idle"
                \/ /\ pc'[v] = pc[v] \/ pc[v] = "agent"
                   /\ turn'[v] = turn[v] /\ prior'[v] = prior[v] /\ settled'[v] = settled[v]
        BY <1>7 DEF Reply, Raise, Finish, localVars, tableVars
    <2> QED
        BY <2>1, QuietStep
<1>8. ASSUME NEW w \in Workers, Save(w) PROVE Apart' /\ Transcript'
    <2> DEFINE t == Thread(w)
               put == Append(prior[w], turn[w])
    <2>1. /\ pc[w] = "save" /\ pc' = [pc EXCEPT ![w] = "idle"] /\ t \in Threads
          /\ history' = [history EXCEPT ![t] = put]
          /\ readable' = [readable EXCEPT ![t] = @ \cup {put}]
          /\ turn' = [turn EXCEPT ![w] = 0] /\ prior' = [prior EXCEPT ![w] = <<>>]
          /\ settled' = [settled EXCEPT ![w] = FALSE]
          /\ UNCHANGED <<turns, request>>
        BY <1>8 DEF Save, Write, Finish, Persisted
    <2>2. \A v \in Workers : Busy(v)' => /\ v # w /\ Busy(v) /\ pc'[v] = pc[v]
                                         /\ Thread(v)' = Thread(v) /\ Thread(v) # t /\ Thread(v) \in Threads
                                         /\ turn'[v] = turn[v] /\ prior'[v] = prior[v] /\ settled'[v] = settled[v]
        <3> SUFFICES ASSUME NEW v \in Workers, Busy(v)'
                     PROVE  /\ v # w /\ Busy(v) /\ pc'[v] = pc[v]
                            /\ Thread(v)' = Thread(v) /\ Thread(v) # t /\ Thread(v) \in Threads
                            /\ turn'[v] = turn[v] /\ prior'[v] = prior[v] /\ settled'[v] = settled[v]
            OBVIOUS
        <3> HIDE DEF put
        <3>1. v # w
            BY <2>1
        <3>2. /\ pc'[v] = pc[v] /\ turn'[v] = turn[v] /\ prior'[v] = prior[v] /\ settled'[v] = settled[v]
              /\ request' = request
            BY <2>1, <3>1
        <3>3. Busy(v) /\ Busy(w) /\ Thread(v)' = Thread(v)
            BY <2>1, <3>2
        <3>4. Thread(v) # t
            BY <3>1, <3>3
        <3>5. Thread(v) \in Threads
            BY <3>3
        <3> QED
            BY <3>1, <3>2, <3>3, <3>4, <3>5
    <2>3. Apart'
        BY <2>2
    <2>4. \A s, u, n : Older(s, u, n) => Older(s, u, n)'
        BY <2>1, OlderStable
    <2>5. Older(put, t, turns + 1)
        <3>1. /\ turn[w] \in 1 .. MaxTurns /\ turn[w] < turns + 1 /\ turns + 1 \in Nat
              /\ prior[w] \in Seq(1 .. MaxTurns) /\ Older(prior[w], t, turn[w])
            BY <2>1 DEF Transcript
        <3> QED
            BY <3>1, AppendOlder
    <2>6. /\ readable'[t] = readable[t] \cup {put}
          /\ \A u \in Threads : u # t => readable'[u] = readable[u] /\ history'[u] = history[u]
        BY <2>1
    <2> HIDE DEF t, put
    <2>7. Transcript /\ UNCHANGED turns
        BY <2>1
    <2>8. (\A u \in Threads : \A item \in readable[u] : Older(item, u, turns + 1))'
        <3> SUFFICES ASSUME NEW u \in Threads, NEW item \in readable'[u]
                     PROVE  Older(item, u, turns + 1)'
            OBVIOUS
        <3>1. Older(item, u, turns + 1)
            BY <2>5, <2>6, <2>7 DEF Transcript
        <3> QED
            BY <2>4, <2>7, <3>1
    <2>9. (\A v \in Workers :
              Busy(v) => \A item \in readable[Thread(v)] : Older(item, Thread(v), turn[v]))'
        <3> SUFFICES ASSUME NEW v \in Workers, Busy(v)', NEW item \in readable'[Thread(v)']
                     PROVE  Older(item, Thread(v), turn[v])'
            OBVIOUS
        <3>1. item \in readable[Thread(v)]
            BY <2>2, <2>6
        <3>2. Older(item, Thread(v), turn[v])
            BY <2>2, <2>7, <3>1 DEF Transcript
        <3> HIDE DEF Thread
        <3> QED
            BY <2>2, <2>4, <3>2
    <2>10. (\A v \in Workers : pc[v] \in {"agent", "save"} =>
               /\ Older(prior[v], Thread(v), turn[v])
               /\ settled[v] => history[Thread(v)] \in {prior[v], <<>>})'
        <3> SUFFICES ASSUME NEW v \in Workers, pc'[v] \in {"agent", "save"}
                     PROVE  /\ Older(prior[v], Thread(v), turn[v])'
                            /\ settled'[v] => history'[Thread(v)'] \in {prior'[v], <<>>}
            OBVIOUS
        <3>1. Busy(v)' /\ pc[v] \in {"agent", "save"}
            BY <2>2
        <3>2. /\ Older(prior[v], Thread(v), turn[v])
              /\ settled[v] => history[Thread(v)] \in {prior[v], <<>>}
            BY <2>7, <3>1 DEF Transcript
        <3> HIDE DEF Thread
        <3> QED
            BY <2>2, <2>4, <2>6, <3>1, <3>2
    <2> QED
        BY <2>3, <2>8, <2>9, <2>10 DEF Transcript
<1> QED
    BY <1>1, <1>2, <1>3, <1>4, <1>5, <1>6, <1>7, <1>8, <1>9 DEF Next

\* When the adapters never overlap two turns of a thread, its transcript holds its own
\* turns in the order in which they began (main.py:172-210, session_store.py:34-50).
THEOREM TranscriptOrdered == ASSUME Serial PROVE Spec => []TranscriptInOrder
<1>1. SInv => TranscriptInOrder
    BY DEF SInv, IInv, RuntimeTypeOK, Transcript, Older, TranscriptInOrder
<1> QED
    BY <1>1, InitSInv, NextSInv, PTL DEF Spec

\* Appending keeps what a sequence holds, and the empty one holds nothing.
LEMMA AppendKeeps ==
    ASSUME NEW S, NEW s \in Seq(S), NEW n \in S
    PROVE  ToSet(s) \subseteq ToSet(Append(s, n)) /\ ToSet(<<>>) = {}
<1> DEFINE a == Append(s, n)
<1>1. DOMAIN s = 1 .. Len(s) /\ DOMAIN a = 1 .. Len(s) + 1 /\ Len(s) \in Nat
    OBVIOUS
<1>2. \A i \in 1 .. Len(s) : a[i] = s[i]
    BY AppendProperties
<1>3. DOMAIN <<>> = {}
    OBVIOUS
<1> HIDE DEF a
<1>4. \A i \in DOMAIN s : i \in DOMAIN a /\ a[i] = s[i]
    BY <1>1, <1>2
<1>5. ToSet(s) \subseteq ToSet(a)
    BY <1>4 DEF ToSet
<1> QED
    BY <1>3, <1>5 DEF a, ToSet

\* Nor does a put then lose a turn that is in the item, if the copies of the item agreed
\* when it was loaded: what the worker loaded is what the item still holds, unless it has
\* expired (main.py:172 and 210). A load from copies that differ may have missed turns.
THEOREM TurnsKept == ASSUME Serial PROVE Spec => SettledTurnsAreKept
<1> DEFINE Kept == \A w \in Workers :
              settled[w] /\ Save(w) => ToSet(history[Thread(w)]) \subseteq ToSet(history'[Thread(w)])
<1>1. SInv /\ [Next]_vars => [Kept]_vars
    <2> SUFFICES ASSUME SInv, NEW w \in Workers, settled[w], Save(w)
                 PROVE  ToSet(history[Thread(w)]) \subseteq ToSet(history'[Thread(w)])
        OBVIOUS
    <2> USE DEF SInv, IInv, RuntimeTypeOK
    <2>1. /\ Thread(w) \in Threads /\ prior[w] \in Seq(1 .. MaxTurns) /\ turn[w] \in 1 .. MaxTurns
          /\ history[Thread(w)] \in {prior[w], <<>>}
          /\ history' = [history EXCEPT ![Thread(w)] = Append(prior[w], turn[w])]
        BY RuntimeAssumption DEF Save, Write, Persisted, Transcript, Busy, Thread, OwnContext, Request
    <2> DEFINE t == Thread(w)
               s == prior[w]
               n == turn[w]
    <2>2. t \in Threads /\ s \in Seq(1 .. MaxTurns) /\ history[t] \in {s, <<>>} /\ n \in 1 .. MaxTurns
        BY <2>1
    <2>3. history' = [history EXCEPT ![t] = Append(s, n)] /\ history \in [Threads -> Seq(1 .. MaxTurns)]
        BY <2>1
    <2> HIDE DEF t, s, n
    <2>4. ToSet(s) \subseteq ToSet(Append(s, n)) /\ ToSet(<<>>) = {}
        BY <2>2, AppendKeeps
    <2>5. ToSet(history[t]) \subseteq ToSet(history'[t])
        BY <2>2, <2>3, <2>4
    <2> QED
        BY <2>5 DEF t
<1> QED
    BY <1>1, InitSInv, NextSInv, PTL DEF Spec, SettledTurnsAreKept
=============================================================================
