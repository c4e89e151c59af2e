----------------------------- MODULE AgentRuntime -----------------------------
(* The agent runtime (agent-runtime/main.py): invocations handled by the worker *)
(* threads of a container, the thread-local context that its tools read, the    *)
(* destructive guard, and the transcript, which is loaded before the agent runs *)
(* and put whole afterwards. It is read with eventual consistency: the item a   *)
(* load returns may be one that a later put has replaced. The agent's choice of *)
(* tools is arbitrary.                                                          *)
EXTENDS Naturals, SequencesExt

CONSTANTS
    Workers,           \* Python threads that run the handler
    Threads,           \* conversations (thread_id)
    Principals,        \* principal_id of the callers
    NoPrincipal,       \* a request without principal_id
    Unknown,           \* the default of invoking_principal_id
    Requests,          \* what adapters pass (main.py:149-154)
    ToolThreads,       \* where a tool may run: "handler", or "other" for a thread of
                       \* the agent library that no handler has set a context in
    Serial,            \* TRUE: the adapters never overlap two turns of a thread
    MaxTurns           \* bound: invocations

Request ==
    [thread : Threads, principal : Principals \cup {NoPrincipal}, admin : BOOLEAN, confirmed : BOOLEAN]

ASSUME RuntimeAssumption ==
    /\ Unknown \notin Principals /\ NoPrincipal \notin Principals
    /\ Requests \subseteq Request
    /\ ToolThreads \subseteq {"handler", "other"}
    /\ Serial \in BOOLEAN /\ MaxTurns \in Nat

VARIABLES
    turns,             \* invocations so far; the n-th is turn n
    request,           \* per turn: what the adapter passed (thread_id, principal_id,
                       \* is_admin, destructive_confirmed)
    pc, turn,          \* per worker: where it is, and in which turn (0: in none)
    context,           \* per worker: its invocation_context
    prior,             \* per worker: the history it has loaded
    settled,           \* per worker: had every copy of the item what was last put
                       \* of it when it was loaded? (history)
    history,           \* session table: the turns in a thread's item
    readable,          \* ... and the versions of the item that some copy still holds
    destroyed,         \* turns in which a destructive tool ran (history)
    added              \* allowlist entries: who is said to have added them, and in
                       \* which turn they were put (history)

localVars == <<prior, settled>>
tableVars == <<history, readable>>
vars == <<turns, request, pc, turn, context, localVars, tableVars, destroyed, added>>

Context == [principal : Principals \cup {Unknown}, confirmed : BOOLEAN]

\* invocation_context.reset(), and the class attributes of a thread that set nothing.
Defaults == [principal |-> Unknown, confirmed |-> FALSE]

Init ==
    /\ turns = 0
    /\ request \in [1 .. MaxTurns -> Requests]
    /\ pc = [w \in Workers |-> "idle"]
    /\ turn = [w \in Workers |-> 0]
    /\ context = [w \in Workers |-> Defaults]
    /\ prior = [w \in Workers |-> <<>>]
    /\ settled = [w \in Workers |-> FALSE]
    /\ history = [t \in Threads |-> <<>>]
    /\ readable = [t \in Threads |-> {<<>>}]
    /\ destroyed = {} /\ added = {}

Goto(w, l) == pc' = [pc EXCEPT ![w] = l]
Thread(w) == request[turn[w]].thread

\* Bug: invocation_context is one object for all threads.
Bug_OneContextForAll(w) == CHOOSE v \in Workers : TRUE

\* threading.local: the context a thread sees is its own.
Slot(w) == w

\* `principal_id or "unknown"`
PrincipalOf(r) == IF r.principal = NoPrincipal THEN Unknown ELSE r.principal

\* Bug: the flag of a worker's last turn is kept.
Bug_ConfirmationKept(w, r) ==
    [principal |-> PrincipalOf(r), confirmed |-> r.confirmed \/ context[w].confirmed]

\* Bug: a request without principal_id leaves None.
Bug_NoDefault(w, r) == [principal |-> r.principal, confirmed |-> r.confirmed]

\* The context after the resets and assignments of main.py:166-170.
ContextOf(w, r) == [principal |-> PrincipalOf(r), confirmed |-> r.confirmed]

\* An invocation with a prompt reaches a worker (without one it returns at once).
Begin(w) ==
    /\ pc[w] = "idle" /\ turns < MaxTurns
    /\ LET r == request[turns + 1]
       IN  /\ Serial => \A v \in Workers : pc[v] # "idle" => Thread(v) # r.thread
           /\ context' = [context EXCEPT ![Slot(w)] = ContextOf(w, r)]
    /\ turns' = turns + 1
    /\ turn' = [turn EXCEPT ![w] = turns + 1]
    /\ Goto(w, "load")
    /\ UNCHANGED <<request, localVars, tableVars, destroyed, added>>

\* load_history, _sanitize_history and the snapshot of it. get_item asks for no
\* consistent read: any copy of the item may answer (session_store.py:35).
Load(w) ==
    /\ pc[w] = "load"
    /\ \E item \in readable[Thread(w)] : prior' = [prior EXCEPT ![w] = item]
    /\ settled' = [settled EXCEPT ![w] = readable[Thread(w)] = {history[Thread(w)]}]
    /\ Goto(w, "agent")
    /\ UNCHANGED <<turns, request, turn, context, tableVars, destroyed, added>>

\* The context that code in a tool reads.
Seen(w) == {IF x = "handler" THEN context[Slot(w)] ELSE Defaults : x \in ToolThreads}

\* The model calls a tool that wrap_destructive has wrapped; an unconfirmed call is
\* answered with requires_confirmation and does nothing.
CallDestructive(w) ==
    /\ pc[w] = "agent"
    /\ \E c \in Seen(w) :
          destroyed' = IF c.confirmed THEN destroyed \cup {turn[w]} ELSE destroyed
    /\ UNCHANGED <<turns, request, pc, turn, context, localVars, tableVars, added>>

\* The model calls add_allowed_user or add_allowed_channel, which an admin's turn has.
CallAdminTool(w) ==
    /\ pc[w] = "agent" /\ request[turn[w]].admin
    /\ \E c \in Seen(w) : added' = added \cup {[by |-> c.principal, turn |-> turn[w]]}
    /\ UNCHANGED <<turns, request, pc, turn, context, localVars, tableVars, destroyed>>

\* The agent returns.
Reply(w) ==
    /\ pc[w] = "agent"
    /\ Goto(w, "save")
    /\ UNCHANGED <<turns, request, turn, context, localVars, tableVars, destroyed, added>>

\* Bug: the messages are persisted without the snapshot of the earlier ones.
Bug_TurnAlone(w) == <<turn[w]>>

\* Bug: this turn's messages come before the snapshot.
Bug_TurnFirst(w) == <<turn[w]>> \o prior[w]

\* `persisted`: the snapshot and this turn's messages.
Persisted(w) == Append(prior[w], turn[w])

\* The handler's local variables end with it; the worker keeps its context.
Finish(w) ==
    /\ Goto(w, "idle")
    /\ turn' = [turn EXCEPT ![w] = 0]
    /\ prior' = [prior EXCEPT ![w] = <<>>]
    /\ settled' = [settled EXCEPT ![w] = FALSE]

\* Whoever writes an item, the copies get it later.
Write(t, item) ==
    /\ history' = [history EXCEPT ![t] = item]
    /\ readable' = [readable EXCEPT ![t] = @ \cup {item}]

\* save_history puts the whole item, and the handler returns.
Save(w) ==
    /\ pc[w] = "save"
    /\ Write(Thread(w), Persisted(w))
    /\ Finish(w)
    /\ UNCHANGED <<turns, request, context, destroyed, added>>

\* A call raises and the handler with it.
Raise(w) ==
    /\ pc[w] # "idle"
    /\ Finish(w)
    /\ UNCHANGED <<turns, request, context, tableVars, destroyed, added>>

\* The container ends, and with it the contexts of all its threads.
Die ==
    /\ pc' = [w \in Workers |-> "idle"]
    /\ turn' = [w \in Workers |-> 0]
    /\ context' = [w \in Workers |-> Defaults]
    /\ prior' = [w \in Workers |-> <<>>]
    /\ settled' = [w \in Workers |-> FALSE]
    /\ UNCHANGED <<turns, request, tableVars, destroyed, added>>

\* DynamoDB deletes an item seven days after its last put, in whatever moment.
Expire(t) ==
    /\ history[t] # <<>>
    /\ Write(t, <<>>)
    /\ UNCHANGED <<turns, request, pc, turn, context, localVars, destroyed, added>>

\* The last copy that held an older version of the item has got a newer one.
Propagate(t) ==
    /\ \E item \in readable[t] \ {history[t]} :
          readable' = [readable EXCEPT ![t] = @ \ {item}]
    /\ UNCHANGED <<turns, request, pc, turn, context, localVars, history, destroyed, added>>

Next ==
    \/ Die
    \/ \E t \in Threads : Expire(t) \/ Propagate(t)
    \/ \E w \in Workers :
          Begin(w) \/ Load(w) \/ CallDestructive(w) \/ CallAdminTool(w) \/ Reply(w) \/ Save(w) \/ Raise(w)

Spec == Init /\ [][Next]_vars
-----------------------------------------------------------------------------
(* Properties *)

\* Every variable keeps its type.
RuntimeTypeOK ==
    /\ turns \in 0 .. MaxTurns
    /\ request \in [1 .. MaxTurns -> Requests]
    /\ pc \in [Workers -> {"idle", "load", "agent", "save"}]
    /\ turn \in [Workers -> 0 .. MaxTurns]
    /\ context \in [Workers -> Context]
    /\ prior \in [Workers -> Seq(1 .. MaxTurns)]
    /\ settled \in [Workers -> BOOLEAN]
    /\ history \in [Threads -> Seq(1 .. MaxTurns)]
    /\ readable \in [Threads -> SUBSET Seq(1 .. MaxTurns)]
    /\ \A t \in Threads : history[t] \in readable[t]
    /\ destroyed \subseteq 1 .. MaxTurns
    /\ added \subseteq [by : Principals \cup {Unknown}, turn : 1 .. MaxTurns]

\* A destructive tool runs only in a turn whose own request carries the confirmation,
\* whatever turns ran on the same worker before or run on others now
\* (destructive_guard.py:65, invocation_context.py:34).
DestructionIsConfirmed == \A n \in destroyed : request[n].confirmed

\* added_by never names another caller: it is the principal of the turn that put the
\* entry, or unknown (admin_tools.py:112), and only admins' turns put entries.
AddedByOwnPrincipal ==
    \A a \in added : a.by \in {request[a.turn].principal, Unknown} /\ request[a.turn].admin

InOrder(turnsOf, t) ==
    \A i \in DOMAIN turnsOf :
        /\ request[turnsOf[i]].thread = t
        /\ \A j \in 1 .. i - 1 : turnsOf[j] < turnsOf[i]

\* A transcript holds turns of its own thread, in the order in which they began.
TranscriptInOrder == \A t \in Threads : InOrder(history[t], t)

\* "We keep our own store so multi-turn conversations resume cleanly"
\* (session_store.py:5): a put keeps every turn that is in the item, if the copies of
\* the item agreed when it was loaded. (If they did not, the load may have missed turns,
\* and the put drops them: the read is eventually consistent.)
SettledTurnsAreKept ==
    [][\A w \in Workers :
        settled[w] /\ Save(w) => ToSet(history[Thread(w)]) \subseteq ToSet(history'[Thread(w)])]_vars
=============================================================================
