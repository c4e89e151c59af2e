---------------------------- MODULE Verification ----------------------------
(***************************************************************************)
(* The Slack verification Lambda (platform/slack/verification-lambda/):    *)
(* Slack's deliveries and retries, the routing decision, the allowlist     *)
(* gate and the send to the events queue.  Each awaited call is an action. *)
(* Around it are the writers of the two tables it reads: the admin tools   *)
(* (allowlist) and the bridge and DynamoDB's TTL (engaged threads).  Its   *)
(* reads are eventually consistent: a copy of a table that lags behind may *)
(* answer them.                                                            *)
(***************************************************************************)
EXTENDS EventsQueue, FiniteSets

CONSTANTS
  Handlers,       \* Lambda execution environments of the verification Lambda
  Users, Channels, \* allowlist entities: USER and CHANNEL entries
  Admins,         \* users in ADMIN_SLACK_USERS
  Managed,        \* bound: entities the admin tools are asked to add or remove
  Posts,          \* what people (and the bot) post in Slack
  event,          \* event[b]: the Slack event in body b
  BotUserIdSet,   \* is BOT_USER_ID configured?
  MaxDeliveries   \* Slack's deliveries of one event (first and retries)

Event == [post : Posts,
          type : {"app_mention", "message", "other"},
          from : {"user", "bot", "edit", "partial"}, \* bot_id, subtype, no user
          user : Users,
          channel : Channels,
          reply : BOOLEAN,        \* thread_ts is set and is not ts
          text : {"blank", "plain", "botMention", "otherMention"}]

ASSUME EventAssumption == event \in [Bodies -> Event]
ASSUME EntityAssumption ==
  /\ Users \cap Channels = {} /\ Threads \cap (Users \cup Channels) = {}
  /\ Admins \subseteq Users /\ Managed \subseteq Users \cup Channels
ASSUME MaxDeliveriesAssumption == MaxDeliveries \in Nat
ASSUME BodiesAssumption == Bodies # {}
ASSUME BotUserIdAssumption == BotUserIdSet \in BOOLEAN

(***************************************************************************)
(* Slack delivers a post twice only if it mentions the bot: once as an     *)
(* app_mention and once as a message whose text has the mention.           *)
(***************************************************************************)
ASSUME CopiesAssumption ==
  \A b, c \in Bodies : b # c /\ event[b].post = event[c].post =>
    \/ event[b].type = "app_mention" /\ event[c].type = "message"
                                     /\ event[c].text = "botMention"
    \/ event[c].type = "app_mention" /\ event[b].type = "message"
                                     /\ event[b].text = "botMention"

VARIABLES
  pc,          \* pc[h]: where the invocation in environment h stands
  body,        \* body[h]: the body it was invoked with
  reads,       \* reads[h]: allowlist reads of Promise.all still pending
  deliveries,  \* deliveries[b]: how often Slack has sent b
  acked,       \* bodies Slack got a 200 for in time; it does not retry those
  allowlist,   \* the allowlist table: users and channels with an entry
  engaged,     \* threads with an item in the engaged-threads table
  stale,       \* ... those whose item is past its expires_at
  copy,        \* what a copy of the two tables holds that lags behind them
  seen,        \* seen[h]: entries some copy held since h began (history)
  forgotten    \* bodies whose deduplication interval has ended (history)

handlerVars == <<pc, body, reads, deliveries, acked, seen>>
tableVars == <<allowlist, engaged, stale, copy>>
vars == <<queueVars, handlerVars, tableVars, forgotten>>

Entities == Users \cup Channels
PCs == {"idle", "engagement", "classify", "allowlist", "send"}

User(h) == event[body[h]].user
Channel(h) == event[body[h]].channel

(***************************************************************************)
(* Every variable keeps its type; an expiry belongs to an item that is     *)
(* still in the engaged-threads table.                                     *)
(***************************************************************************)
VerificationTypeOK ==
  /\ QueueTypeOK
  /\ pc \in [Handlers -> PCs]
  /\ body \in [Handlers -> Bodies]
  /\ reads \in [Handlers -> SUBSET Entities]
  /\ deliveries \in [Bodies -> 0..MaxDeliveries]
  /\ acked \in SUBSET Bodies
  /\ allowlist \in SUBSET Entities
  /\ engaged \in SUBSET Threads
  /\ stale \in SUBSET engaged
  /\ copy \in SUBSET (Entities \cup Threads)
  /\ seen \in [Handlers -> SUBSET Entities]
  /\ forgotten \in SUBSET Bodies

Init ==
  /\ QueueInit
  /\ pc = [h \in Handlers |-> "idle"]
  /\ body = [h \in Handlers |-> CHOOSE b \in Bodies : TRUE]
  /\ reads = [h \in Handlers |-> {}]
  /\ deliveries = [b \in Bodies |-> 0]
  /\ acked = {}
  /\ allowlist = {}
  /\ engaged = {}
  /\ stale = {}
  /\ copy = {}
  /\ seen = [h \in Handlers |-> {}]
  /\ forgotten = {}

-----------------------------------------------------------------------------
(* The routing decision up to its first await (routing.ts). *)

\* Bug: the message copy of a mention is routed like any follow-up.
Bug_NoMentionDedup(b) == event[b].text = "blank"

MentionMatches(b) ==
  \/ event[b].text = "botMention"
  \/ event[b].text = "otherMention" /\ ~BotUserIdSet

\* A thread reply without a mention: the engaged-threads table decides.
NeedsEngagement(b) ==
  /\ event[b].type = "message"
  /\ event[b].reply
  /\ event[b].text # "blank"
  /\ ~MentionMatches(b)

\* The allowlist gate: admins skip it.
Gate(b) == IF event[b].user \in Admins THEN "send" ELSE "allowlist"

\* Bug: posts with a bot_id are not dropped.
Bug_BotsHeard(b) ==
  IF event[b].from \in {"edit", "partial"} THEN "idle"
  ELSE IF event[b].type = "app_mention" THEN Gate(b)
  ELSE IF NeedsEngagement(b) THEN "engagement" ELSE "idle"

\* Where the handler is when it first waits, having dropped what it drops.
FirstStop(b) ==
  IF event[b].from # "user" THEN "idle"
  ELSE IF event[b].type = "app_mention" THEN Gate(b)
  ELSE IF NeedsEngagement(b) THEN "engagement" ELSE "idle"

-----------------------------------------------------------------------------
(* One invocation of the verification Lambda. *)

\* The 200 reaches Slack within its three seconds, or it does not.
MayAck(b) == acked' \in {acked, acked \cup {b}}

Finish(h) ==
  /\ pc' = [pc EXCEPT ![h] = "idle"]
  /\ reads' = [reads EXCEPT ![h] = {}]
  /\ seen' = [seen EXCEPT ![h] = {}]
  /\ UNCHANGED <<body, deliveries>>

\* The handler answers 200 and the event is forgotten.
Drop(h) ==
  /\ Finish(h)
  /\ MayAck(body[h])
  /\ UNCHANGED <<queueVars, tableVars, forgotten>>

(***************************************************************************)
(* Slack posts b, again if no 200 came in time, even while an earlier      *)
(* invocation for b still runs.  The signature is verified and all that    *)
(* can be decided without a table is decided.  (A request that is not a    *)
(* signed event_callback is answered without any effect and left out.)     *)
(***************************************************************************)
Deliver(h, b) ==
  /\ pc[h] = "idle"
  /\ b \notin acked
  /\ deliveries[b] < MaxDeliveries
  /\ deliveries' = [deliveries EXCEPT ![b] = @ + 1]
  /\ body' = [body EXCEPT ![h] = b]
  /\ pc' = [pc EXCEPT ![h] = FirstStop(b)]
  /\ IF FirstStop(b) = "idle"
       THEN MayAck(b) /\ UNCHANGED <<reads, seen>>
       ELSE /\ reads' = [reads EXCEPT ![h] = {event[b].user, event[b].channel}]
            /\ seen' = [seen EXCEPT ![h] = allowlist \cup (copy \cap Entities)]
            /\ UNCHANGED acked
  /\ UNCHANGED <<queueVars, tableVars, forgotten>>

Advance(h, place) ==
  /\ pc' = [pc EXCEPT ![h] = place]
  /\ UNCHANGED <<body, deliveries, acked, seen>>
  /\ UNCHANGED <<queueVars, tableVars, forgotten>>

\* Is x in its table now?
Present(x) == IF x \in Threads THEN x \in engaged ELSE x \in allowlist

\* GetItem without ConsistentRead: any copy of the table may answer.
Found(x) == Present(x) \/ x \in copy
Missed(x) == ~Present(x) \/ x \notin copy

\* Bug: the engagement lookup is awaited and its result is not used.
Bug_EngagementIgnored(h) ==
  /\ pc[h] = "engagement"
  /\ Advance(h, "classify") /\ UNCHANGED reads

\* getEngagement: the item's presence decides, whatever its expires_at.
GetEngagement(h) ==
  /\ pc[h] = "engagement"
  /\ \/ Found(threadOf[body[h]]) /\ Advance(h, "classify") /\ UNCHANGED reads
     \/ Missed(threadOf[body[h]]) /\ Drop(h)

\* Bug: only mentions are checked against the allowlist.
Bug_FollowupsUngated(h) ==
  /\ pc[h] = "classify"
  /\ \/ Advance(h, "send") /\ UNCHANGED reads
     \/ Drop(h)

\* isAddressedToBot: "no", or any failure of the model call, drops.
Classify(h) ==
  /\ pc[h] = "classify"
  /\ \/ Advance(h, Gate(body[h])) /\ UNCHANGED reads
     \/ Drop(h)

\* Bug: one of the two entries is enough.
Bug_EitherEntry(h) ==
  /\ pc[h] = "allowlist"
  /\ \E x \in reads[h] :
       \/ Found(x) /\ Advance(h, "send") /\ UNCHANGED reads
       \/ Missed(x) /\ Drop(h)

(***************************************************************************)
(* isAllowlisted: two reads in parallel, each answered at its own time, by *)
(* its own copy.  A missing entry drops the event, whatever the other read *)
(* finds.                                                                  *)
(***************************************************************************)
ReadAllowlist(h) ==
  /\ pc[h] = "allowlist"
  /\ \E x \in reads[h] :
       \/ /\ Found(x)
          /\ reads' = [reads EXCEPT ![h] = @ \ {x}]
          /\ Advance(h, IF reads[h] = {x} THEN "send" ELSE "allowlist")
       \/ Missed(x) /\ Drop(h)

\* SQS takes the message, or knows it already; the handler answers 200.
SendMessage(h) ==
  /\ pc[h] = "send"
  /\ Enqueue(body[h]) \/ (body[h] \in recent /\ UNCHANGED queueVars)
  /\ Finish(h)
  /\ MayAck(body[h])
  /\ UNCHANGED <<tableVars, forgotten>>

\* Bug: a catch around the handler answers 200.
Bug_AckOnFailure(h) ==
  /\ pc[h] # "idle"
  /\ Finish(h)
  /\ MayAck(body[h])
  /\ UNCHANGED <<queueVars, tableVars, forgotten>>

\* A call throws, the Lambda times out (8 s) or its environment goes down.
Fail(h) ==
  /\ pc[h] # "idle"
  /\ Finish(h)
  /\ UNCHANGED <<acked, queueVars, tableVars, forgotten>>

-----------------------------------------------------------------------------
(* The writers of the tables, and the queue's timer. *)

\* add_allowed_user, add_allowed_channel
Allow(x) ==
  /\ allowlist' = allowlist \cup {x}
  /\ seen' = [h \in Handlers |-> IF pc[h] = "idle" THEN {} ELSE seen[h] \cup {x}]
  /\ UNCHANGED <<pc, body, reads, deliveries, acked, engaged, stale, copy>>
  /\ UNCHANGED <<queueVars, forgotten>>

\* remove_allowed_user, remove_allowed_channel
Disallow(x) ==
  /\ x \in allowlist
  /\ allowlist' = allowlist \ {x}
  /\ UNCHANGED <<handlerVars, engaged, stale, copy, queueVars, forgotten>>

\* The bridge replied in a thread it got a message of, and put its item.
RecordEngagement(t) ==
  /\ log[t] # <<>>
  /\ engaged' = engaged \cup {t}
  /\ stale' = stale \ {t}
  /\ UNCHANGED <<handlerVars, allowlist, copy, queueVars, forgotten>>

\* The item is past its expires_at; DynamoDB deletes it some time later.
ItemExpires(t) ==
  /\ t \in engaged \ stale
  /\ stale' = stale \cup {t}
  /\ UNCHANGED <<handlerVars, allowlist, engaged, copy, queueVars, forgotten>>

TtlDelete(t) ==
  /\ t \in stale
  /\ engaged' = engaged \ {t}
  /\ stale' = stale \ {t}
  /\ UNCHANGED <<handlerVars, allowlist, copy, queueVars, forgotten>>

\* What was last written of x reaches the copy as well, however late.
CatchUp(x) ==
  /\ copy' = IF Present(x) THEN copy \cup {x} ELSE copy \ {x}
  /\ UNCHANGED <<handlerVars, allowlist, engaged, stale, queueVars, forgotten>>

Forget(b) ==
  /\ ForgetDuplicate(b)
  /\ forgotten' = forgotten \cup {b}
  /\ UNCHANGED <<handlerVars, tableVars>>

Handler(h) ==
  \/ \E b \in Bodies : Deliver(h, b)
  \/ GetEngagement(h) \/ Classify(h) \/ ReadAllowlist(h)
  \/ SendMessage(h) \/ Fail(h)

Tables ==
  \/ \E x \in Managed : Allow(x) \/ Disallow(x)
  \/ \E t \in Threads : RecordEngagement(t) \/ ItemExpires(t) \/ TtlDelete(t)
  \/ \E x \in Entities \cup Threads : CatchUp(x)

Next ==
  \/ \E h \in Handlers : Handler(h)
  \/ Tables
  \/ \E b \in Bodies : Forget(b)

Spec == Init /\ [][Next]_vars

-----------------------------------------------------------------------------
(* Safety *)

(***************************************************************************)
(* "so the agent isn't double-invoked" (routing.ts): of the app_mention    *)
(* and message copies of a post, delivered and retried in any order to     *)
(* concurrent handlers, one reaches the queue, and it once, except for a   *)
(* Slack retry that comes after the queue's deduplication interval.        *)
(***************************************************************************)
OneMessagePerPost ==
  \A t \in Threads : \A i, j \in DOMAIN log[t] :
    i < j /\ event[log[t][i]].post = event[log[t][j]].post
      => log[t][i] = log[t][j] /\ log[t][i] \in forgotten

(***************************************************************************)
(* A mention Slack got its 200 for is in the queue when an admin wrote it: *)
(* nothing that can fail comes after the acknowledgement.                  *)
(***************************************************************************)
AcknowledgedMentionIsQueued ==
  \A b \in acked :
    event[b].type = "app_mention" /\ event[b].from = "user"
                                  /\ event[b].user \in Admins
      => \E i \in DOMAIN log[threadOf[b]] : log[threadOf[b]][i] = b

(***************************************************************************)
(* The bot never joins a conversation uninvited: the first message of a    *)
(* thread to reach it mentions it, however follow-ups, classifier calls,   *)
(* engagement writes and their expiry interleave.                          *)
(***************************************************************************)
ThreadsOpenWithMention ==
  \A t \in Threads : log[t] # <<>> => event[log[t][1]].type = "app_mention"

(***************************************************************************)
(* A non-admin's message is queued only if its user and its channel each   *)
(* had an allowlist entry at some time while the handler ran, or one whose *)
(* removal had not reached every copy of the table when it began: the      *)
(* reads of the two are eventually consistent (allowlist-check.ts:28, 45). *)
(***************************************************************************)
QueuedOnlyIfAllowedMeanwhile ==
  [][\A h \in Handlers :
       SendMessage(h) /\ User(h) \notin Admins
         => {User(h), Channel(h)} \subseteq seen[h]]_vars

(***************************************************************************)
(* The inductive invariant behind the safety properties.                   *)
(***************************************************************************)
\* What chooseRoute can answer 'queue' to.
Routable(b) ==
  event[b].from = "user" /\ (event[b].type = "app_mention" \/ NeedsEngagement(b))

InQueue(b) == \E i \in DOMAIN log[threadOf[b]] : log[threadOf[b]][i] = b

\* What was queued was routable, and is remembered for deduplication.
LogInv ==
  /\ \A t \in Threads : \A i \in DOMAIN log[t] :
       /\ threadOf[log[t][i]] = t
       /\ Routable(log[t][i])
       /\ log[t][i] \in recent \cup forgotten
  /\ \A b \in recent : InQueue(b)

\* Where a handler stands tells what it knows of its event.
StageInv(h) ==
  /\ pc[h] # "idle" => Routable(body[h])
  /\ pc[h] \in {"engagement", "classify"} => NeedsEngagement(body[h])
  /\ pc[h] = "allowlist" => User(h) \notin Admins
  /\ pc[h] \in {"classify", "allowlist", "send"} /\ NeedsEngagement(body[h])
       => log[threadOf[body[h]]] # <<>>

\* What a handler has found in the allowlist, some copy has held since it began.
SeenInv(h) ==
  /\ pc[h] # "idle" => allowlist \cup (copy \cap Entities) \subseteq seen[h]
  /\ pc[h] \in {"engagement", "classify", "allowlist"}
       => {User(h), Channel(h)} \subseteq reads[h] \cup seen[h]
  /\ pc[h] = "send" /\ User(h) \notin Admins
       => {User(h), Channel(h)} \subseteq seen[h]

(***************************************************************************)
(* All of it together: each handler's place in the code tells what it has  *)
(* established about its event, stale reads included, and the queue holds  *)
(* nothing but routable events, so that every safety property above holds. *)
(***************************************************************************)
VerificationInv ==
  /\ VerificationTypeOK
  /\ LogInv
  /\ \A h \in Handlers : StageInv(h) /\ SeenInv(h)
  /\ \A t \in Threads : t \in engaged \cup copy => log[t] # <<>>
  /\ OneMessagePerPost
  /\ AcknowledgedMentionIsQueued
  /\ ThreadsOpenWithMention

=============================================================================
