----------------------------- MODULE SlackSystem -----------------------------
(***************************************************************************)
(* The Slack path as a whole: the verification Lambda and the bridge       *)
(* Lambda on one events queue and one engaged-threads table.  The sender   *)
(* that SlackBridge leaves open is the verification handler, and the       *)
(* writer of engagements that Verification leaves open is the bridge.      *)
(***************************************************************************)
EXTENDS Integers, Sequences

CONSTANTS
  Threads, Bodies, threadOf, MaxReceiveCount, VisibilityTimeout, MaxLog,
  Handlers, Users, Channels, Admins, Managed, Posts, event, BotUserIdSet, MaxDeliveries,
  Environments, Unprocessable, LambdaTimeout,
  Forgettable    \* bound: bodies whose deduplication interval may end

ASSUME SystemAssumption ==
  threadOf \in [Bodies -> Threads] /\ Threads # {} /\ Bodies # {} /\ Forgettable \subseteq Bodies

VARIABLES
  log, recent,              \* the queue as its sender and its consumer see it
  head, receives, age, dlq, \* ... as the consumer alone does
  handlerPc, body, reads, deliveries, acked, allowlist, copy, stale, seen, forgotten,
  bridgePc, job, elapsed, swaps, cachedBotToken, reactions, posts, answered, invoked,
  engaged                   \* the engaged-threads table

consumerVars == <<head, receives, age, dlq>>
bridgeVars ==
  <<bridgePc, job, elapsed, swaps, cachedBotToken, reactions, posts, answered, invoked>>
handlerVars ==
  <<handlerPc, body, reads, deliveries, acked, allowlist, copy, seen, forgotten>>
vars == <<log, recent, consumerVars, bridgeVars, handlerVars, stale, engaged>>

\* The Lambdas' modules with what is proved of each, so that it can be cited of both.
Bridge == INSTANCE SlackBridge_proofs WITH pc <- bridgePc

\* To a sender the queue only grows.
Verification == INSTANCE Verification_proofs WITH
  pc <- handlerPc,
  head <- [t \in Threads |-> 1],
  receives <- [t \in Threads |-> 0],
  age <- [t \in Threads |-> -1],
  dlq <- [t \in Threads |-> {}]

\* What the Lambdas' modules assume of their constants.
ASSUME BridgeAssumption ==
  Bridge!QueueConfigAssumption /\ Bridge!UnprocessableAssumption /\ Bridge!TimeoutAssumption

ASSUME VerificationAssumption ==
  /\ Verification!EventAssumption /\ Verification!EntityAssumption
  /\ Verification!MaxDeliveriesAssumption /\ Verification!BotUserIdAssumption
  /\ Verification!CopiesAssumption

Init == Bridge!Init /\ Verification!Init
-----------------------------------------------------------------------------
\* Slack's deliveries, the verification handlers, the admin tools, the tables' copies, and
\* the timers of the queue's deduplication and of the table's items.
VerificationStep ==
  /\ \/ \E h \in Handlers : Verification!Handler(h)
     \/ \E x \in Managed : Verification!Allow(x) \/ Verification!Disallow(x)
     \/ \E x \in Verification!Entities \cup Threads : Verification!CatchUp(x)
     \/ \E t \in Threads : Verification!ItemExpires(t) \/ Verification!TtlDelete(t)
     \/ \E b \in Forgettable : Verification!Forget(b)
  /\ UNCHANGED <<consumerVars, bridgeVars>>

\* The event source, the queue's timers, and the bridge before its last call.
BridgeStep ==
  /\ \/ \E t \in Threads : Bridge!Expire(t) \/ Bridge!DeadLetter(t)
     \/ \E e \in Environments, t \in Threads : Bridge!Start(e, t)
     \/ \E e \in Environments : bridgePc[e] # "engage" /\ Bridge!Handler(e)
     \/ \E e \in Environments : Bridge!Crash(e)
     \/ Bridge!Tick
  /\ UNCHANGED <<handlerVars, stale>>

\* Bug: the thread is engaged before its reply is sent.
Bug_EngageBeforeReply(e) ==
  /\ bridgePc[e] = "post"
  /\ engaged' = engaged \cup {Bridge!Thread(e)}
  /\ UNCHANGED <<log, recent, consumerVars, bridgeVars, handlerVars, stale>>

\* Bug: expires_at is a number of seconds from now, not a time.
Bug_ExpiresAtOnce(e) ==
  /\ Bridge!RecordEngagement(e)
  /\ stale' = stale \cup (engaged' \cap {Bridge!Thread(e)})
  /\ UNCHANGED handlerVars

\* The bridge's put; one that takes effect starts the life of the item anew.
Engage(e) ==
  /\ Bridge!RecordEngagement(e)
  /\ stale' \in {stale, stale \ {Bridge!Thread(e)}}
  /\ UNCHANGED handlerVars

Next == VerificationStep \/ BridgeStep \/ \E e \in Environments : Engage(e)

Spec == Init /\ [][Next]_vars

\* The platform's promises to the bridge; nothing is asked of any handler.
FairSpec == Spec /\ Bridge!Fairness
-----------------------------------------------------------------------------
(* Properties *)

(***************************************************************************)
(* Each Lambda behaves with the other as it does in its own module: what   *)
(* is checked and proved there of a sender and of an engagement writer     *)
(* that do as they please is true of the real ones.                        *)
(***************************************************************************)
ImplementsBridge == Bridge!Spec
ImplementsVerification == Verification!Spec

(***************************************************************************)
(* Only a turn of the bot opens a thread to follow-ups: one that reaches   *)
(* the queue without a mention has a message before it, in its thread, for *)
(* which the runtime answered and the post of the reply returned, through  *)
(* every crash, redelivery, expiry and stale read in between.  A post that *)
(* Slack refuses ({ok: false}) has returned as well: the result is not     *)
(* looked at (bridge index.ts:164), though the engagement is said to be    *)
(* recorded "only after a successful reply" (bridge index.ts:170).         *)
(***************************************************************************)
FollowupsFollowReplies ==
  \A t \in Threads : \A i \in DOMAIN log[t] :
    event[log[t][i]].type # "app_mention" => \E n \in answered[t] : n < i

(***************************************************************************)
(* The bot speaks and reacts only where it was spoken to: whatever it      *)
(* shows is about a person's mention or follow-up that it received, in a   *)
(* thread that opens with a mention, so that it never answers itself or    *)
(* another bot (verification index.ts:53-105, bridge index.ts:95-170).     *)
(***************************************************************************)
Invited(t) == event[log[t][1]].type = "app_mention"

SpeaksOnlyWhenSpokenTo ==
  /\ \A t \in Threads : \A i \in DOMAIN posts[t] :
       Verification!Routable(log[t][posts[t][i].n]) /\ Invited(t)
  /\ \A b \in Bodies :
       reactions[b] # {} => Verification!Routable(b) /\ Invited(threadOf[b])

(***************************************************************************)
(* An admin's mention that Slack got its 200 for is in the queue still,    *)
(* or was answered, or dead-lettered, or holds nothing to answer: no step  *)
(* of either Lambda, and no failure of one, loses it in between.           *)
(***************************************************************************)
AdminMention(b) ==
  event[b].type = "app_mention" /\ event[b].from = "user" /\ event[b].user \in Admins

NoMentionLost ==
  \A b \in acked : AdminMention(b) =>
    LET t == threadOf[b] IN
    \E n \in DOMAIN log[t] :
      log[t][n] = b /\ (n < head[t] => n \in answered[t] \cup dlq[t] \/ b \in Unprocessable)

(***************************************************************************)
(* An admin's mention that Slack got its 200 for leaves the queue in the   *)
(* end, by an answer or for the dead-letter queue: no step between Slack   *)
(* and the bridge loses it, whatever hangs or crashes.                     *)
(***************************************************************************)
Settled(b) == \E n \in DOMAIN log[threadOf[b]] :
  /\ log[threadOf[b]][n] = b /\ n < head[threadOf[b]]
  /\ n \in answered[threadOf[b]] \cup dlq[threadOf[b]] \/ b \in Unprocessable

AcknowledgedMentionSettles ==
  \A b \in Bodies : AdminMention(b) => (b \in acked ~> Settled(b))
=============================================================================
