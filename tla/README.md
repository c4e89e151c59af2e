# Formal model of tobot-agent

TLA+ modules, TLC configurations and TLAPS proofs for the Tobot agent: a Slack
(and webhook) front door, a queue, and an agent runtime with a tool platform.

## 1. The system

| Part | Source | State it keeps | Operations |
|---|---|---|---|
| Verification Lambda | `platform/slack/verification-lambda/` | cached signing secret | `handler`: signature, bot and subtype drop, route, allowlist, send |
| Events queue | `lib/platform-stack.ts` (SQS FIFO + DLQ) | messages per thread, receive counts, visibility, dedup window, DLQ | send, receive, delete, expire, redrive |
| Bridge Lambda | `platform/slack/bridge-lambda/` | cached bot token | `handler`/`processRecord`: hourglass, runtime call, post, swap reaction, engage |
| Engaged-threads table | DynamoDB, TTL | one item per thread | bridge puts, verification reads, TTL deletes |
| Allowlist table | DynamoDB | USER and CHANNEL items | verification reads, admin tools put and delete |
| Webhook Lambda | `platform/webhook/handler-lambda/` | cached signing secret | verify, parse, synchronous runtime call |
| Agent runtime | `agent-runtime/main.py` | thread-local invocation context | `handler`: context, history, toolset, agent loop, save |
| Session store | `agent-runtime/session_store.py` | history per thread | `load_history`, `save_history` |
| Destructive guard | `agent-runtime/destructive_guard.py` | none | refuses an unconfirmed destructive call |
| Admin tools | `agent-runtime/admin_tools.py` | writes the allowlist | add, remove, list |
| Gateway tools | `agent-runtime/gateway_tools.py` | cached OAuth token, lock | token refresh, tool listing |
| Capabilities | `agent-runtime/capabilities.py`, `lib/capability-registry.ts` | registry cache, session cache | resolve role, assume role; synth-time grants |
| Tool discovery | `agent-runtime/tools/discovery.py`, `lib/tool-manifests.ts` | tool list | scan manifests, register, filter by scope |
| Stacks | `lib/`, `bin/` | none at run time | synthesize queues, tables, roles |

Slack posts an event to the verification Lambda, which decides whether the agent
should see it and sends it to the queue, grouped by thread.  The bridge is the
queue's only consumer, one message at a time; it calls the runtime, posts the
answer in the thread and writes the engaged-threads table, which the
verification Lambda reads to accept follow-ups without a mention.  The runtime
loads the thread's history, runs the model with the tools the invocation may
use, and saves the history.  The webhook Lambda calls the same runtime
synchronously, without the queue.

### What is hard

* **Interleavings.** Several bridge environments, redelivery by timers while an
  earlier invocation may still run, verification handlers racing with the
  allowlist and the engaged-threads table, runtime invocations of one thread
  overlapping (webhook callers, or an invocation that outlives its bridge).
* **Failure.** A crash or timeout between any two awaited calls; calls that take
  effect and throw; calls that return `{ok: false}`; lost acknowledgements;
  at-least-once redelivery of work that already happened.
* **Ordering.** Replies in a thread; the two copies (`app_mention`, `message`)
  Slack sends for a mention; retries of Slack against the dedup window.
* **Staleness.** Secrets and tokens cached for the life of an environment, an
  allowlist decision taken before the message waits in the queue, TTL items that
  outlive their expiry, `GetItem`s without `ConsistentRead`, which may return what
  was overwritten or deleted before they began.


## 2. What makes each part correct

| Part | Correct when |
|---|---|
| Queue and bridge | one invocation per thread; replies in the order of the messages; nothing deleted unanswered; bounded repetition; every message settles |
| Reactions, engagement | a check mark and an engagement only after a reply |
| Verification | one queue message per post; an acknowledged mention is not lost; nothing from a user or channel never allowed; no thread joined uninvited |
| Agent runtime, session store | of turns that do not overlap and read the current item, none lost; an invocation reads its own context; a destructive tool runs only in a confirmed invocation |
| Gateway tools, capabilities | no expired credential handed out; a role the runtime resolves was granted at synth time |
| Tool discovery | a tagged tool is guarded; a scoped tool is seen in its scopes only; both manifest readers agree |
| Webhook | a signed request acts within its replay window; callers' retries repeat no more than they say |

`PROJECT.json` lists the hazards of the code line by line, with the properties
that would catch each and a note where none does yet.

## 3. The modules and the code

### EventsQueue

SQS as `lib/platform-stack.ts` (63-77, 172) configures it.  A message group is a
Slack thread.  `log[t]` is everything ever accepted for a group and `head[t]`
points at the oldest message still there, so history needs no extra variable.
`receives[t]` and `age[t]` describe the head only: in a FIFO queue with batch
size 1 no other message of a group can be in flight.  `dlq[t]` holds indices into
the log; `recent` is the content-based deduplication set.  Operators, not
actions: `Enqueue`, `ForgetDuplicate`, `Receive`, `Delete` (valid only with the
receipt handle of the current receive), `BecomeVisible`, `Redrive`,
`AgeInFlight`.  The other modules build their actions from them.

### SlackBridge

One environment `e` of the bridge runs at most one invocation.  `pc[e]` names the
awaited call of `processRecord` it stands before, `job[e]` the record with its
receipt handle.

| Action | Code (`bridge-lambda/index.ts`) |
|---|---|
| `Start` | the event source invokes `handler` with one record |
| `BeginRecord`, `GetBotTokenFails` | `getBotToken` and the early returns of `processRecord` |
| `AddThinking` | the hourglass, best effort |
| `InvokeRuntime`, `RuntimeAnswers`, `RuntimeFails` | the `try` around `agentCore.send` |
| `SwapToError`, `SwapToDone` | `swapReaction`: two parallel best-effort calls, in either order |
| `PostError` | the error post, then `throw err` |
| `PostReply`, `PostReplyThrows` | the reply; `{ok: false}` is a return without an effect |
| `RecordEngagement` | `recordEngagement`, failures swallowed |
| `Acknowledge`, `AcknowledgeLost` | the handler returns; the event source deletes, or the delete is lost |
| `Crash`, `TimeOut` | the environment dies at any place |
| `Send`, `Forget`, `Expire`, `DeadLetter`, `EngagementExpires`, `Tick` | the sender, the queue, DynamoDB's TTL, time |

Every call into Slack has an effect or not and returns or throws, independently.
`answered` and `invoked` are history variables.  `invoked[t]` counts the calls
the handler makes; a repetition of the request inside the AWS SDK's transport is
not counted.

### ThreadReplies

The abstract specification: a thread's questions have their turn one at a time,
in order; the bot speaks only about the one that has its turn, at most
`MaxSpeeches` times; every turn passes on.  `SlackBridge!Replies` instantiates it
with `asked <- log`, `turn <- head` and the transcript of posted message numbers.

### Verification

A handler `h` runs one delivery of a body.  `FirstStop(b)` is everything the
handler decides before its first await; `pc[h]` then names the await it stands
at: `engagement` (`getEngagement`), `classify` (`isAddressedToBot`), `allowlist`
(`isAllowlisted`, two parallel reads, `reads[h]` those pending), `send`.

| Action | Code |
|---|---|
| `Deliver` | Slack calls `handler` (55-109 of `verification-lambda/index.ts`), first time or retry |
| `GetEngagement`, `Classify`, `ReadAllowlist` | `engaged-threads.ts`, `engagement-classifier.ts`, `allowlist-check.ts` |
| `SendMessage` | 117-128, followed by the 200 |
| `Fail` | a rejected call, the 8 s timeout, the end of the environment: no 200 |
| `Allow`, `Disallow` | `agent-runtime/admin_tools.py` |
| `RecordEngagement`, `ItemExpires`, `TtlDelete` | the bridge's put; `expires_at` passing; DynamoDB's later delete |
| `CatchUp` | external: what was last written of one key reaches the lagging copy of its table |
| `Forget` | the end of the deduplication interval |

Neither read of the handler asks for consistency (`allowlist-check.ts:28`,
`engaged-threads.ts:26`).  `copy` is what a copy of the two tables holds; it catches
up key by key, at any time or never.  A read finds what the table or the copy
holds (`Found`) and misses what either lacks (`Missed`), so an entry deleted before
the handler began may still let a message pass, and a new one may be overlooked.
`Managed` bounds the entities the admin tools are asked about.

`MayAck` models the three seconds Slack waits: a 200 counts as received or not.
A body is an event of Slack and its retries have the same body, which is what
content-based deduplication sees.  `seen` (the entries that the table or its copy
has held since the handler began) and `forgotten` are history variables.  The bridge appears only as the writer of the engaged-threads table:
it may write for any thread it could have received a message of.

The request before the verified event (signature, handshake, malformed bodies) is
in FrontDoor.

### SlackSystem

The two Lambdas on one queue and one engaged-threads table, as
`lib/platform-stack.ts` wires them.  `Bridge` and `Verification` are instances of
the two modules with `log`, `recent` and `engaged` in common; what each leaves
open is supplied by the other.

| Action | Steps |
|---|---|
| `VerificationStep` | deliveries and handlers of the verification Lambda, the admin tools, the deduplication interval, the table's TTL, the copies that catch up |
| `BridgeStep` | the event source, the queue's timers and the bridge up to its last call |
| `Engage` | the bridge's put, which starts the life of the item anew (`index.ts` 172-198) |

`Verification` sees a queue that only grows; its `stale` (items past `expires_at`)
belongs to the table and so to the composition.  `ImplementsBridge` and
`ImplementsVerification` say that the two modules' environments, a sender and a
writer of engagements that do as they please, cover the real ones: what is checked
and proved of one Lambda alone is true of the system.  The instances are of the
modules with the proofs, so that their theorems can be cited of the system;
`BridgeAssumption` and `VerificationAssumption` are the assumptions those rest on.
`Managed` and `Forgettable` bound the entities that admins edit and the bodies that
leave the deduplication set.

### FrontDoor

Both HTTP doors up to the accepted signature, and the webhook Lambda to its end.
An environment `e` of the Lambda behind a door has its own `cachedSigningSecret`.

| Action | Code |
|---|---|
| `Post` | `handler` up to its first await: no body, and at the Slack door bad JSON and `url_verification`, are answered at once |
| `Check` | `getSigningSecret`, `verifySlackSignature` / `verifyWebhookSignature`, parsing; a 401, a 400, or a call of the runtime |
| `Fail`, `Reply` | Secrets Manager or the runtime fails; the runtime's reply becomes the 200 |
| `GiveUp`, `Recycle`, `Tick` | the API's integration limit; the Lambda's timeout and the end of an idle environment; time |
| `Rotate` | an operator stores a newer secret, perhaps the one the other door has |

The HMAC is taken to match for exactly the scheme and the secret a request was
signed with, which is an assumption about the two schemes and not a result; the version prefix, the two-sided window and the cache are modelled
as they are.

### AgentRuntime

A worker `w` is a Python thread that runs `handler` (`agent-runtime/main.py`);
`turn[w]` numbers its invocation, `context[w]` is its thread-local
`invocation_context`, `prior[w]` the history it has loaded.

| Action | Code |
|---|---|
| `Begin` | 146-170: the payload's fields, `reset`, the assignments |
| `Load` | `load_history` and the snapshot: any version of the item a copy still holds |
| `CallDestructive`, `CallAdminTool` | whatever the model chooses: `wrap_destructive`, `admin_tools.py` |
| `Reply`, `Save` | the agent returns; `save_history` puts the whole item |
| `Raise`, `Die`, `Expire` | an exception, the end of the container, the item's TTL |
| `Propagate` | external: the last copy that held an old version of an item lets go of it |

`ToolThreads` says on which thread of the agent library a tool may run: the
handler's, or another one, which sees the defaults of the thread-local object.
`Serial` says whether the adapters keep turns of a thread apart.  The `get_item` of
`session_store.py:35` is eventually consistent: `readable[t]` are the versions of
the thread's item that it may return, the current one among them.  A turn that
loads an older one drops, with its put, the turns in between, even when no two
turns overlap.  `settled[w]` records whether `w` loaded when only the current
version was left.  `destroyed`, `added` and `settled` are history variables.

### CapabilityRegistry, AgentStack, CapabilitySessions

`CapabilityRegistry` has no variables: one registry file and its two readings,
`lib/capability-registry.ts` (`autoGrantReads`, `Loads`, `Resolves`,
`resolveAssumeRoleArns`) and `agent-runtime/capabilities.py` (`auto_grant_reads`,
`resolve_role_arn`).  It keeps the places where the YAML parsers read the same
text differently; `Divided(f, c)` names the one that matters for a capability: of the flag `off` the
stack makes true, and grants a read no role, and the container false, and resolves one.

`AgentStack` composes it with the manifests.  `EditRegistry` and `EditTool` change
the working tree, `Deploy` is synth and deployment: `loadToolManifests` and the
constructor of `lib/agent-stack.ts`, each throw of theirs, CloudFormation's
refusal of a secret name used twice, and the old stack staying on failure.  Its
environment, readable secrets, statements and assumable roles are compared with
what `discover_tools` registers in the container of the same deployment.  Manifests
are aggregated by directory, in the order of names and then of paths (`Before`):
where several declare one variable, the last of them stays.

`CapabilitySessions` composes it with time and threads: `get_session` as `Call`,
`Acquire` and `Parse` (the double-checked lock), `Lookup` (the unlocked cache),
`AssumeRole` and `Store`.

### GatewayTools

`gateway_tools.py`: `ReadClock` is `_bearer_token` before the lock, `Acquire`,
`Fetched` and `FetchFails` what happens under it, `Issue` the identity provider,
`Connect` the opening of the MCP session and the listing of its tools with either
failing, `Leave` the end of the exit stack.  `Ttl` is how long a token lives and
`StatedTtl` what the code dates it with: `expires_in`, or 3600 s where the provider
leaves the field out (`gateway_tools.py:77`).

## 4. The runs

Instances are small sets of model values; handlers and environments are
symmetric.

| Run | Instance | Question |
|---|---|---|
| `bridge_thread` | 1 thread, 2 bodies (one ignored), 2 environments, 2 receives, 2 messages | one invocation per thread, order, nothing acknowledged unanswered, nothing released under a running invocation, bounded repetition, honest check marks and engagement |
| `bridge_liveness` | 1 thread, 1 environment, fair | does every message settle; is `ThreadReplies` implemented? |
| `verification` | 2 handlers, both copies of an admin's mention and a guest's follow-up, 2 deliveries each, 2 messages, admins editing the guest's and the channel's entries, tables whose copies lag | duplicates, the allowlist gate; the invariant has lost mentions and uninvited follow-ups |
| `slack_system` | 1 handler, 1 environment, an admin's mention, a follow-up the bridge can process, another app's post in the thread (`bot_id`), 1 delivery and 1 receive each, 2 messages, fair | do follow-ups come only after a message whose reply call returned; does the bot speak or react only where a person spoke to it; is an acknowledged mention never lost, and gone from the queue in the end; does each Lambda behave as its own module says? |
| `doors` | 1 environment and 2 secrets per door, requests of either scheme, secret and stamp | secrets across rotations, replays |
| `runtime` | 2 workers, 2 threads, 2 callers, four kinds of request, tools on any thread, 3 turns, never two of one thread, stale loads | does a confirmation or a principal leak between turns; is a transcript in order, and complete after a load of the current item? |
| `stack_grants` | 2 capabilities, bindings of every shape, the flag absent, `false` or `off`, 2 directories, invalid, shadowed, unimportable and unregistered tools, contested variables | are the granted roles those the container assumes, and no others; is what it registers provisioned? |
| `sessions` | 2 threads, a read and a write capability, sessions of 3 ticks, a good and a malformed file, fair | does the cache hand out another's or an expired session; is the file read once; does every caller get past the lock? |
| `gateway` | 3 invocations, tokens of 8 ticks dated as 7, requests of up to 2, fair | is a token dated and refreshed conservatively; does every invocation reach its agent? |

Three more runs (`runtime_overlap`, `doors_inline`, `stack_tags`) end with a
counterexample, see below.

Why the bounds suffice.  A violation of one-per-thread or of order needs two
invocations and two messages of a thread; one of the repetition bounds needs one
message and all its receives.  `VisibilityTimeout = 2 > LambdaTimeout = 1` is the
smallest pair with the order of 720 s and 120 s, and the proofs need nothing else
of them.  The code's `maxReceiveCount` is 3; with 2 there is a first receive, a
repeated one and a redrive.  `slack_system` has one receive and one delivery of
each event, enough for crashes, redrives and expiries on both sides of the queue;
redelivery is in the runs of the two Lambdas, and in the proofs of
`SlackSystem_proofs`, which have no bounds.  With one
delivery each nothing comes twice, so no body needs to leave the deduplication set,
and with an admin as the only author the allowlist is not consulted (`Forgettable`
and `Managed` are empty); `verification` has both.  Bodies the bridge cannot process
are in `bridge_thread`.  A second thread is left to
the proofs.  A duplicate in the queue needs two deliveries and two concurrent
handlers.  `MaxLog` and `MaxDeliveries` only cut off repetitions; the theorems
hold for every value.  The runtime's runs need two
workers, because a leak or a lost turn needs two invocations, and one more turn
than threads to reuse a worker.  The token needs three invocations: one that
reads the clock and waits, one that fails while holding the lock, one that
fetches.  The registry needs two threads, for the second test of the lock.  The
stack needs a directory that shadows another.  At
the doors, `Skew`, the timeouts and `ApiLimit` keep the order of 300 s, 120 s and
30 s, with stamps on both edges of the window.

Deadlock checking is off where the system stops once the bounds are used up and
everything is idle: the runs of SlackBridge, Verification, SlackSystem,
GatewayTools and FrontDoor.

Each property is paired in `PROJECT.json` with a mutant (an operator `Bug_...`
next to the definition it replaces) that TLC must refute: a visibility timeout
below the Lambda's, an error branch that does not rethrow, a test missing inside
a lock, one context for all threads, a redrive off by one, a 200 after a failure,
and so on.

### Fairness and scheduling

* `bridge_liveness` assumes only what the platform provides: time passes, a
  timed-out invocation is killed, an expired message becomes visible, a visible
  message is received by some idle environment, or dead-lettered once its receives
  are used up (weak fairness of `Tick`, `TimeOut`, `Expire`, `Start`,
  `DeadLetter`).  Nothing is assumed of the handler: it may hang in any call, which
  is the worst case for liveness.
* `slack_system` assumes the same of the queue and of the bridge's environments
  (`Bridge!Fairness`), and nothing of Slack or of any handler.
* `sessions` assumes that threads are scheduled and calls of boto3 end (weak
  fairness of a thread's steps), and that nobody starves at the registry's lock
  (strong fairness of `Acquire`).  Each thread holds the lock once at most after
  the file has loaded, so starvation would take a file that keeps raising.
* `gateway` assumes weak fairness of each invocation's steps, that is, that a
  request for a token ends.  `urlopen`'s timeout of 10 s bounds each socket operation
  and not the request: a provider that trickles its answer could hold the lock longer.
* GatewayTools lets time pass only while somebody waits for the network, up to
  `MaxFetch` per request (an assumption about the provider): what a thread does between two awaits takes no time next
  to a buffer of 60 s.  `RefreshedBeforeExpiry` needs it, and needs it to be about
  requests: the time read before the lock is old by all the requests waited for.
* AgentRuntime's `Serial` is the bridge's promise (`OneBridgePerThread`) as long
  as the runtime's turn ends with its bridge invocation and no webhook caller uses
  the thread.  `runtime_overlap` shows what happens otherwise.

### Where comments and code differ

Three runs end with a counterexample, on purpose.

| Run | The comment | The code |
|---|---|---|
| `stack_tags` | "Runtime wraps the tool in a confirmation guard" (`tools/MANIFEST.md:68`) | `tags: destructive`, a scalar, registers the tool unguarded (`discovery.py:167`) |
| `runtime_overlap` | "multi-turn conversations resume cleanly" (`session_store.py:5`) | of two overlapping turns the later put drops the other's (`main.py:210`); so does a turn that loaded an old copy of the item (`session_store.py:35`), which `SettledTurnsAreKept` has as its hypothesis |
| `doors_inline` | "return the reply inline" (`platform-stack.ts:176`) | the Lambda may take 120 s (`platform-stack.ts:189`), the API ends the call after 30 s |

Modelling met further places where a comment says more than the code does.  No run
shows them; the models follow the code.

* Engagement "only after a successful reply" (`bridge-lambda/index.ts:170`): the
  result of `postMessage` is not looked at, so a refused reply engages its thread.
  `EngagedOnlyAfterAnswer` and `FollowupsFollowReplies` therefore count a refused
  reply as an answer.
* "hourglass -> check or x" (`bridge-lambda/index.ts:66`): a message that failed
  and was redelivered ends with both.
* "True iff BOTH ... have explicit allowlist entries" (`allowlist-check.ts:41`):
  two reads at two times, each of a copy that may lag; `QueuedOnlyIfAllowedMeanwhile`
  states what holds: each entry was in the table or its copy at some time since the
  handler began.
* "They lose invocation access immediately" (`admin_tools.py:84`): a handler past
  its read, and the queue behind it, do not look again, and a handler that begins
  later may still read a copy that has the entry.
* The ack "which we send before classifier latency" (`lib/platform-stack.ts:110`):
  the 200 is returned after the classifier.
* "replied in this thread within the TTL" (`routing.ts:17`): presence of the item,
  which is deleted some time after its expiry.
* "IAM is in sync with what's permitted" (`capabilities.py:11-13`) and "flip
  auto_grant_reads off" (`agent-stack.ts:213`): the spelling `off` is a true string
  to the stack (`capability-registry.ts:57`) and false to the container
  (`capabilities.py:84`), which then assumes a role nobody granted.  `stack_grants`
  has this spelling, and `ResolvedRolesAreGranted` and
  `RegisteredToolsAreProvisioned` name it as their exception (`Divided`).
* A secret's `env` is what its "ARN gets injected as" (`tool-manifests.ts:26`):
  another secret declared for that variable, or a manifest's literal of that name,
  replaces it (`agent-stack.ts:67`, `121-122`); `RegisteredToolsAreProvisioned` has
  that exception (`Contested`).
* "only a follow-up turn with explicit confirmation lets it through"
  (`tools/MANIFEST.md:71`): the flag of the current request is all that counts
  (`destructive_guard.py:65`), asked or not.

## 5. What is proved

With TLAPS, for every value of the constants that satisfies the named
assumptions (`TimeoutAssumption`: the Lambda timeout is below the visibility
timeout; `CopiesAssumption`: Slack's two copies of a post are an `app_mention`
and a `message` that carries the mention; `RegistryAssumption`, `SessionsAssumption`
and their like are types and distinctness).  Bounds on exploration are constants
as well: the theorems hold whatever their values.

`SlackBridge_proofs`:

* `TypeCorrect`, `OneBridge`, `OrderedReplies`, `ReleasedOnlyWhenIdle`,
  `InvocationsBounded`, `NothingUnanswered`, `CheckMarkHonest`,
  `EngagementEarned`, `BridgeCorrect`, `PostsAreBounded`, `RepliesAreSafe`.
* The argument.  `OneBridgePerThread` is not inductive: nothing in it says why a
  message in flight is not offered again.  `ControlInv` adds that a running
  invocation holds the current receive of its thread's head and that the
  message's age is the invocation's (`HoldsHead`).  `elapsed <= LambdaTimeout <
  VisibilityTimeout` then excludes `BecomeVisible` under a running invocation,
  hence a second `Receive` or a `Redrive`.  On top of it `ProgressInv` records what
  each place in `processRecord` has already done, and `NoSpeechAhead` that nothing
  is posted about a message still to come; with these, order, answers, check marks
  and the bound on runtime calls follow step by step.  `CountInv` bounds the posts
  about the head by its receives, one less while an invocation has still to post.
  `SilenceInv` says that an invocation past the early returns has a message it must
  answer, and that whatever is posted or reacted to was such a message.
  `RepliesAreSafe` is the refinement: a post is `Speak`, a deletion or a redrive is
  `PassTurn`, everything else stutters.

`Verification_proofs`:

* `VerificationTyped`, `OneMessage`, `AcknowledgedIsQueued`, `OpensWithMention`,
  `AllowedMeanwhile`, `InvHolds`.
* The argument.  `StageInv` says what a handler's place implies about its body: it
  is routable; at `engagement` and `classify` it is a follow-up; a follow-up past
  `engagement` has a non-empty log in its thread.  `LogInv` says that queued
  bodies are routable and either in the deduplication set or forgotten by it.  Of
  two copies of a post at most one is routable (`OneCopyRoutable`), so a second
  queue message of a post is the same body after it was forgotten.  `SeenInv`
  carries the allowlist reads: an entry no longer pending was held by the table or by
  its copy at some time since the handler began, and whatever either holds now is
  among those.

`SlackSystem_proofs`:

* `FollowupsAreInvited`, `BridgeIsImplemented`, `VerificationIsImplemented`,
  `LambdasAreSafe`, `SystemConverses`, `MentionsNotLost`, `SpokenTo`, `AnsweredOnce`.
* The argument for the first three.  `FollowupsFollowReplies` crosses both Lambdas: a handler reads an
  item, and queues long after.  `SInv` keeps the two facts that bridge the gap: a
  thread with an item, in the table or in its copy (`Items`), has an answered message
  (`BridgeKnows`), and a handler past the lookup with a follow-up is in such a thread
  (`HandlerKnows`).  `answered`
  only grows and lies within the log, so whatever is appended comes later.  For
  the refinements, `BridgeSteps` and `VerificationSteps` show each step of the
  system to be a step of the one Lambda's module or a stutter; the queue's
  abstraction as one that only grows needs no invariant, the table's items that
  are past their expiry need `stale` to be within `engaged` (`StaleInv`).
* What follows.  `LambdasAreSafe` takes the theorems of the two Lambdas over to the
  system through the refinements, and with them `SystemConverses` its whole
  behaviour as a conversation of `ThreadReplies`.  The properties of the system as
  its users see it need both sides.  `MentionsNotLost`: Verification puts an
  acknowledged mention into the log, and the bridge's head passes it only when it is
  answered, dead-lettered or has nothing to answer.  `SpokenTo`: the bridge shows
  something only about messages of the log, and those are routable, in a thread that
  opens with a mention.  `AnsweredOnce`: the log has one message for a post in Slack
  (`OneMessagePerPost`), so the bridge's bound per message is one per post.  It has
  one exception, a post whose message left the deduplication set and that Slack
  retried after that; `PostsPerSlackPost` says so (`Remembered`).

`AgentStack_proofs`: `StackTyped`, `GrantsAreNeeded`, `GrantsCover` and
`RegisteredToolsProvisioned`, for every registry file and every spelling of the
flag, with the exception of `Divided` capabilities in the properties themselves.  The
invariant keeps in `stack` what `Deployed` made of a tree that passed `Synthesizes`:
a role the container resolves is one `resolveAssumeRoleArns` collects.  A registered
tool is among the loaded manifests (`RegisteredIsLoaded`), so its secrets and
statements are granted; of a variable that is not contested there is one
declaration (`SoleDeclaration`, from `SecretsDistinct`), so the choice of the last
one is it; and a tree that synthesizes resolves each of its capabilities
(`CapabilityHasSession`).

`CapabilitySessions_proofs`: `SessionsTyped`, `SessionsMatch`,
`RegistryParsedOnce`, `CachedLive`.  The invariant ties an entry of the cache to
the role of its key and to STS's own expiry, which is what makes the unlocked
cache harmless: whoever overwrites an entry puts one as good.  For the lock, the
thread at `parse` owns it and nothing is loaded yet.

`GatewayTools_proofs`:

* `GatewayTyped`, `Conservative`, `RefreshedInTime`, `RefreshedBefore`.
* The argument.  The time an owner read is not after the issue of the token it waits
  for, so the cache never believes too much.  That a token has the buffer left when
  it is used is harder, as the code judges it by the time from before the wait for
  the lock.  `FreshInv`: a token issued more than one request before that time
  (`Old`) that a waiting invocation could still use is one everybody could use, so
  that nobody has a request in flight and no time has passed since; and so it is at
  the connection.  A younger token is only near its end if the invocation waited
  nearly as long as a token lives, less the buffer and one request:
  `RefreshedInTime`, for any number of invocations.
* `RefreshedBefore` excludes that wait by `ContentionBound`: the requests of all
  invocations, one after the other, fit into the life of a token less the buffer.
  `WaitBounded` counts them: each invocation sends at most one request, so what a
  waiting invocation may still wait for shrinks with every one sent.  The hypothesis
  is needed in some form, because `threading.Lock` is not a queue and a waiter can be
  overtaken for ever.  If a request takes no more than 10 s,
  it allows with the code's buffer of 60 s and a token of an hour more than 350
  invocations in the life of a container.  `GatewayAssumption` has `StatedTtl <= Ttl`: a provider that leaves `expires_in`
  out is taken to issue tokens of an hour or more.  The run is beyond `ContentionBound` (tokens of 8 ticks, 3 requests of 2, a buffer of
  3), so TLC finds the property to hold there as well.

`AgentRuntime_proofs`: `RuntimeTyped`, `DestructionConfirmed`, `AddedInOwnName`
for any adapters; `TranscriptOrdered` and `TurnsKept` under `Serial`.  `IInv` adds
to the two safety properties that a busy worker's context is its own request's;
`SInv` adds that busy workers are in different threads, that every version a copy
holds is of turns before the one at work, and that the history of a settled load is
still the item's, or the item has expired since.  `TranscriptOrdered` needs no
settled load: a stale one has gaps and is in order.

`FrontDoor_proofs`: `FrontDoorTyped`, `RetiredRefused`,
`TurnsNearStamp`.  A cached secret is none older than `oldest`; an invocation's
start is not before its request's window and its signature was checked within the
timeout.

TLC checks the bridge's and the verification Lambda's inductive invariants
(`BridgeInv`, `VerificationInv`) as well; `BridgeTypeOK`, `DoneMeansAnswered`,
`EngagedOnlyAfterAnswer`, `SpeaksOfReceived`, `VerificationTypeOK`,
`AcknowledgedMentionIsQueued` and `ThreadsOpenWithMention` are conjuncts of them and
have no run of their own.

Only model-checked: the liveness properties `EveryMessageSettles`,
`AcknowledgedMentionSettles`, `EveryCallEnds` and `EveryAgentRuns` and the liveness part of
`ImplementsThreadReplies`, which are out of the prover's reach.  Every safety
property that a passing run checks is a theorem.

## 6. Plan

1. AgentRuntime in the composition: a turn that outlives its bridge meets its own
   redelivery, and `Serial` becomes a consequence of the queue instead of a constant.
2. The versions of a bot token across a rotation, as FrontDoor has them for the
   signing secrets.
3. The scope filter of `main.py`.

## 7. What is not modelled, and why

* Text: mention stripping, Markdown translation, the test whether a message is a
  confirmation, prompts, the classifier's prompt and answer (its verdict is a free
  choice), the arithmetic of HMAC, the padding of webhook session ids.
* Of the runtime: model construction, prompts, the scope filter on the toolset
  (`filter_for_invocation`), which selects from the list and changes nothing.
* Of the manifests: package-form modules, environment values that are not strings,
  the camel case of logical ids.
* Bot tokens across a rotation: a token is held or not, without a version.
* Repetitions of a request inside the AWS SDKs.
* Outputs, names and model ids of the stacks; the Gateway target construct, which
  only chooses a library call; operator scripts.  Example tools: stateless calls
  of a cloud API.
* The loss of a message by SQS itself, and the retention period of the queue.
