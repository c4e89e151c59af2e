---------------------------- MODULE SlackBridge ----------------------------
(***************************************************************************)
(* The Slack-bridge Lambda (platform/slack/bridge-lambda/index.ts) on the  *)
(* events queue.  An execution environment receives the head of a group,   *)
(* and runs processRecord: a hourglass reaction on the user's message, the *)
(* runtime call, the reply, the final reaction, the engagement record.     *)
(* Each awaited call is one action, so that other environments, a crash,   *)
(* the Lambda timeout and the queue's own timers can come in between.      *)
(*                                                                         *)
(* A Slack call has an effect or not, and returns or throws, independently *)
(* of each other: postMessage returns {ok: false} for a post Slack refused *)
(* and throws when the answer to an accepted post is lost.                 *)
(***************************************************************************)
EXTENDS EventsQueue, FiniteSets

CONSTANTS
  Environments,   \* Lambda execution environments of the bridge
  Unprocessable,  \* bodies processRecord returns from before any call
  LambdaTimeout   \* ticks after which Lambda kills an invocation (120 s)

ASSUME ThreadsAssumption == Threads # {}
ASSUME UnprocessableAssumption == Unprocessable \subseteq Bodies

\* The bridge's timeout (120 s) is below the queue's visibility timeout.
ASSUME TimeoutAssumption ==
  LambdaTimeout \in Nat \ {0} /\ LambdaTimeout < VisibilityTimeout

VARIABLES
  pc,              \* pc[e]: where the invocation in environment e stands
  job,             \* job[e]: the record it was invoked with
  elapsed,         \* elapsed[e]: ticks since the invocation started
  swaps,           \* swaps[e]: calls of swapReaction not yet finished
  cachedBotToken,  \* environments whose module holds the bot token
  reactions,       \* reactions[b]: the bot's reactions on b's Slack post
  posts,           \* posts[t]: what the bot posted to thread t, in order
  engaged,         \* threads with an item in the engaged-threads table
  answered,        \* answered[t]: messages whose reply post returned (history)
  invoked          \* invoked[t]: runtime calls for the head of t (history)

slackVars == <<reactions, posts, engaged, answered>>
lambdaVars == <<pc, job, elapsed, swaps, cachedBotToken>>
vars == <<queueVars, lambdaVars, slackVars, invoked>>

Thinking == "hourglass_flowing_sand"
Done == "white_check_mark"
Error == "x"
Reactions == {Thinking, Done, Error}

\* A post of the bot: the message it is about, and what it is.
Postings == [n : Nat, kind : {"reply", "error"}]

PCs == {"idle", "token", "hourglass", "invoke", "await", "errorSwap",
        "errorPost", "post", "doneSwap", "engage", "returned"}

Jobs == [thread : Threads, n : Nat, receipt : Nat]
NoJob == [thread |-> CHOOSE t \in Threads : TRUE, n |-> 0, receipt |-> 0]

Running(e) == pc[e] # "idle"
Body(e) == log[job[e].thread][job[e].n]
Thread(e) == job[e].thread

(***************************************************************************)
(* Every variable keeps its type; above all no message is received more    *)
(* than maxReceiveCount times and no invocation outlives LambdaTimeout.    *)
(***************************************************************************)
BridgeTypeOK ==
  /\ QueueTypeOK
  /\ pc \in [Environments -> PCs]
  /\ job \in [Environments -> Jobs]
  /\ elapsed \in [Environments -> 0..LambdaTimeout]
  /\ swaps \in [Environments -> SUBSET {"remove", "add"}]
  /\ cachedBotToken \in SUBSET Environments
  /\ reactions \in [Bodies -> SUBSET Reactions]
  /\ posts \in [Threads -> Seq(Postings)]
  /\ engaged \in SUBSET Threads
  /\ answered \in [Threads -> SUBSET Nat]
  /\ invoked \in [Threads -> Nat]

Init ==
  /\ QueueInit
  /\ pc = [e \in Environments |-> "idle"]
  /\ job = [e \in Environments |-> NoJob]
  /\ elapsed = [e \in Environments |-> 0]
  /\ swaps = [e \in Environments |-> {}]
  /\ cachedBotToken = {}
  /\ reactions = [b \in Bodies |-> {}]
  /\ posts = [t \in Threads |-> <<>>]
  /\ engaged = {}
  /\ answered = [t \in Threads |-> {}]
  /\ invoked = [t \in Threads |-> 0]

-----------------------------------------------------------------------------
(* The queue around the bridge. *)

Send(b) == Enqueue(b) /\ UNCHANGED <<lambdaVars, slackVars, invoked>>

Forget(b) == ForgetDuplicate(b) /\ UNCHANGED <<lambdaVars, slackVars, invoked>>

Expire(t) == BecomeVisible(t) /\ UNCHANGED <<lambdaVars, slackVars, invoked>>

DeadLetter(t) ==
  /\ Redrive(t)
  /\ invoked' = [invoked EXCEPT ![t] = 0]
  /\ UNCHANGED <<lambdaVars, slackVars>>

(***************************************************************************)
(* Time passes for every message in flight and every running invocation.   *)
(* It never passes an invocation's timeout: Lambda kills it first.         *)
(***************************************************************************)
Tick ==
  /\ \E t \in Threads : age[t] \in 0..(VisibilityTimeout - 1)
  /\ \A e \in Environments : Running(e) => elapsed[e] < LambdaTimeout
  /\ AgeInFlight
  /\ elapsed' = [e \in Environments |->
                   IF Running(e) THEN elapsed[e] + 1 ELSE elapsed[e]]
  /\ UNCHANGED <<log, head, receives, dlq, recent>>
  /\ UNCHANGED <<pc, job, swaps, cachedBotToken, slackVars, invoked>>

-----------------------------------------------------------------------------
(* One invocation of the bridge. *)

Goto(e, place) ==
  /\ pc' = [pc EXCEPT ![e] = place]
  /\ UNCHANGED <<job, elapsed, swaps>>

Finish(e) ==
  /\ pc' = [pc EXCEPT ![e] = "idle"]
  /\ job' = [job EXCEPT ![e] = NoJob]
  /\ elapsed' = [elapsed EXCEPT ![e] = 0]
  /\ swaps' = [swaps EXCEPT ![e] = {}]

\* The event source hands the head of group t to an idle environment.
Start(e, t) ==
  /\ ~Running(e)
  /\ Receive(t)
  /\ pc' = [pc EXCEPT ![e] = "token"]
  /\ job' = [job EXCEPT ![e] = [thread |-> t, n |-> head[t],
                                receipt |-> receives[t] + 1]]
  /\ UNCHANGED <<elapsed, swaps, cachedBotToken, slackVars, invoked>>

\* The handler holds the bot token; the record is parsed and may be ignored.
BeginRecord(e) ==
  /\ pc[e] = "token"
  /\ cachedBotToken' = cachedBotToken \cup {e}
  /\ Goto(e, IF Body(e) \in Unprocessable THEN "returned" ELSE "hourglass")
  /\ UNCHANGED <<queueVars, slackVars, invoked>>

\* The secret cannot be read; a warm environment does not ask for it again.
GetBotTokenFails(e) ==
  /\ pc[e] = "token"
  /\ e \notin cachedBotToken
  /\ Finish(e)
  /\ UNCHANGED <<queueVars, cachedBotToken, slackVars, invoked>>

\* The working indicator, best effort.
AddThinking(e) ==
  /\ pc[e] = "hourglass"
  /\ \/ reactions' = [reactions EXCEPT ![Body(e)] = @ \cup {Thinking}]
     \/ UNCHANGED reactions
  /\ Goto(e, "invoke")
  /\ UNCHANGED <<queueVars, cachedBotToken, posts, engaged, answered, invoked>>

\* InvokeAgentRuntime is sent ...
InvokeRuntime(e) ==
  /\ pc[e] = "invoke"
  /\ invoked' = [invoked EXCEPT ![Thread(e)] = @ + 1]
  /\ Goto(e, "await")
  /\ UNCHANGED <<queueVars, cachedBotToken, slackVars>>

\* Bug: the thread is engaged before its reply is posted.
Bug_EngageBeforePost(e) ==
  /\ pc[e] = "await"
  /\ engaged' = engaged \cup {Thread(e)}
  /\ Goto(e, "post")
  /\ UNCHANGED <<queueVars, cachedBotToken, reactions, posts, answered, invoked>>

\* ... and answered (an empty answer is posted as "(no response)") ...
RuntimeAnswers(e) ==
  /\ pc[e] = "await"
  /\ Goto(e, "post")
  /\ UNCHANGED <<queueVars, cachedBotToken, slackVars, invoked>>

\* Bug: a failed runtime call is retried within the invocation.
Bug_RuntimeRetriedInPlace(e) ==
  /\ pc[e] = "await"
  /\ Goto(e, "invoke")
  /\ UNCHANGED <<queueVars, cachedBotToken, slackVars, invoked>>

\* ... or throws: the error branch starts with swapReaction(ERROR_REACTION).
RuntimeFails(e) ==
  /\ pc[e] = "await"
  /\ pc' = [pc EXCEPT ![e] = "errorSwap"]
  /\ swaps' = [swaps EXCEPT ![e] = {"remove", "add"}]
  /\ UNCHANGED <<job, elapsed, queueVars, cachedBotToken, slackVars, invoked>>

Effect(call, final, old) ==
  IF call = "add" THEN old \cup {final} ELSE old \ {Thinking}

(***************************************************************************)
(* swapReaction: its two calls run in parallel, each best effort; the      *)
(* handler goes on to `next` when both are finished.                       *)
(***************************************************************************)
SwapReaction(e, at, final, next) ==
  /\ pc[e] = at
  /\ \E call \in swaps[e] :
       /\ swaps' = [swaps EXCEPT ![e] = @ \ {call}]
       /\ \/ reactions' = [reactions EXCEPT ![Body(e)] = Effect(call, final, @)]
          \/ UNCHANGED reactions
       /\ pc' = IF swaps[e] = {call} THEN [pc EXCEPT ![e] = next] ELSE pc
  /\ UNCHANGED <<job, elapsed, queueVars, cachedBotToken>>
  /\ UNCHANGED <<posts, engaged, answered, invoked>>

SwapToError(e) == SwapReaction(e, "errorSwap", Error, "errorPost")
SwapToDone(e) == SwapReaction(e, "doneSwap", Done, "engage")

Post(e, kind) ==
  posts' = [posts EXCEPT ![Thread(e)] =
              Append(@, [n |-> job[e].n, kind |-> kind])]

\* Bug: the error branch does not rethrow, so the message is acknowledged.
Bug_ErrorSwallowed(e) ==
  /\ pc[e] = "errorPost"
  /\ Post(e, "error") \/ UNCHANGED posts
  /\ Goto(e, "returned")
  /\ UNCHANGED <<queueVars, cachedBotToken, reactions, engaged, answered, invoked>>

\* The error is reported in the thread, then the handler throws either way.
PostError(e) ==
  /\ pc[e] = "errorPost"
  /\ Post(e, "error") \/ UNCHANGED posts
  /\ Finish(e)
  /\ UNCHANGED <<queueVars, cachedBotToken, reactions, engaged, answered, invoked>>

\* postMessage of the reply returns, with Slack having posted it or refused.
PostReply(e) ==
  /\ pc[e] = "post"
  /\ Post(e, "reply") \/ UNCHANGED posts
  /\ answered' = [answered EXCEPT ![Thread(e)] = @ \cup {job[e].n}]
  /\ pc' = [pc EXCEPT ![e] = "doneSwap"]
  /\ swaps' = [swaps EXCEPT ![e] = {"remove", "add"}]
  /\ UNCHANGED <<job, elapsed, queueVars, cachedBotToken>>
  /\ UNCHANGED <<reactions, engaged, invoked>>

\* Bug: a post that threw is retried within the invocation.
Bug_PostRetriedInPlace(e) ==
  /\ pc[e] = "post"
  /\ Post(e, "reply") \/ UNCHANGED posts
  /\ Len(posts[Thread(e)]) < MaxReceiveCount + MaxLog
  /\ Goto(e, "post")
  /\ UNCHANGED <<queueVars, cachedBotToken, reactions, engaged, answered, invoked>>

\* The call throws, posted or not; nothing catches it and no reaction changes.
PostReplyThrows(e) ==
  /\ pc[e] = "post"
  /\ Post(e, "reply") \/ UNCHANGED posts
  /\ Finish(e)
  /\ UNCHANGED <<queueVars, cachedBotToken, reactions, engaged, answered, invoked>>

\* recordEngagement: a failure is logged and swallowed.
RecordEngagement(e) ==
  /\ pc[e] = "engage"
  /\ engaged' \in {engaged, engaged \cup {Thread(e)}}
  /\ Goto(e, "returned")
  /\ UNCHANGED <<queueVars, cachedBotToken, reactions, posts, answered, invoked>>

\* The handler returned, so the event source deletes the message ...
Acknowledge(e) ==
  /\ pc[e] = "returned"
  /\ Delete(Thread(e), job[e].n, job[e].receipt)
  /\ invoked' = [invoked EXCEPT ![Thread(e)] = 0]
  /\ Finish(e)
  /\ UNCHANGED <<cachedBotToken, slackVars>>

\* ... or the delete is lost or refused.
AcknowledgeLost(e) ==
  /\ pc[e] = "returned"
  /\ Finish(e)
  /\ UNCHANGED <<queueVars, cachedBotToken, slackVars, invoked>>

\* The environment goes down, and its module state with it.
Crash(e) ==
  /\ Running(e)
  /\ Finish(e)
  /\ cachedBotToken' = cachedBotToken \ {e}
  /\ UNCHANGED <<queueVars, slackVars, invoked>>

TimeOut(e) == elapsed[e] = LambdaTimeout /\ Crash(e)

\* DynamoDB's time-to-live removes the thread's item, 24 h after it was put.
EngagementExpires(t) ==
  /\ t \in engaged
  /\ engaged' = engaged \ {t}
  /\ UNCHANGED <<queueVars, lambdaVars, reactions, posts, answered, invoked>>

Handler(e) ==
  \/ BeginRecord(e) \/ GetBotTokenFails(e) \/ AddThinking(e)
  \/ InvokeRuntime(e) \/ RuntimeAnswers(e) \/ RuntimeFails(e)
  \/ SwapToError(e) \/ PostError(e)
  \/ PostReply(e) \/ PostReplyThrows(e) \/ SwapToDone(e)
  \/ RecordEngagement(e) \/ Acknowledge(e) \/ AcknowledgeLost(e)

Next ==
  \/ \E b \in Bodies : Send(b) \/ Forget(b)
  \/ \E t \in Threads : Expire(t) \/ DeadLetter(t) \/ EngagementExpires(t)
  \/ \E e \in Environments, t \in Threads : Start(e, t)
  \/ \E e \in Environments : Handler(e) \/ Crash(e)
  \/ Tick

Spec == Init /\ [][Next]_vars

(***************************************************************************)
(* The platform's own promises, and no others: time passes, a timed-out    *)
(* invocation is killed, a visible message is received (there being an     *)
(* idle environment) or dead-lettered, an expired one becomes visible.     *)
(* Nothing is asked of the handler: it may hang in any call.               *)
(***************************************************************************)
Fairness ==
  /\ WF_vars(Tick)
  /\ \A e \in Environments : WF_vars(TimeOut(e))
  /\ \A t \in Threads :
       /\ WF_vars(Expire(t))
       /\ WF_vars(DeadLetter(t))
       /\ WF_vars(\E e \in Environments : Start(e, t))

FairSpec == Spec /\ Fairness

-----------------------------------------------------------------------------
(* Safety *)

(***************************************************************************)
(* A thread never has two bridge invocations at once, although a message   *)
(* comes back to the queue by a timer and nobody asks its first invocation *)
(* (lib/platform-stack.ts: a 120 s Lambda on a 720 s visibility timeout).  *)
(***************************************************************************)
OneBridgePerThread ==
  \A e, f \in Environments :
    Running(e) /\ Running(f) /\ Thread(e) = Thread(f) => e = f

(***************************************************************************)
(* "FIFO grouping by thread_ts keeps replies ordered within a thread"      *)
(* (lib/platform-stack.ts): what the bot posts in a thread, errors and     *)
(* repeated replies included, never goes back to an earlier message.       *)
(***************************************************************************)
RepliesInOrder ==
  \A t \in Threads : \A i, j \in DOMAIN posts[t] :
    i <= j => posts[t][i].n <= posts[t][j].n

(***************************************************************************)
(* A message that left the queue for good without being dead-lettered is   *)
(* one whose reply post returned, or one processRecord has nothing to say  *)
(* to: an error path never acknowledges.                                   *)
(***************************************************************************)
AcknowledgedIsAnswered ==
  \A t \in Threads : \A n \in 1..(head[t] - 1) :
    n \notin dlq[t] /\ log[t][n] \notin Unprocessable => n \in answered[t]

(***************************************************************************)
(* The runtime, whose tools may be destructive, is called at most once for *)
(* each receive of a message, so at most maxReceiveCount times for it.     *)
(***************************************************************************)
InvokedOncePerReceive ==
  \A t \in Threads : invoked[t] <= receives[t]

(***************************************************************************)
(* The user sees at most one post for each receive of a message, whatever  *)
(* is retried: a reply posted by a crashed invocation is posted again, but *)
(* not more often than maxReceiveCount allows.                             *)
(***************************************************************************)
PostsBounded ==
  \A t \in Threads : \A n \in 1..Len(log[t]) :
    Cardinality({i \in DOMAIN posts[t] : posts[t][i].n = n}) <= MaxReceiveCount

(***************************************************************************)
(* The check mark is shown only on a post that a reply was sent for: no    *)
(* interleaving, retry or duplicate delivery marks an unanswered message.  *)
(***************************************************************************)
DoneMeansAnswered ==
  \A b \in Bodies : Done \in reactions[b] =>
    \E n \in answered[threadOf[b]] : log[threadOf[b]][n] = b

(***************************************************************************)
(* A thread is followed without mentions only after a reply post returned  *)
(* in it; a turn that only failed does not engage the thread.              *)
(***************************************************************************)
EngagedOnlyAfterAnswer == \A t \in engaged : answered[t] # {}

(***************************************************************************)
(* All the bot shows, reactions included, is about messages it received    *)
(* and has something to say to: no stale record, crash or late call of an  *)
(* invocation puts anything on a post that processRecord ignores.          *)
(***************************************************************************)
ToAnswer(b) == b \notin Unprocessable /\ \E n \in DOMAIN log[threadOf[b]] : log[threadOf[b]][n] = b

SpeaksOfReceived ==
  /\ \A t \in Threads : \A i \in DOMAIN posts[t] :
       /\ posts[t][i].n \in DOMAIN log[t]
       /\ log[t][posts[t][i].n] \notin Unprocessable
  /\ \A b \in Bodies : reactions[b] # {} => ToAnswer(b)

(***************************************************************************)
(* The inductive invariant behind the safety properties.                   *)
(***************************************************************************)
\* A group's log holds its own messages, and its head is in or behind it.
QueueInv ==
  \A t \in Threads :
    /\ head[t] <= Len(log[t]) + 1
    /\ age[t] # Visible => head[t] <= Len(log[t])
    /\ \A i \in DOMAIN log[t] : threadOf[log[t][i]] = t
    /\ \A n \in dlq[t] : n < head[t]

\* A running invocation holds the current, unexpired receive of its head.
HoldsHead(e) ==
  /\ job[e].n = head[Thread(e)]
  /\ job[e].receipt = receives[Thread(e)]
  /\ age[Thread(e)] = elapsed[e]

BeforeInvoke == {"token", "hourglass", "invoke"}
Working == PCs \ {"idle", "token", "returned"}

\* How far an invocation is tells what it has done for its message.
ProgressInv(e) ==
  /\ pc[e] \in BeforeInvoke => invoked[Thread(e)] < receives[Thread(e)]
  /\ pc[e] \in Working => Body(e) \notin Unprocessable
  /\ pc[e] \in {"doneSwap", "engage"} => job[e].n \in answered[Thread(e)]
  /\ pc[e] = "returned" => \/ job[e].n \in answered[Thread(e)]
                           \/ Body(e) \in Unprocessable

\* Nothing was posted about, and no reply sent to, a message yet to come.
NoSpeechAhead ==
  \A t \in Threads :
    /\ \A i \in DOMAIN posts[t] : posts[t][i].n <= head[t]
    /\ \A n \in answered[t] : n \in DOMAIN log[t]

\* Who holds what: the part the timers decide.
ControlInv ==
  /\ QueueInv
  /\ \A e \in Environments : IF Running(e) THEN HoldsHead(e) ELSE elapsed[e] = 0
  /\ OneBridgePerThread

(***************************************************************************)
(* All of it together: an invocation that runs holds the one valid receive *)
(* of its thread's head, and has done for it what its place in             *)
(* processRecord says, so that every safety property above holds.          *)
(***************************************************************************)
BridgeInv ==
  /\ BridgeTypeOK
  /\ ControlInv
  /\ \A e \in Environments : Running(e) => ProgressInv(e)
  /\ NoSpeechAhead
  /\ RepliesInOrder
  /\ AcknowledgedIsAnswered
  /\ InvokedOncePerReceive
  /\ DoneMeansAnswered
  /\ EngagedOnlyAfterAnswer
  /\ SpeaksOfReceived

-----------------------------------------------------------------------------
(* Action properties *)

(***************************************************************************)
(* No message is given up on, and none becomes receivable again, while an  *)
(* invocation is still working on its thread.                              *)
(***************************************************************************)
NeverReleasedWhileRunning ==
  [][\A t \in Threads :
       (dlq'[t] # dlq[t] \/ (age[t] # Visible /\ age'[t] = Visible
                             /\ head'[t] = head[t]))
         => \A e \in Environments : ~(Running(e) /\ Thread(e) = t)]_vars

-----------------------------------------------------------------------------
(* Liveness *)

(***************************************************************************)
(* Every accepted message eventually leaves its group, deleted or          *)
(* dead-lettered, and so do all those behind it, even when every handler   *)
(* hangs: neither a poison message nor a lost acknowledgement blocks a     *)
(* thread for ever.                                                        *)
(***************************************************************************)
EveryMessageSettles ==
  \A t \in Threads : \A n \in 1..MaxLog : n <= Len(log[t]) ~> head[t] > n

(***************************************************************************)
(* The bridge, retries, duplicates, time and all, is the conversation of   *)
(* ThreadReplies: one message of a thread at a time, in order, spoken      *)
(* about at most maxReceiveCount times, every turn passing on eventually.  *)
(***************************************************************************)
Replies == INSTANCE ThreadReplies WITH
  asked <- log,
  turn <- head,
  transcript <- [t \in Threads |-> [i \in DOMAIN posts[t] |-> posts[t][i].n]],
  MaxSpeeches <- MaxReceiveCount

ImplementsThreadReplies == Replies!Spec

=============================================================================
