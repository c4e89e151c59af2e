---------------------------- MODULE EventsQueue ----------------------------
(***************************************************************************)
(* The Slack events queue: an SQS FIFO queue with content-based            *)
(* deduplication, a visibility timeout and a dead-letter queue, as         *)
(* lib/platform-stack.ts configures it.  The verification Lambda sends to  *)
(* it and the bridge Lambda is its only consumer (batch size 1).           *)
(*                                                                         *)
(* A message group is one Slack thread.  The messages ever accepted for a  *)
(* group are log[t]; head[t] points at the oldest one still in the queue,  *)
(* so the group's content is log[t][head[t]] .. log[t][Len(log[t])].  Only *)
(* the head of a group can be in flight, which is what FIFO means.         *)
(***************************************************************************)
EXTENDS Integers, Sequences

CONSTANTS
  Threads,            \* message groups: thread_ts, or ts of a top-level post
  Bodies,             \* message bodies; equal bodies share a dedup id
  threadOf,           \* the group a body is sent to
  MaxReceiveCount,    \* receives before a message is dead-lettered (3)
  VisibilityTimeout,  \* ticks a received message stays invisible (720 s)
  MaxLog              \* bound: messages accepted per group

ASSUME ThreadOfAssumption == threadOf \in [Bodies -> Threads]
ASSUME QueueConfigAssumption ==
  /\ MaxReceiveCount \in Nat \ {0}
  /\ VisibilityTimeout \in Nat \ {0}
  /\ MaxLog \in Nat

VARIABLES
  log,       \* log[t]: every body accepted for group t, in arrival order
  head,      \* head[t]: index in log[t] of the oldest message not yet gone
  receives,  \* receives[t]: times the head of t was received
  age,       \* age[t]: ticks since that receive, Visible if not in flight
  dlq,       \* dlq[t]: indices of the messages of t that were dead-lettered
  recent     \* bodies accepted inside the deduplication interval

queueVars == <<log, head, receives, age, dlq, recent>>

Visible == -1

QueueTypeOK ==
  /\ log \in [Threads -> Seq(Bodies)]
  /\ head \in [Threads -> Nat \ {0}]
  /\ receives \in [Threads -> 0..MaxReceiveCount]
  /\ age \in [Threads -> Visible..VisibilityTimeout]
  /\ dlq \in [Threads -> SUBSET Nat]
  /\ recent \in SUBSET Bodies

QueueInit ==
  /\ log = [t \in Threads |-> <<>>]
  /\ head = [t \in Threads |-> 1]
  /\ receives = [t \in Threads |-> 0]
  /\ age = [t \in Threads |-> Visible]
  /\ dlq = [t \in Threads |-> {}]
  /\ recent = {}

HasMessage(t) == head[t] <= Len(log[t])

\* Bug: the group's lock is forgotten, its head is receivable in flight.
Bug_ReceivableInFlight(t) == HasMessage(t)

Receivable(t) == HasMessage(t) /\ age[t] = Visible

(***************************************************************************)
(* SendMessage with MessageGroupId.  SQS accepts a body it saw within the  *)
(* deduplication interval without enqueuing it a second time.              *)
(***************************************************************************)
Enqueue(b) ==
  /\ b \notin recent
  /\ Len(log[threadOf[b]]) < MaxLog
  /\ log' = [log EXCEPT ![threadOf[b]] = Append(@, b)]
  /\ recent' = recent \cup {b}
  /\ UNCHANGED <<head, receives, age, dlq>>

\* The deduplication interval of b ends (SQS: five minutes after the send).
ForgetDuplicate(b) ==
  /\ b \in recent
  /\ recent' = recent \ {b}
  /\ UNCHANGED <<log, head, receives, age, dlq>>

\* The event source receives the head of a group and makes it invisible.
Receive(t) ==
  /\ Receivable(t)
  /\ receives[t] < MaxReceiveCount
  /\ receives' = [receives EXCEPT ![t] = @ + 1]
  /\ age' = [age EXCEPT ![t] = 0]
  /\ UNCHANGED <<log, head, dlq, recent>>

LeaveQueue(t) ==
  /\ head' = [head EXCEPT ![t] = @ + 1]
  /\ receives' = [receives EXCEPT ![t] = 0]

\* Bug: off by one, the redrive waits for a receive that never comes.
Bug_RedriveOneLate(t) ==
  /\ Receivable(t)
  /\ receives[t] = MaxReceiveCount + 1
  /\ LeaveQueue(t)
  /\ dlq' = [dlq EXCEPT ![t] = @ \cup {head[t]}]
  /\ UNCHANGED <<log, age, recent>>

\* A receive beyond maxReceiveCount moves the head to the dead-letter queue.
Redrive(t) ==
  /\ Receivable(t)
  /\ receives[t] = MaxReceiveCount
  /\ LeaveQueue(t)
  /\ dlq' = [dlq EXCEPT ![t] = @ \cup {head[t]}]
  /\ UNCHANGED <<log, age, recent>>

(***************************************************************************)
(* DeleteMessage with the receipt handle of receive number r of message n. *)
(* A FIFO queue honours only the handle of the current, unexpired receive. *)
(***************************************************************************)
HandleValid(t, n, r) == n = head[t] /\ r = receives[t] /\ age[t] # Visible

Delete(t, n, r) ==
  /\ HandleValid(t, n, r)
  /\ LeaveQueue(t)
  /\ age' = [age EXCEPT ![t] = Visible]
  /\ UNCHANGED <<log, dlq, recent>>

\* Bug: a visibility timeout no longer than the consumer's own.
Bug_BecomeVisibleEarly(t) ==
  /\ age[t] >= 1
  /\ age' = [age EXCEPT ![t] = Visible]
  /\ UNCHANGED <<log, head, receives, dlq, recent>>

\* Nobody deleted the message before its visibility timeout: it is back.
BecomeVisible(t) ==
  /\ age[t] = VisibilityTimeout
  /\ age' = [age EXCEPT ![t] = Visible]
  /\ UNCHANGED <<log, head, receives, dlq, recent>>

\* One tick of time on every message in flight, up to its timeout.
AgeInFlight ==
  age' = [t \in Threads |->
            IF age[t] = Visible \/ age[t] = VisibilityTimeout
              THEN age[t] ELSE age[t] + 1]
=============================================================================
