--------------------------- MODULE ThreadReplies ---------------------------
(***************************************************************************)
(* What the Slack path promises a thread, with no queue, Lambda, timeout   *)
(* or retry in sight (lib/platform-stack.ts: "FIFO grouping by thread_ts   *)
(* keeps replies ordered within a thread").                                *)
(*                                                                         *)
(* The questions of a thread are taken one at a time, in the order they    *)
(* arrived.  While a question has its turn the bot may speak about it, but *)
(* only so often; then the turn passes on, and never comes back.           *)
(***************************************************************************)
EXTENDS Integers, Sequences, FiniteSets

CONSTANTS Threads, Bodies, threadOf,
          MaxSpeeches,   \* how often the bot may speak about one question
          MaxLog         \* bound: questions per thread

VARIABLES
  asked,       \* asked[t]: the questions of thread t, in order
  turn,        \* turn[t]: index of the question that has its turn
  transcript   \* transcript[t]: what the bot spoke about, in order

vars == <<asked, turn, transcript>>

SpeechesAbout(t, n) ==
  Cardinality({i \in DOMAIN transcript[t] : transcript[t][i] = n})

Init ==
  /\ asked = [t \in Threads |-> <<>>]
  /\ turn = [t \in Threads |-> 1]
  /\ transcript = [t \in Threads |-> <<>>]

Ask(b) ==
  /\ Len(asked[threadOf[b]]) < MaxLog
  /\ asked' = [asked EXCEPT ![threadOf[b]] = Append(@, b)]
  /\ UNCHANGED <<turn, transcript>>

Open(t) == turn[t] <= Len(asked[t])

Speak(t) ==
  /\ Open(t)
  /\ SpeechesAbout(t, turn[t]) < MaxSpeeches
  /\ transcript' = [transcript EXCEPT ![t] = Append(@, turn[t])]
  /\ UNCHANGED <<asked, turn>>

PassTurn(t) ==
  /\ Open(t)
  /\ turn' = [turn EXCEPT ![t] = @ + 1]
  /\ UNCHANGED <<asked, transcript>>

Next ==
  \/ \E b \in Bodies : Ask(b)
  \/ \E t \in Threads : Speak(t) \/ PassTurn(t)

\* What may be said and when ...
Safety == Init /\ [][Next]_vars

\* ... and no question holds its turn for ever.
Spec == Safety /\ \A t \in Threads : WF_vars(PassTurn(t))
=============================================================================
