---------------------------- MODULE MCSlackSystem ----------------------------
(* A small instance of the Slack path: an admin's mention that opens a thread,  *)
(* a follow-up in it, and what another app posts in it on the admin's behalf,   *)
(* which carries a bot_id.                                                      *)
EXTENDS SlackSystem

ThreadOfAll == [b \in Bodies |-> "t1"]

Event(post, type, from, reply, text) ==
  [post |-> post, type |-> type, from |-> from, user |-> "admin", channel |-> "chan",
   reply |-> reply, text |-> text]

ThreadEvents ==
  [b \in Bodies |->
     CASE b = "mention"  -> Event("p1", "app_mention", "user", FALSE, "botMention")
       [] b = "followup" -> Event("p2", "message", "user", TRUE, "plain")
       [] b = "appPost"  -> Event("p3", "message", "bot", TRUE, "plain")]
=============================================================================
