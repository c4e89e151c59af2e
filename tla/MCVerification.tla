--------------------------- MODULE MCVerification ---------------------------
(* A mention in a thread by an admin, in its two copies, and a guest's          *)
(* follow-up, for two handlers.                                                 *)
EXTENDS Verification, TLC

CONSTANTS h1, h2
HandlerSet == {h1, h2}
HandlerSymmetry == Permutations(HandlerSet)

OneThread == {"t1"}
ThreadOfAll == [b \in Bodies |-> "t1"]
Everyone == {"admin", "guest"}
TheAdmin == {"admin"}
TheGuests == {"guest", "chan"}
TheChannel == {"chan"}

Mk(post, type, user, text) ==
  [post |-> post, type |-> type, from |-> "user", user |-> user,
   channel |-> "chan", reply |-> TRUE, text |-> text]

ThreadBodies == {"mention", "copy", "followup"}
ThreadPosts == {"p1", "p2"}
ThreadEvent ==
  [b \in ThreadBodies |->
     CASE b = "mention"  -> Mk("p1", "app_mention", "admin", "botMention")
       [] b = "copy"     -> Mk("p1", "message", "admin", "botMention")
       [] b = "followup" -> Mk("p2", "message", "guest", "plain")]
=============================================================================
