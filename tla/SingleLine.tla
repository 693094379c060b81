------------------------------ MODULE SingleLine ------------------------------
(***************************************************************************)
(* What the transport promises its callers and the controller, without the *)
(* lock, its queue or the sockets: one line, used by one task at a time,   *)
(* for a whole group of requests, and at most one link behind it.          *)
(***************************************************************************)
EXTENDS Naturals

CONSTANTS Tasks, Nobody, MaxGroup

VARIABLES user,   \* the task that has the line, or Nobody
          left,   \* how many requests of its call are still unanswered
          links   \* how many connections the controller holds

lineVars == <<user, left, links>>

LineInit == user = Nobody /\ left = 0 /\ links = 0

(* A task takes a free line for a call of n requests.                      *)
Take == /\ user = Nobody
        /\ user' \in Tasks
        /\ left' \in 1..MaxGroup
        /\ links' = links

(* One request is answered; the line stays with its user until the last.   *)
Advance == left > 1 /\ left' = left - 1 /\ UNCHANGED <<user, links>>

(* The user's call is over.  It gives the line up, or keeps it for a next  *)
(* call when nobody waits.  A call that connects adds a link, to none.     *)
Finish == /\ user # Nobody
          /\ \/ user' = Nobody /\ left' = 0
             \/ user' = user /\ left' \in 1..MaxGroup
          /\ \/ links' = links
             \/ links = 0 /\ links' = 1

(* The link ends, whoever has the line.                                    *)
Unlink == links = 1 /\ links' = 0 /\ UNCHANGED <<user, left>>

LineNext == Take \/ Advance \/ Finish \/ Unlink

LineSpec == LineInit /\ [][LineNext]_lineVars
=============================================================================
