----------------------------- MODULE PipeQueue ------------------------------
(***************************************************************************)
(* What a pipe promises the application that reads from it: a bounded      *)
(* first-in first-out queue, and one message more, the one last taken,     *)
(* which stays readable until the next is taken.  A message that finds the *)
(* queue full is not stored; nothing stored is lost, repeated or altered.  *)
(* Only while a pipe is being deleted may it be emptied, and nothing is    *)
(* stored in it or taken from it then.  A pipe the promise no longer holds *)
(* for has been given up.                                                  *)
(***************************************************************************)
EXTENDS Naturals, Sequences

CONSTANTS Pipes, Capacity, Msgs, NoMsg

VARIABLES
    unread,     \* what waits in each pipe, oldest first
    held,       \* the message last taken from it
    deleting,   \* the pipes a thread is deleting
    given_up    \* the pipes nothing is promised for

qvars == <<unread, held, deleting, given_up>>

Init ==
    /\ unread = [p \in Pipes |-> <<>>]
    /\ held = [p \in Pipes |-> NoMsg]
    /\ deleting = {}
    /\ given_up = {}

Store(p, m) ==
    /\ p \notin deleting
    /\ Len(unread[p]) < Capacity
    /\ unread' = [unread EXCEPT ![p] = Append(@, m)]
    /\ UNCHANGED <<held, deleting, given_up>>

Take(p) ==
    /\ p \notin deleting
    /\ unread[p] # <<>>
    /\ held' = [held EXCEPT ![p] = Head(unread[p])]
    /\ unread' = [unread EXCEPT ![p] = Tail(@)]
    /\ UNCHANGED <<deleting, given_up>>

StartDelete(p) ==
    /\ deleting' = deleting \cup {p}
    /\ UNCHANGED <<unread, held, given_up>>

\* Nothing is said of what is readable in a pipe that is deleted.
Clear(p, m) ==
    /\ p \in deleting
    /\ unread' = [unread EXCEPT ![p] = <<>>]
    /\ held' = [held EXCEPT ![p] = m]
    /\ UNCHANGED <<deleting, given_up>>

EndDelete(p) ==
    /\ unread[p] = <<>>
    /\ deleting' = deleting \ {p}
    /\ UNCHANGED <<unread, held, given_up>>

GiveUp(p) ==
    /\ given_up' = given_up \cup {p}
    /\ unread' = [unread EXCEPT ![p] = <<>>]
    /\ held' = [held EXCEPT ![p] = NoMsg]
    /\ deleting' = deleting \ {p}

Next ==
    \E p \in Pipes :
       \/ /\ p \notin given_up
          /\ \/ \E m \in Msgs : Store(p, m)
             \/ Take(p)
             \/ StartDelete(p)
             \/ \E m \in Msgs \cup {NoMsg} : Clear(p, m)
             \/ EndDelete(p)
       \/ GiveUp(p)

Spec == Init /\ [][Next]_qvars
=============================================================================
