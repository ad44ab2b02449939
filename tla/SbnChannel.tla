----------------------------- MODULE SbnChannel -----------------------------
(***************************************************************************)
(* What the client as a whole promises an application, from SBN's end of   *)
(* the connection to the buffer RcvMsg hands out: the messages SBN         *)
(* forwards come in the order it forwarded them, each goes to a pipe that  *)
(* subscribes to it, and each is taken from that pipe once.  One is lost   *)
(* only if no pipe subscribes to it when it comes, if a pipe that does is  *)
(* full, or with the connection.                                           *)
(*                                                                         *)
(* Once the channel is not sound nothing is promised any more.             *)
(***************************************************************************)
EXTENDS Naturals, SequencesExt

CONSTANTS Pipes, Capacity, MsgIds, Msgs, MsgIdOf, NoMsg

VARIABLES
    line,     \* what SBN has forwarded and no pipe has, oldest first
    open,     \* SBN keeps the connection up
    subs,     \* the ids each pipe subscribes to
    unread,   \* what waits in each pipe, oldest first
    held,     \* the message last taken from it
    sound

chvars == <<line, open, subs, unread, held, sound>>

Init ==
    /\ line = <<>> /\ open = TRUE /\ sound = TRUE
    /\ subs = [p \in Pipes |-> {}]
    /\ unread = [p \in Pipes |-> <<>>]
    /\ held = [p \in Pipes |-> NoMsg]

Subscribers(m) == {p \in Pipes : MsgIdOf[m] \in subs[p]}
Full(p) == Len(unread[p]) = Capacity

\* SBN numbers nothing, but no message is forwarded twice.
Forward(m) ==
    /\ open
    /\ \A k \in DOMAIN line : line[k] # m
    /\ line' = Append(line, m)
    /\ UNCHANGED <<open, subs, unread, held, sound>>

Arrive(p) ==
    /\ line # <<>> /\ p \in Subscribers(Head(line)) /\ ~Full(p)
    /\ unread' = [unread EXCEPT ![p] = Append(@, Head(line))]
    /\ line' = Tail(line)
    /\ UNCHANGED <<open, subs, held, sound>>

Discard ==
    /\ line # <<>>
    /\ \/ Subscribers(Head(line)) = {}
       \/ \E p \in Subscribers(Head(line)) : Full(p)
    /\ line' = Tail(line)
    /\ UNCHANGED <<open, subs, unread, held, sound>>

Take(p) ==
    /\ unread[p] # <<>>
    /\ held' = [held EXCEPT ![p] = Head(unread[p])]
    /\ unread' = [unread EXCEPT ![p] = Tail(@)]
    /\ UNCHANGED <<line, open, subs, sound>>

Subscribe(p, id) ==
    /\ subs' = [subs EXCEPT ![p] = @ \cup {id}]
    /\ UNCHANGED <<line, open, unread, held, sound>>

Close ==
    /\ open
    /\ open' = FALSE
    /\ line' \in Prefixes(line)
    /\ UNCHANGED <<subs, unread, held, sound>>

Fail ==
    /\ sound' = FALSE
    /\ line' = <<>>
    /\ unread' = [p \in Pipes |-> <<>>]
    /\ held' = [p \in Pipes |-> NoMsg]
    /\ UNCHANGED <<open, subs>>

Next ==
    \/ /\ sound
       /\ \/ \E m \in Msgs : Forward(m)
          \/ \E p \in Pipes : Arrive(p) \/ Take(p)
          \/ Discard
          \/ Fail
    \/ \E p \in Pipes, id \in MsgIds : Subscribe(p, id)
    \/ Close

Spec == Init /\ [][Next]_chvars
=============================================================================
