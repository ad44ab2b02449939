--------------------------- MODULE SbnPipesQueue ----------------------------
(***************************************************************************)
(* SbnPipes implements PipeQueue: the ring of a pipe, read from the slot   *)
(* after ReadMessage, is the queue, and the slot ReadMessage names is the  *)
(* message held.  A message enters when NumberOfMessages is incremented    *)
(* and leaves when ReadMessage moves on.                                   *)
(***************************************************************************)
EXTENDS SbnPipes, Sequences

Contents(p) == [k \in 1 .. Unread(p) |-> Messages[p][UnreadSlot(p, k)]]

Queue == INSTANCE PipeQueue WITH
    Pipes    <- Pipes,
    Capacity <- MAX_PIPE_DEPTH - 1,
    Msgs     <- Msgs,
    NoMsg    <- NoMsg,
    unread   <- [p \in Pipes |-> IF p \in tainted THEN <<>> ELSE Contents(p)],
    held     <- [p \in Pipes |->
                   IF p \in tainted THEN NoMsg
                   ELSE Messages[p][ReadMessage[p]]],
    deleting <- {p \in Pipes \ tainted : Deleting(p)},
    given_up <- tainted

\* Until one of the two races reaches a pipe, RcvMsg hands out the messages
\* ingest_app_message stored in it, each once, in the order they came, and
\* what it last handed out stays readable.  Only DeletePipe discards any.
IsQueue == Queue!Spec
=============================================================================
