---------------------------- MODULE MCSbnClient -----------------------------
(* Small instances of SbnClient: messages are numbered by their frames.     *)
EXTENDS SbnClient

CONSTANT a1

MCMsgs == (0 .. MaxFrames) \X MsgIds

MCMsgIdOf == [m \in MCMsgs |-> m[2]]
=============================================================================
