---------------------------- MODULE MCSbnOutgoing ---------------------------
(* Small instances of SbnOutgoing.  Of the lengths the first two fit the    *)
(* buffer, the third does not, and the last does not fit its type.          *)
EXTENDS SbnOutgoing

MCLengths == {0, 2, 3, 8}
=============================================================================
