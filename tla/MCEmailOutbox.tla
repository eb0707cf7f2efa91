----------------------------- MODULE MCEmailOutbox -----------------------------
(* Small instance of EmailOutbox: a reminder of one registration and the     *)
(* notice that its session is cancelled.                                     *)
EXTENDS EmailOutbox

CONSTANTS d1, d2, reminder, notice, guest

OneGuest == [m \in Mails |-> guest]

(* Both are about something that is still so, or neither is.                 *)
BothOrNone == {{}, {notice, reminder}}
=============================================================================
