---------------------------- MODULE ConnHistory -----------------------------
(***************************************************************************)
(* Conn with a history variable: what the application asked and was told.  *)
(* It records and never restricts, so every behaviour of Conn is one here. *)
(* The properties are promises the comments of kis/ws make; the runs of    *)
(* this module show where the code does not keep them.                     *)
(***************************************************************************)
EXTENDS Conn

VARIABLES
    intent    \* per stream: what the application last asked and was answered

HistoryInit == intent = [s \in Streams |-> "none"]

Calling(s, o) ==
    \E c \in Callers : /\ pc[c] = "idle" /\ pc'[c] = "write"
                       /\ req'[c].stream = s /\ req'[c].op = o

Accepting(s) ==
    \E c \in Callers : /\ pc[c] = "wait" /\ pc'[c] = "idle" /\ res[c] = "ok"
                       /\ req[c].stream = s /\ req[c].op = "sub"

\* A caller is told that its Subscribe failed, or the server refused it.
Failing(s) ==
    \E a \in Actors : /\ pc[a] = "drop" /\ pc'[a] # "drop"
                      /\ a \in Callers \/ res[a] = "refused"
                      /\ req[a].stream = s /\ req[a].op = "sub"

HistoryNext ==
    intent' = [s \in Streams |->
          IF Calling(s, "sub") THEN "asked"
          ELSE IF Calling(s, "unsub") THEN "off"
          ELSE IF Accepting(s) /\ intent[s] = "asked" THEN "on"
          ELSE IF Failing(s) /\ intent[s] # "off" THEN "none"
          ELSE intent[s]]

HistorySpec ==
    Init /\ HistoryInit /\ [][Next /\ HistoryNext]_<<vars, intent>>

-----------------------------------------------------------------------------
\* "Unsubscribe cancels tr/key ... and stops it from being restored on
\* reconnect" (conn.go:239-240): a pass that copied c.subs before the call
\* does not register the stream again.
UnsubscribeStays ==
    \A s \in Streams : intent[s] = "off" => ~Contains(subs, s)

\* "The subscription is remembered and automatically restored, in subscribe
\* order, after every reconnect" (conn.go:230-231): once Subscribe returned
\* nil, only the application or a refusal takes the stream out of c.subs.
GrantedIsRemembered ==
    \A s \in Streams : intent[s] = "on" /\ ~closed => Contains(subs, s)
=============================================================================
