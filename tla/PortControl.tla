----------------------------- MODULE PortControl ----------------------------
(***************************************************************************)
(* What the authenticator promises about one controlled port, without its  *)
(* state machines: the port is opened only by the verdict of the server on  *)
(* the question last put to it, and an exchange that is given up leaves no  *)
(* verdict behind.                                                         *)
(***************************************************************************)

VARIABLES
  port,     \* "Unauthorized" or "Authorized"
  verdict,  \* "none": no question counts; "asked": the exchange waits for the
            \* server; "accepted": it has accepted, the port is not open yet
  pending   \* a question is with the server and has not been answered

vars == <<port, verdict, pending>>

Init == port = "Unauthorized" /\ verdict = "none" /\ ~pending

\* A question is put to the server; an earlier one no longer counts
Ask == verdict' = "asked" /\ pending' = TRUE /\ UNCHANGED port

\* The server accepts, while the exchange that asked still waits
Accept ==
  /\ verdict = "asked" /\ pending
  /\ verdict' = "accepted" /\ pending' = FALSE
  /\ UNCHANGED port

\* Any other answer, an Accept that comes too late included
Discard == pending /\ pending' = FALSE /\ verdict' = "none" /\ UNCHANGED port

\* The exchange is given up
Abandon == verdict' = "none" /\ UNCHANGED <<port, pending>>

\* The verdict is used, once
Open ==
  /\ verdict = "accepted"
  /\ port' = "Authorized"
  /\ verdict' = "none"
  /\ UNCHANGED pending

Close ==
  /\ port' = "Unauthorized"
  /\ verdict' = "none"
  /\ pending' \in {pending, FALSE}

Next == Ask \/ Accept \/ Discard \/ Abandon \/ Open \/ Close

Spec == Init /\ [][Next]_vars
=============================================================================
