--------------------------- MODULE DownloadService --------------------------
(***************************************************************************)
(* What a user of the QUIC client library may rely on: a request that was  *)
(* accepted is answered at most once, one that was not is never answered,  *)
(* and a service that broke accepts nothing more and hands out nothing     *)
(* after what its last waiting call returns: an answer, or an error of the *)
(* service itself, which only a broken service has.  It may break at any   *)
(* time and a broken service owes nothing.                                 *)
(***************************************************************************)
EXTENDS Naturals, Sequences

CONSTANTS
    Requests,
    NoReq      \* no request: what an error of the service itself is about

VARIABLES
    asked,    \* requests the service accepted
    answers,  \* what the calls returned, oldest first: the request it is about
    open,     \* the service has not broken
    waiting   \* a call that waits for an answer is in progress

svars == <<asked, answers, open, waiting>>

Answered == {answers[i] : i \in 1..Len(answers)}

Init == asked = {} /\ answers = <<>> /\ open = TRUE /\ waiting = FALSE

Ask(R) ==
    /\ open /\ ~waiting
    /\ R \subseteq Requests \ asked
    /\ asked' = asked \cup R
    /\ UNCHANGED <<answers, open, waiting>>

Wait ==
    /\ open /\ ~waiting
    /\ waiting' = TRUE
    /\ UNCHANGED <<asked, answers, open>>

\* An answer, from the call that waited or from one that found it ready.
Answer(r) ==
    /\ open \/ waiting
    /\ r \in asked \ Answered
    /\ answers' = Append(answers, r)
    /\ waiting' = FALSE
    /\ UNCHANGED <<asked, open>>

\* A call that waited returns NULL.
GiveUp ==
    /\ waiting
    /\ waiting' = FALSE
    /\ UNCHANGED <<asked, answers, open>>

\* A call that waited returns an error of the service, which is broken.
Fail ==
    /\ waiting /\ ~open
    /\ answers' = Append(answers, NoReq)
    /\ waiting' = FALSE
    /\ UNCHANGED <<asked, open>>

Break ==
    /\ open
    /\ open' = FALSE
    /\ UNCHANGED <<asked, answers, waiting>>

Next == (\E R \in SUBSET Requests : Ask(R)) \/ Wait \/ (\E r \in Requests : Answer(r))
        \/ GiveUp \/ Fail \/ Break

Spec == Init /\ [][Next]_svars
=============================================================================
