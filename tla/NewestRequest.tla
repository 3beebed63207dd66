--------------------------- MODULE NewestRequest ---------------------------
(***************************************************************************)
(* What a worker promises that serves only the newest request.  Requests   *)
(* are numbered as they are asked.  The newest one is owed an answer until *)
(* it gets it or is withdrawn by who asked (with the photograph it was     *)
(* about); an older one may still be answered, while the answers' numbers  *)
(* only rise.                                                              *)
(***************************************************************************)
EXTENDS Naturals

VARIABLES
    newest,   \* number of the newest request
    owed,     \* the request that is owed an answer, or 0
    answered, \* number of the latest answer
    cause     \* changes with every reason to withdraw what is owed

vars == <<newest, owed, answered, cause>>

Init ==
    /\ newest = 0
    /\ owed = 0
    /\ answered = 0

Ask ==
    /\ newest' = newest + 1
    /\ owed' = newest + 1
    /\ UNCHANGED <<answered, cause>>

Answer(request) ==
    /\ request > answered
    /\ answered' = request
    /\ owed' = IF owed = request THEN 0 ELSE owed
    /\ UNCHANGED <<newest, cause>>

Withdraw ==
    /\ cause' # cause
    /\ owed' = 0
    /\ UNCHANGED <<newest, answered>>

Next ==
    \/ Ask
    \/ \E request \in 1 .. newest : Answer(request)
    \/ Withdraw

(* Answers are given in the order of the requests, and nothing but an answer, a newer request or a
   reason to withdraw it takes away what is owed. *)
AnswersRise == Init /\ [][Next]_vars

(* No request is owed for ever: it is answered, withdrawn, or replaced by a newer one. *)
Served == []<>(owed = 0) \/ []<><<owed' # owed>>_owed

Spec == AnswersRise /\ Served
=============================================================================
