--------------------------------- MODULE Rpc ---------------------------------
(***************************************************************************)
(* What a streaming RPC promises the two R programs at its ends.  asked    *)
(* messages were accepted from the client's R (grpc_send TRUE), heard of   *)
(* them handed to the server's R; said messages were accepted from the     *)
(* server's R, got messages handed to the client's R.                      *)
(*                                                                         *)
(* The server's R answers at most once, and its answer fixes how many      *)
(* messages the client is promised: all it has said and the response with  *)
(* grpc_reply, all it has said with a draining grpc_finish, some of them   *)
(* with an abortive one.  The client's R is told one outcome: "ok" only of *)
(* an answer given, and only with everything promised in hand; "failed"    *)
(* when the client gave up, the call was lost or the answer is a status    *)
(* other than OK; "cut" is the answer of a call on which a send of the     *)
(* client had failed first (see Client!EverythingArrives), of which        *)
(* messages may be missing.                                                *)
(***************************************************************************)
EXTENDS Integers

VARIABLES
    asked, heard,
    said, got,
    answer,     \* "open", "given", or "lost": no answer can reach the client
    promise,    \* messages promised with the answer
    outcome     \* what the client's R was told: "none", "ok", "cut", "failed"

vars == <<asked, heard, said, got, answer, promise, outcome>>

Init ==
    /\ asked = 0 /\ heard = 0 /\ said = 0 /\ got = 0
    /\ answer = "open" /\ promise = 0 /\ outcome = "none"

Ask ==
    /\ outcome = "none"
    /\ asked' = asked + 1
    /\ UNCHANGED <<heard, said, got, answer, promise, outcome>>

Hear ==
    /\ heard' \in (heard + 1)..asked
    /\ UNCHANGED <<asked, said, got, answer, promise, outcome>>

Say ==
    /\ answer = "open"
    /\ said' = said + 1
    /\ UNCHANGED <<asked, heard, got, answer, promise, outcome>>

\* reply: said + 1; finish: said; finish without drain: what got away.
Answer ==
    /\ answer = "open"
    /\ answer' = "given"
    /\ promise' \in got..(said + 1)
    /\ UNCHANGED <<asked, heard, said, got, outcome>>

Lose ==
    /\ answer # "lost" /\ outcome # "ok"
    /\ answer' = "lost" /\ promise' = 0
    /\ UNCHANGED <<asked, heard, said, got, outcome>>

\* What the client's R can have been handed.
Sayable == IF answer = "given" THEN promise ELSE said

\* A poll of the client's R: further messages, perhaps the outcome.
Deliver ==
    /\ outcome = "none"
    /\ got' \in got..Sayable
    /\ \/ outcome' \in {"none", "failed"}
       \/ outcome' = "ok" /\ answer = "given" /\ got' = promise
       \/ outcome' = "cut" /\ answer = "given"
    /\ UNCHANGED <<asked, heard, said, answer, promise>>

Next == Ask \/ Hear \/ Say \/ Answer \/ Lose \/ Deliver

Spec == Init /\ [][Next]_vars
=============================================================================
