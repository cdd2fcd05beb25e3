----------------------------- MODULE ReadyQueue -----------------------------
(***************************************************************************)
(* The ready deque shared by the client (client.cpp:133) and the server    *)
(* (server.cpp:103), and the selection a poll makes from it.               *)
(*                                                                         *)
(* push_back appends and erase(it) closes the gap, so the only thing the   *)
(* code reads of a position is the relative order of arrival.  The deque   *)
(* is therefore a set of events, each carrying its arrival number (stamp): *)
(* deque order is stamp order.                                             *)
(***************************************************************************)
EXTENDS Integers, FiniteSets

CONSTANT All    \* the absent only_id argument: an unfiltered poll

\* client.cpp:541, server.cpp:565: the matches lambda.
Matches(ev, want) == want = All \/ ev.id = want

\* client.cpp:544, server.cpp:568: the have_match lambda.
HaveMatch(q, want) == \E ev \in q : Matches(ev, want)

\* The matching events the scan of client.cpp:590 has met when it is at ev.
UpTo(q, want, ev) == {e \in q : Matches(e, want) /\ e.stamp <= ev.stamp}

\* A plausible slip of the scan: a match is compared with its position in
\* the whole deque, so the newest matches go first.  (Mutation of Batch.)
BatchNewestFirst(q, want, maxn) ==
    {ev \in q : /\ Matches(ev, want)
                /\ Cardinality({e \in q : Matches(e, want) /\ e.stamp >= ev.stamp}) <= maxn}

\* The batch that the scan takes: the first maxn matching events, in order;
\* events for other calls are stepped over and stay where they are.
Batch(q, want, maxn) ==
    {ev \in q : Matches(ev, want) /\ Cardinality(UpTo(q, want, ev)) <= maxn}
=============================================================================
