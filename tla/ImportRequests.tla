---------------------------- MODULE ImportRequests ----------------------------
(***************************************************************************)
(* What the import queue promises a user: the imports they asked for wait  *)
(* in line, are worked on one at a time and in the order asked for, and    *)
(* what is over stays over.  ImportQueue implements it with a registry, a  *)
(* list of entries and coroutines.                                         *)
(***************************************************************************)
EXTENDS Sequences, SequencesExt

CONSTANTS Jobs, Users

VARIABLES line,   \* per user, the jobs that wait, in the order asked for
          turn,   \* per user, the job worked on, if any
          over    \* the jobs that ended or were withdrawn

requests == <<line, turn, over>>

Init == /\ line = [u \in Users |-> <<>>]
        /\ turn = [u \in Users |-> {}]
        /\ over = {}

Waiting(j) == \E u \in Users : \E i \in DOMAIN line[u] : line[u][i] = j
Known(j) == Waiting(j) \/ j \in over \/ \E u \in Users : j \in turn[u]

\* A request enters at the end of its user's line.
Ask(u, j) == /\ ~Known(j)
             /\ line' = [line EXCEPT ![u] = Append(@, j)]
             /\ UNCHANGED <<turn, over>>

\* What u's turn was about is over, and perhaps the first in line is next.
Proceed(u) == /\ over' = over \cup turn[u]
              /\ \/ turn' = [turn EXCEPT ![u] = {}] /\ UNCHANGED line
                 \/ /\ line[u] # <<>>
                    /\ turn' = [turn EXCEPT ![u] = {Head(line[u])}]
                    /\ line' = [line EXCEPT ![u] = Tail(@)]

\* A job that waits is withdrawn; the others keep their order.
Withdraw(u, j) == /\ \E i \in DOMAIN line[u] :
                        line[u][i] = j /\ line' = [line EXCEPT ![u] = RemoveAt(@, i)]
                  /\ over' = over \cup {j}
                  /\ UNCHANGED turn

\* Nothing is kept when the server restarts.
Forget == /\ line' = [u \in Users |-> <<>>]
          /\ turn' = [u \in Users |-> {}]
          /\ over' = {}

Next == \/ \E u \in Users : \/ Proceed(u)
                            \/ \E j \in Jobs : Ask(u, j) \/ Withdraw(u, j)
        \/ Forget

Spec == Init /\ [][Next]_requests
=============================================================================
