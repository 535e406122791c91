------------------------------ MODULE Timeline ------------------------------
(***************************************************************************)
(* What the message and sync services promise a reader: every user owns a  *)
(* timeline to which entries are only ever added above everything already  *)
(* on it, so that a reader which remembers nothing but the position of the *)
(* last entry it was given (the sync cursor) has been given every entry    *)
(* below that position.                                                    *)
(*                                                                         *)
(* The abstract specification implemented by SyncInbox.  Positions need    *)
(* not be consecutive: rolled back inserts leave gaps.                     *)
(***************************************************************************)
EXTENDS Naturals

CONSTANTS Users,      \* owners of timelines
          Entries     \* what is put on a timeline

VARIABLES line,       \* line[u]: the set of <<position, entry>> on u's timeline
          cursor,     \* cursor[u]: the position u has read up to
          seen        \* seen[u]: what u has been given

tvars == <<line, cursor, seen>>

TLInit ==
    /\ line = [u \in Users |-> {}]
    /\ cursor = [u \in Users |-> 0]
    /\ seen = [u \in Users |-> {}]

\* What is added to u's timeline by the step.
Added(u) == line'[u] \ line[u]

\* One entry appears, at the same instant, at the top of the timelines of any
\* set of users, on none of which it was before.
Publish ==
    /\ line' = [u \in Users |-> line'[u]]
    /\ \E e \in Entries : \A u \in Users :
          /\ line[u] \subseteq line'[u]
          /\ \A new \in Added(u) :
                /\ new[1] \in Nat \ {0} /\ new[2] = e
                /\ \A old \in line[u] : old[1] < new[1] /\ old[2] # e
          /\ \A a, b \in Added(u) : a = b
    /\ UNCHANGED <<cursor, seen>>

\* A reader is given everything between its cursor and a later position.
Read ==
    /\ \E u \in Users :
          /\ cursor[u] < cursor'[u]
          /\ cursor' = [cursor EXCEPT ![u] = cursor'[u]]
          /\ seen' = [seen EXCEPT ![u] = @ \cup {e \in line[u] :
                                 cursor[u] < e[1] /\ e[1] <= cursor'[u]}]
          /\ \E e \in line[u] : e[1] = cursor'[u]
    /\ UNCHANGED line

TLNext == Publish \/ Read

TLSpec == TLInit /\ [][TLNext]_tvars

\* The promise: what was read is exactly what lies at or below the cursor.
Complete ==
    \A u \in Users : seen[u] = {e \in line[u] : e[1] <= cursor[u]}
=============================================================================
