------------------------------ MODULE AuditLog ------------------------------
(***************************************************************************)
(* What app/services/audit.py promises of the committed audit rows: an     *)
(* append-only log whose events are hash-chained, case by case.            *)
(*                                                                         *)
(* A hash is told apart from others by the time of its event: an event is  *)
(* the time it was made and the time of the event its prev_event_hash      *)
(* names, or Genesis.                                                      *)
(***************************************************************************)
EXTENDS Naturals, FiniteSetsExt

CONSTANT Case
VARIABLE log    \* the events of each case

Genesis == 0
Event == [at : Nat \ {Genesis}, prev : Nat]

\* The events before time t, and the latest of some events: what append_event
\* chains onto.
Before(events, t) == {e \in events : e.at < t}
Latest(events) == IF events = {} THEN Genesis ELSE Max({e.at : e \in events})

\* validate_chain.
ChainValid(events) == \A e \in events : e.prev = Latest(Before(events, e.at))

\* More events, later than those that are there, the first chained onto the
\* last of them.
Extends(old, new) ==
  /\ old \subseteq new
  /\ new \subseteq Event
  /\ \A e \in new \ old :
       /\ \A f \in old : f.at < e.at
       /\ e.prev = Latest(Before(new, e.at))

Init == \A c \in Case : log[c] \subseteq Event /\ ChainValid(log[c])

\* A transaction that commits extends the chains of the cases it moved.
Next == \A c \in Case : Extends(log[c], log'[c])

Spec == Init /\ [][Next]_log

\* The audit endpoint and the report find every chain valid.
ChainsValid == \A c \in Case : ChainValid(log[c])
=============================================================================
