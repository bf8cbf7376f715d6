--------------------------- MODULE RunNotifications ---------------------------
(***************************************************************************)
(* What RunService and EventToHttpConverter promise together to whoever    *)
(* receives the notifications: they are about runs that are stored, and a  *)
(* run is notified at most as often as it was announced, which is at most  *)
(* MaxAnnouncements times. Nothing promises that it is notified at all.    *)
(***************************************************************************)
EXTENDS Naturals

CONSTANTS RunId, MaxAnnouncements

VARIABLES
  stored,      \* the runs that are stored
  announced,   \* how often each run was announced
  notified     \* how often each run was notified

Init ==
  /\ stored = {}
  /\ announced = [r \in RunId |-> 0]
  /\ notified = [r \in RunId |-> 0]

Store(r) ==
  /\ r \notin stored
  /\ stored' = stored \cup {r}
  /\ UNCHANGED <<announced, notified>>

Announce(r) ==
  /\ r \in stored
  /\ announced[r] < MaxAnnouncements
  /\ announced' = [announced EXCEPT ![r] = @ + 1]
  /\ UNCHANGED <<stored, notified>>

Notify(r) ==
  /\ notified[r] < announced[r]
  /\ notified' = [notified EXCEPT ![r] = @ + 1]
  /\ UNCHANGED <<stored, announced>>

Next == \E r \in RunId : Store(r) \/ Announce(r) \/ Notify(r)

Spec == Init /\ [][Next]_<<stored, announced, notified>>
=============================================================================
