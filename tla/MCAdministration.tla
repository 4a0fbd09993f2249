-------------------------- MODULE MCAdministration --------------------------
(* Boards, cards and the script; the console; and both where they meet.      *)
EXTENDS Administration

Old == [NoCard EXCEPT !.source = CUSTOM, !.body = Plain("old")]
OldTrip == [NoCard EXCEPT !.source = FINAL, !.body = Plain("trip")]
MCFounders ==
  [u \in Users |-> IF u = "clerk" THEN [role |-> "OPERATOR", status |-> "ACTIVE"]
                   ELSE [role |-> SUPER, status |-> "ACTIVE"]]

Scene(cards, kinds, asks, ops, faulty) ==
  [cards |-> cards, kinds |-> kinds, asks |-> asks, ops |-> ops, faults |-> faulty, profiles |-> Profiles]
\* Three changes of profiles in a row, of the status only.
Dismissals == [role : {SUPER}, status : {"ACTIVE", "DISABLED"}]
MCScenes ==
  {Scene(<<Old>>, {"board", "create", "edit", "move", "delete"}, 3, 0, 1),
   Scene(<<Old, OldTrip>>, {"board", "edit", "delete", "script", "rotate"}, 3, 0, 1),
   Scene(<<OldTrip>>, {"board", "edit", "replan"}, 4, 0, 0),
   [Scene(<<>>, {"profile"}, 0, 3, 0) EXCEPT !.profiles = Dismissals],
   Scene(<<>>, {"profile", "leave"}, 0, 2, 1),
   Scene(<<Old>>, {"create", "membership", "raw", "leave"}, 1, 2, 1),
   Scene(<<>>, Works \cup {"raw", "leave"}, 0, 2, 1)}
=============================================================================
