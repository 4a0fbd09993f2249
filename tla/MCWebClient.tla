---------------------------- MODULE MCWebClient ----------------------------
(* Two goals of the account that is signed in, and what its user does to     *)
(* them, a few kinds of acts at a time.                                      *)
EXTENDS WebClient

Scene(a, b, page, does, n, async, f) ==
  [goal |-> [g \in Goals |-> IF g = 1 THEN a ELSE IF g = 2 THEN b ELSE "none"],
   owner |-> [g \in Goals |-> IF g <= 2 THEN 1 ELSE 0],
   stored |-> 1, page |-> page, async |-> async, acts |-> does, maxActs |-> n, maxFaults |-> f]

MCScenes ==
  {Scene("ACTIVE", "WAITING_CONFIRMATION", "rewards", {"select", "cards", "trend"}, 2, TRUE, 1),
   Scene("DRAFT", "DRAFT", "goals", {"generate", "refresh"}, 2, TRUE, 0),
   Scene("DRAFT", "DRAFT", "goals", {"generate", "cancel", "reload"}, 2, TRUE, 1),
   Scene("DRAFT", "ACTIVE", "plan", {"generate", "confirm", "replan", "milestone"}, 3, FALSE, 1),
   Scene("ACTIVE", "FAILED", "failure", {"select", "settle", "restart", "load"}, 2, TRUE, 0),
   Scene("ACTIVE", "FAILED", "goals", {"settle", "page"}, 2, FALSE, 1),
   Scene("DRAFT", "ACTIVE", "rewards", {"select", "delete"}, 2, TRUE, 0),
   Scene("DRAFT", "none", "goals", {"generate", "delete"}, 2, TRUE, 0),
   Scene("DRAFT", "ACTIVE", "goals", {"create", "delete"}, 2, TRUE, 0),
   Scene("ACTIVE", "DRAFT", "account", {"signin", "leave"}, 2, TRUE, 1)}
=============================================================================
