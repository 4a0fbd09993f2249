----------------------------- MODULE MCUploads -----------------------------
(***************************************************************************)
(* Instances of Uploads for TLC: one asset, and a request, a worker and a  *)
(* round of the cleanup that may run at the same time, in development, with*)
(* neither queue nor direct store, and in production, with both; what does *)
(* not have both does not start there.                                     *)
(***************************************************************************)
EXTENDS Uploads

Configurations ==
  {[production |-> FALSE, direct |-> FALSE, async |-> FALSE],
   [production |-> TRUE, direct |-> TRUE, async |-> TRUE],
   [production |-> TRUE, direct |-> FALSE, async |-> TRUE],
   [production |-> TRUE, direct |-> TRUE, async |-> FALSE]}

\* A photograph with and without its checksum, and what is refused.
Photo == [goal |-> "own", url |-> FALSE, named |-> TRUE, type |-> "image", size |-> 2,
          sum |-> "sha256"]
Asked == {Photo, [Photo EXCEPT !.sum = "none"], [Photo EXCEPT !.sum = "other"],
          [Photo EXCEPT !.goal = "foreign"], [Photo EXCEPT !.url = TRUE],
          [Photo EXCEPT !.type = "other"], [Photo EXCEPT !.size = 0], [Photo EXCEPT !.size = 3]}

\* The object declared, and one for each fact that gives another away.
Honest == [sized |-> TRUE, header |-> "same", kind |-> "same", sum |-> "same",
           stated |-> "none", fits |-> TRUE]
Found == {Honest, [Honest EXCEPT !.sized = FALSE], [Honest EXCEPT !.header = "other"],
          [Honest EXCEPT !.kind = "none"], [Honest EXCEPT !.sum = "other"],
          [Honest EXCEPT !.stated = "other"], [Honest EXCEPT !.fits = FALSE]}
=============================================================================
