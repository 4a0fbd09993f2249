---------------------------- MODULE MCAssistant ----------------------------
(* A few texts for each field, and acts enough to save, restore and create.  *)
EXTENDS Assistant

MCBegun == {EmptyForm, [title |-> "mine", budget |-> "30", note |-> "rest on sundays", end |-> "soon"]}
MCTyped == [title |-> {"mine"}, budget |-> {"", "30"}, note |-> {"", "rest on sundays"}, end |-> {"", "past", "soon"}]
=============================================================================
