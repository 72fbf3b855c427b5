--------------------------- MODULE MCStreamReplay ---------------------------
(* A small instance of StreamReplay for TLC.                               *)
EXTENDS StreamReplay, TLC

Item(i, s) == [id |-> i, status |-> s]

\* A list normalize_todo_items accepts and one it refuses.
MCTodoInputs == {<<Item(1, "completed"), Item(2, "in_progress")>>, <<Item(1, "pending")>>}
=============================================================================
