--------------------------- MODULE MCJournalStore ---------------------------
(* A small instance of JournalStore: two containers, three transactions.   *)
EXTENDS JournalStore
=============================================================================
