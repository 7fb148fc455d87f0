------------------------ MODULE DoubleBufferedQueue ------------------------
(***************************************************************************)
(* What a SlidingQueue promises its callers, in the words of the comment   *)
(* that opens src/src/sliding_queue.h: a double-buffered queue whose       *)
(* appends are not seen until the window slides.  A caller deals with sets *)
(* only: the elements of the current window, those appended since the      *)
(* window last moved, and everything the queue received since it was last  *)
(* cleared.                                                                *)
(***************************************************************************)
CONSTANT Elem
VARIABLES visible, appended, received

dbvars == <<visible, appended, received>>

Init == visible = {} /\ appended = {} /\ received = {}

\* An element joins the hidden buffer.  The queue never had it before: no
\* element is held twice.
Append(e) ==
    /\ e \notin received
    /\ appended' = appended \cup {e}
    /\ received' = received \cup {e}
    /\ UNCHANGED visible

\* Everything appended, and nothing else, becomes the window.
Slide == visible' = appended /\ appended' = {} /\ UNCHANGED received

Clear == visible' = {} /\ appended' = {} /\ received' = {}

Next == (\E e \in Elem : Append(e)) \/ Slide \/ Clear

Spec == Init /\ [][Next]_dbvars
=============================================================================
