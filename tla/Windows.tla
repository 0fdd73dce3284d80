------------------------------ MODULE Windows -------------------------------
(***************************************************************************)
(* The components of the Windows part that own things of Windows or search *)
(* its lists: sections and blits, windows with their classes, processes.   *)
(* They share no state, and what they promise is said here together.       *)
(***************************************************************************)
EXTENDS Screen, WindowClasses, Processes

(* What the Windows part promises of three of its components: sections and *)
(* blits, window_t with the class create_window() may have registered for  *)
(* it, and the search for processes by name.                               *)
WindowsPartHolds ==
    /\ SectionsSound
    /\ ClassesOwned
    /\ SearchComplete
=============================================================================
