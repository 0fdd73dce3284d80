------------------------------- MODULE Processes ------------------------------
(***************************************************************************)
(* cth::win::proc: find(), active() and count() look for processes by name *)
(* while processes start and end around them (cth_win/src/cth/win/         *)
(* proc.cpp).  enumerate() asks for all ids with an array it doubles while *)
(* Windows fills all of it; name() is asked once for each id.              *)
(***************************************************************************)
EXTENDS Naturals, FiniteSets

CONSTANTS
    Pids, Programs,     \* ids of processes, and the names they may have
    FirstSlots          \* elements of the array at first; the code has 16

ASSUME ProcessAssumption ==
    /\ IsFiniteSet(Pids)
    /\ "none" \notin Programs
    /\ FirstSlots \in Nat \ {0}

VARIABLES
    process,        \* what runs under each id, "none" if nothing does
    search,         \* the call: where it is, what for, its local variables
    steady,         \* what it looks for and ran all the time, not denied
    bore            \* ids that had the name at some time of the call

processVars == <<process, search, steady, bore>>

Idle == [at |-> "idle", call |-> "find", program |-> "none", slots |-> 0,
         ids |-> {}, matches |-> {}]

Running == {p \in Pids : process[p] # "none"}

ProcessInit ==
    /\ process = [p \in Pids |-> "none"]
    /\ search = Idle
    /\ steady = {} /\ bore = {}

-----------------------------------------------------------------------------

(* A process starts; an id that was used before may be used again. *)
Launch(p, program) ==
    /\ process[p] = "none"
    /\ process' = [process EXCEPT ![p] = program]
    /\ bore' = IF search.at # "idle" /\ program = search.program THEN bore \cup {p} ELSE bore
    /\ UNCHANGED <<search, steady>>

Terminate(p) ==
    /\ process[p] # "none"
    /\ process' = [process EXCEPT ![p] = "none"]
    /\ steady' = IF search.at = "done" THEN steady ELSE steady \ {p}
    /\ UNCHANGED <<search, bore>>

(* find(), active() or count() is called, and enumerate() in it. *)
StartFind(call, program) ==
    /\ search.at \in {"idle", "done"}
    /\ search' = [Idle EXCEPT !.at = "enumerate", !.call = call, !.program = program,
                              !.slots = FirstSlots]
    /\ steady' = {p \in Pids : process[p] = program}
    /\ bore' = steady'
    /\ UNCHANGED process

(* EnumProcesses() failed: the list is empty, and every call takes that as *)
(* having found nothing.                                                   *)
EnumerateFails ==
    /\ search.at = "enumerate"
    /\ search' = [search EXCEPT !.at = "done"]
    /\ steady' = {}
    /\ UNCHANGED <<process, bore>>

(* EnumProcesses() gives as many ids as there are, or as fit. *)
Fits(ids) == Cardinality(ids) = IF search.slots < Cardinality(Running)
                                THEN search.slots ELSE Cardinality(Running)

(* Mutation: the array is taken to be large enough. *)
EnumerateOnce(ids) ==
    /\ search.at = "enumerate" /\ Fits(ids)
    /\ search' = [search EXCEPT !.at = "names", !.ids = ids]
    /\ UNCHANGED <<process, steady, bore>>

(* enumerate(), one turn: a full array may have cut the list. *)
Enumerate(ids) ==
    /\ search.at = "enumerate" /\ Fits(ids)
    /\ search' = IF Cardinality(ids) = search.slots
                 THEN [search EXCEPT !.slots = 2 * search.slots]
                 ELSE [search EXCEPT !.at = "names", !.ids = ids]
    /\ UNCHANGED <<process, steady, bore>>

(* name() has no answer for a process that is gone, or that it is denied;  *)
(* active() returns with the first match.                                  *)
Compare(p, denied) ==
    /\ search.at = "names" /\ p \in search.ids
    /\ LET matches == IF process[p] = search.program /\ ~denied
                      THEN search.matches \cup {p} ELSE search.matches
       IN  search' = IF search.call = "active" /\ matches # {}
                     THEN [search EXCEPT !.at = "done", !.matches = matches, !.ids = {}]
                     ELSE [search EXCEPT !.matches = matches, !.ids = @ \ {p}]
    /\ steady' = IF denied THEN steady \ {p} ELSE steady
    /\ UNCHANGED <<process, bore>>

ReturnMatches ==
    /\ search.at = "names" /\ search.ids = {}
    /\ search' = [search EXCEPT !.at = "done"]
    /\ UNCHANGED <<process, steady, bore>>

ProcessNext ==
    \/ \E p \in Pids, program \in Programs : Launch(p, program)
    \/ \E p \in Pids : Terminate(p)
    \/ \E call \in {"find", "active", "count"}, program \in Programs : StartFind(call, program)
    \/ EnumerateFails
    \/ \E ids \in SUBSET Running : Enumerate(ids)
    \/ \E p \in Pids, denied \in BOOLEAN : Compare(p, denied)
    \/ ReturnMatches

ProcessSpec == ProcessInit /\ [][ProcessNext]_processVars

-----------------------------------------------------------------------------

(* Whatever starts and ends meanwhile, find() and count() meet every       *)
(* process of the name that ran all the time and that they were not        *)
(* denied, active() meets one if there is one, and none of them takes an   *)
(* id for the program that never ran it during the call.                   *)
SearchComplete ==
    /\ search.at = "done" =>
         IF search.call = "active" THEN steady # {} => search.matches # {}
         ELSE steady \subseteq search.matches
    /\ search.matches \subseteq bore
=============================================================================
