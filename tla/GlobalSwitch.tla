---------------------------- MODULE GlobalSwitch ----------------------------
(***************************************************************************)
(* cth::co::global_switch (cth/incl/cth/coro/global_switch.hpp): a counter *)
(* of acquisitions that calls on() when it leaves 0 and off() when it      *)
(* returns to 0.  The counter is atomic; on() and off() run after the      *)
(* atomic step and outside any lock, so another client's call may come in  *)
(* between.  A client is one acquisition at a time: a thread that acquires *)
(* several times is several clients.                                       *)
(***************************************************************************)
EXTENDS Naturals, FiniteSets

CONSTANTS
    Clients,    \* those that acquire and release
    Exclusive   \* TRUE: force_off() runs alone, as from the destructor

ASSUME GlobalSwitchAssumption ==
    /\ IsFiniteSet(Clients)
    /\ Exclusive \in BOOLEAN

VARIABLES
    count,      \* _count
    on,         \* the switched state: was on() or off() the last to run?
    pc,         \* where each client is
    force       \* where the owner's force_off() is

vars == <<count, on, pc, force>>

(* "in" is acquired; "turningOn" and "turningOff" are about to run on() and *)
(* off(); "lost" is a client in on() whose acquisition force_off() dropped. *)
TypeOK ==
    /\ count \in Nat
    /\ on \in BOOLEAN
    /\ pc \in [Clients -> {"out", "turningOn", "in", "turningOff", "lost"}]
    /\ force \in {"idle", "off", "clear"}

At(states) == {c \in Clients : pc[c] \in states}

Holders == At({"turningOn", "in"})

Calling == At({"turningOn", "turningOff", "lost"})

(* Nobody may start a call: the destructor is running. *)
Locked == Exclusive /\ force # "idle"

-----------------------------------------------------------------------------

(* Both constructors: off, or acquired once on behalf of a client. *)
Init ==
    /\ \E first \in {{}} \cup {{c} : c \in Clients} :
         /\ count = Cardinality(first)
         /\ on = (first # {})
         /\ pc = [c \in Clients |-> IF c \in first THEN "in" ELSE "out"]
    /\ force = "idle"

(* acquire(): the fetch_add.  Only the first one goes on to call on(). *)
Acquire(c) ==
    /\ ~Locked
    /\ pc[c] = "out"
    /\ count' = count + 1
    /\ pc' = [pc EXCEPT ![c] = IF count = 0 THEN "turningOn" ELSE "in"]
    /\ UNCHANGED <<on, force>>

(* on() has run and acquire() returns true. *)
TurnedOn(c) ==
    /\ pc[c] \in {"turningOn", "lost"}
    /\ on' = TRUE
    /\ pc' = [pc EXCEPT ![c] = IF pc[c] = "lost" THEN "out" ELSE "in"]
    /\ UNCHANGED <<count, force>>

(* Mutation: off() is called by the release that leaves one acquisition. *)
ReleaseOffByOne(c) ==
    /\ ~Locked
    /\ pc[c] = "in"
    /\ count' = count - 1
    /\ pc' = [pc EXCEPT ![c] = IF count = 2 THEN "turningOff" ELSE "out"]
    /\ UNCHANGED <<on, force>>

(* release(): the fetch_sub.  Only the last one goes on to call off(). *)
Release(c) ==
    /\ ~Locked
    /\ pc[c] = "in"
    /\ count' = count - 1
    /\ pc' = [pc EXCEPT ![c] = IF count = 1 THEN "turningOff" ELSE "out"]
    /\ UNCHANGED <<on, force>>

(* off() has run and release() returns true. *)
TurnedOff(c) ==
    /\ pc[c] = "turningOff"
    /\ on' = FALSE
    /\ pc' = [pc EXCEPT ![c] = "out"]
    /\ UNCHANGED <<count, force>>

(* force_off(): nothing to do at count 0; otherwise off() is called first. *)
ForceOffCall ==
    /\ force = "idle"
    /\ Exclusive => Calling = {}
    /\ count # 0
    /\ force' = "off"
    /\ UNCHANGED <<count, on, pc>>

ForcedOff ==
    /\ force = "off"
    /\ on' = FALSE
    /\ force' = "clear"
    /\ UNCHANGED <<count, pc>>

(* The store of 0 to the counter discards every acquisition made so far. *)
ForceOffClear ==
    /\ force = "clear"
    /\ count' = 0
    /\ pc' = [c \in Clients |-> CASE pc[c] = "in" -> "out"
                                  [] pc[c] = "turningOn" -> "lost"
                                  [] OTHER -> pc[c]]
    /\ force' = "idle"
    /\ UNCHANGED on

Next ==
    \/ \E c \in Clients : Acquire(c) \/ TurnedOn(c) \/ Release(c) \/ TurnedOff(c)
    \/ ForceOffCall
    \/ ForcedOff
    \/ ForceOffClear

Spec == Init /\ [][Next]_vars

-----------------------------------------------------------------------------
(* Properties.                                                             *)

(* No call of acquire(), release() or force_off() is running. *)
Quiet == Calling = {} /\ force = "idle"

(* The counter counts the acquisitions nobody released or discarded. *)
CountsHolders == count = Cardinality(Holders)

(* The switch is never left on: once every acquisition was released and    *)
(* the calls have returned, off() was the last callback to run, in every   *)
(* interleaving of the callbacks.  force_off() promises it too ("forces    *)
(* the switch off if not already"), but only keeps it when it runs alone.  *)
NeverLeftOn == Quiet /\ count = 0 => ~on

(* on() is never entered by two clients at once: the callback need not be  *)
(* reentrant.                                                              *)
OnIsExclusive == Cardinality(At({"turningOn"})) <= 1

(* "switches global state on/off based on acquire/release calls", "this is *)
(* designed to be thread safe": when no call is running, the state is on   *)
(* if and only if an acquisition is outstanding.                           *)
SettledAgrees == Quiet => (on <=> count > 0)

(* The inductive invariant.  A switched-on state without acquisitions is   *)
(* about to be switched off; this and ForceInv need force_off() alone.     *)
PendingOff == on /\ count = 0 => At({"turningOff"}) # {}

ForceInv ==
    /\ force # "idle" => Calling = {}
    /\ force = "clear" => ~on
    /\ At({"lost"}) = {}

OneTurningOn == \A c, d \in At({"turningOn"}) : c = d

IndInv ==
    /\ TypeOK
    /\ CountsHolders
    /\ OneTurningOn
    /\ Exclusive => PendingOff /\ ForceInv
=============================================================================
