------------------------- MODULE KeyboardHookProofs -------------------------
(***************************************************************************)
(* Proofs about GlobalSwitch and KeyboardHook.  Of the switch: the counter *)
(* counts the holders, on() is never entered twice at once, and a switch   *)
(* that runs force_off() alone is never left on, for every set of clients. *)
(* Of the hook: it uses its switch as the switch is specified, and each    *)
(* queue hears everything while it is subscribed.                          *)
(***************************************************************************)
EXTENDS KeyboardHook, FiniteSetTheorems, SequenceTheorems, TLAPS

USE GlobalSwitchAssumption

LEMMA HoldersFinite ==
    /\ IsFiniteSet(Holders)
    /\ Cardinality(Holders) \in Nat
    /\ Cardinality(Holders) = 0 <=> Holders = {}
<1>1. Holders \subseteq Clients
  BY DEF Holders, At
<1>2. IsFiniteSet(Holders)
  BY <1>1, FS_Subset
<1> QED BY <1>2, FS_CardinalityType, FS_EmptySet

LEMMA InitInd == Init => IndInv
<1> SUFFICES ASSUME Init PROVE IndInv
  OBVIOUS
<1>1. PICK first \in {{}} \cup {{c} : c \in Clients} :
        /\ count = Cardinality(first)
        /\ on = (first # {})
        /\ pc = [c \in Clients |-> IF c \in first THEN "in" ELSE "out"]
  BY DEF Init
<1>2. Holders = first /\ At({"turningOn"}) = {} /\ At({"lost"}) = {}
  BY <1>1 DEF Holders, At
<1>3. count \in Nat /\ (on /\ count = 0 => FALSE)
  BY <1>1, <1>2, HoldersFinite
<1> QED BY <1>1, <1>2, <1>3
        DEF Init, IndInv, TypeOK, CountsHolders, PendingOff, OneTurningOn,
            ForceInv

-----------------------------------------------------------------------------
(* How the set of holders changes with the step of one client.            *)

LEMMA HoldersJoin ==
    ASSUME TypeOK, NEW c \in Clients, pc[c] \notin {"turningOn", "in"},
           NEW s \in {"turningOn", "in"}, pc' = [pc EXCEPT ![c] = s]
    PROVE  /\ Holders' = Holders \cup {c}
           /\ Cardinality(Holders') = Cardinality(Holders) + 1
<1>1. Holders' = Holders \cup {c} /\ c \notin Holders
  BY DEF TypeOK, Holders, At
<1> QED BY <1>1, HoldersFinite, FS_AddElement

LEMMA HoldersLeave ==
    ASSUME TypeOK, NEW c \in Clients, pc[c] \in {"turningOn", "in"},
           NEW s \in {"out", "turningOff", "lost"}, pc' = [pc EXCEPT ![c] = s]
    PROVE  /\ Holders' = Holders \ {c}
           /\ Cardinality(Holders') = Cardinality(Holders) - 1
<1>1. Holders' = Holders \ {c} /\ c \in Holders
  BY DEF TypeOK, Holders, At
<1> QED BY <1>1, HoldersFinite, FS_RemoveElement

LEMMA HoldersStay ==
    ASSUME TypeOK, NEW c \in Clients, NEW s, pc' = [pc EXCEPT ![c] = s],
           pc[c] \in {"turningOn", "in"} <=> s \in {"turningOn", "in"}
    PROVE  Holders' = Holders
BY DEF TypeOK, Holders, At

-----------------------------------------------------------------------------

LEMMA AcquireInd ==
    ASSUME IndInv, NEW c \in Clients, Acquire(c)
    PROVE  IndInv'
<1> USE DEF IndInv, Acquire
<1> DEFINE s == IF count = 0 THEN "turningOn" ELSE "in"
<1>1. TypeOK'
  BY DEF TypeOK
<1>2. CountsHolders'
  BY HoldersJoin DEF CountsHolders, TypeOK
<1>3. OneTurningOn'
  <2>1. count = 0 => At({"turningOn"}) = {}
    BY HoldersFinite DEF CountsHolders, Holders, At
  <2> QED BY <2>1 DEF TypeOK, OneTurningOn, At
<1>4. Exclusive => PendingOff' /\ ForceInv'
  BY DEF TypeOK, PendingOff, ForceInv, Locked, At
<1> QED BY <1>1, <1>2, <1>3, <1>4

LEMMA TurnedOnInd ==
    ASSUME IndInv, NEW c \in Clients, TurnedOn(c)
    PROVE  IndInv'
<1> USE DEF IndInv, TurnedOn
<1>1. TypeOK'
  BY DEF TypeOK
<1>2. Holders' = Holders /\ CountsHolders'
  BY HoldersStay DEF CountsHolders
<1>3. OneTurningOn'
  BY DEF TypeOK, OneTurningOn, At
<1>4. ASSUME Exclusive PROVE PendingOff' /\ ForceInv'
  <2>1. pc[c] = "turningOn"
    BY <1>4 DEF ForceInv, At
  <2>2. count # 0
    BY <2>1, HoldersFinite DEF CountsHolders, Holders, At
  <2>3. PendingOff'
    BY <2>2 DEF PendingOff
  <2>4. force = "idle"
    BY <1>4, <2>1 DEF ForceInv, Calling, At
  <2> QED BY <1>4, <2>1, <2>3, <2>4 DEF TypeOK, ForceInv, At
<1> QED BY <1>1, <1>2, <1>3, <1>4

LEMMA ReleaseInd ==
    ASSUME IndInv, NEW c \in Clients, Release(c)
    PROVE  IndInv'
<1> USE DEF IndInv, Release
<1>1. count > 0
  BY HoldersFinite DEF TypeOK, CountsHolders, Holders, At
<1>2. TypeOK'
  BY <1>1 DEF TypeOK
<1>3. CountsHolders'
  BY HoldersLeave DEF CountsHolders
<1>4. OneTurningOn'
  BY DEF TypeOK, OneTurningOn, At
<1>5. ASSUME Exclusive PROVE PendingOff' /\ ForceInv'
  <2>1. PendingOff'
    BY <1>1 DEF TypeOK, PendingOff, At
  <2>2. force = "idle"
    BY <1>5 DEF Locked
  <2> QED BY <1>5, <2>1, <2>2 DEF TypeOK, ForceInv, At
<1> QED BY <1>2, <1>3, <1>4, <1>5

LEMMA TurnedOffInd ==
    ASSUME IndInv, NEW c \in Clients, TurnedOff(c)
    PROVE  IndInv'
<1> USE DEF IndInv, TurnedOff
<1>1. TypeOK'
  BY DEF TypeOK
<1>2. CountsHolders'
  BY HoldersStay DEF CountsHolders
<1>3. OneTurningOn'
  BY DEF TypeOK, OneTurningOn, At
<1>4. ASSUME Exclusive PROVE PendingOff' /\ ForceInv'
  <2>1. force = "idle"
    BY <1>4 DEF ForceInv, Calling, At
  <2> QED BY <1>4, <2>1 DEF TypeOK, PendingOff, ForceInv, At
<1> QED BY <1>1, <1>2, <1>3, <1>4

LEMMA ForceOffInd ==
    ASSUME IndInv, ForceOffCall \/ ForcedOff \/ ForceOffClear
    PROVE  IndInv'
<1> USE DEF IndInv
<1>1. CASE ForceOffCall
  BY <1>1 DEF ForceOffCall, TypeOK, CountsHolders, Holders, OneTurningOn,
              PendingOff, ForceInv, Calling, At
<1>2. CASE ForcedOff
  BY <1>2 DEF ForcedOff, TypeOK, CountsHolders, Holders, OneTurningOn,
              PendingOff, ForceInv, Calling, At
<1>3. CASE ForceOffClear
  <2> USE <1>3 DEF ForceOffClear
  <2>1. TypeOK'
    BY DEF TypeOK
  <2>2. Holders' = {} /\ At({"turningOn"})' = {}
    BY DEF TypeOK, Holders, At
  <2>3. CountsHolders' /\ OneTurningOn'
    BY <2>2, FS_EmptySet DEF CountsHolders, OneTurningOn
  <2>4. ASSUME Exclusive PROVE PendingOff' /\ ForceInv'
    BY <2>4 DEF TypeOK, PendingOff, ForceInv, Calling, At
  <2> QED BY <2>1, <2>3, <2>4
<1> QED BY <1>1, <1>2, <1>3

LEMMA NextInd == IndInv /\ [Next]_vars => IndInv'
<1> SUFFICES ASSUME IndInv, [Next]_vars PROVE IndInv'
  OBVIOUS
<1>1. CASE UNCHANGED vars
  BY <1>1 DEF vars, IndInv, TypeOK, CountsHolders, Holders, OneTurningOn,
              PendingOff, ForceInv, Calling, At
<1>2. ASSUME NEW c \in Clients,
             Acquire(c) \/ TurnedOn(c) \/ Release(c) \/ TurnedOff(c)
      PROVE  IndInv'
  BY <1>2, AcquireInd, TurnedOnInd, ReleaseInd, TurnedOffInd
<1> QED BY <1>1, <1>2, ForceOffInd DEF Next

(* The counter, the callbacks in flight and the state agree as IndInv says. *)
THEOREM Invariance == Spec => []IndInv
BY InitInd, NextInd, PTL DEF Spec

(* Every variable keeps its type; the counter never goes below zero.       *)
THEOREM TypeCorrect == Spec => []TypeOK
BY Invariance, PTL DEF IndInv

(* on() is never entered by two clients at once, force_off() running beside *)
(* them or not.                                                            *)
THEOREM OnIsExclusiveCorrect == Spec => []OnIsExclusive
<1>1. IndInv => OnIsExclusive
  <2> SUFFICES ASSUME IndInv PROVE Cardinality(At({"turningOn"})) <= 1
    BY DEF OnIsExclusive
  <2>1. At({"turningOn"}) = {} \/ \E c : At({"turningOn"}) = {c}
    BY DEF IndInv, OneTurningOn
  <2>2. Cardinality(At({"turningOn"})) = 0 \/ Cardinality(At({"turningOn"})) = 1
    BY <2>1, FS_EmptySet, FS_Singleton, Zenon
  <2> QED BY <2>2
<1> QED BY <1>1, Invariance, PTL

(* A switch whose force_off() runs alone, as in its destructor, is never   *)
(* left on after the last acquisition is gone.                             *)
THEOREM NeverLeftOnCorrect == Spec => [](Exclusive => NeverLeftOn)
<1>1. IndInv => (Exclusive => NeverLeftOn)
  BY DEF IndInv, PendingOff, NeverLeftOn, Quiet, Calling, At
<1> QED BY <1>1, Invariance, PTL
-----------------------------------------------------------------------------
(* The hook.  What its thread may receive and push.                        *)

Messages == {Delivered(ToWinInput(s), TRUE) : s \in Presses}

Events == {ToKeyState(m) : m \in Messages}

(* A queue of the list holds what was pushed since it subscribed and was   *)
(* not read.                                                               *)
QueueInv ==
    /\ pushed \in Seq(Events)
    /\ input \in Seq(Messages)
    /\ listed \subseteq Queues
    /\ queue \in [Queues -> Seq(Events)]
    /\ read \in [Queues -> Nat]
    /\ stage \in [Queues -> {"gone", "listed", "live", "unlisted", "stop", "post", "join"}]
    /\ hook = "got" => input # <<>>
    /\ \A q \in listed : /\ stage[q] \in {"listed", "live"}
                         /\ read[q] <= Len(pushed)
                         /\ queue[q] = SubSeq(pushed, read[q] + 1, Len(pushed))

(* Only queues use the switch, each as far as its own stage goes; and      *)
(* unless two calls race, the hook runs while the switch is held, but for  *)
(* the first holder on its way to start it.                                *)
StageInv ==
    /\ force = "idle"
    /\ \A c \in Clients \ Queues : pc[c] = "out"
    /\ \A q \in Queues :
          pc[q] \in CASE stage[q] \in {"gone", "listed"} -> {"out"}
                     [] stage[q] = "live" -> {"turningOn", "in"}
                     [] stage[q] = "unlisted" -> {"in"}
                     [] OTHER -> {"turningOff"}

Serving == hook # "none" /\ ~stopFlag

ServeInv ==
    ~Raced => /\ At({"turningOff"}) # {} => Holders = {}
              /\ At({"in"}) # {} => At({"turningOn"}) # {} \/ Serving

HookInv == IndInv /\ QueueInv /\ StageInv /\ ServeInv

(* What is left to read of the pushed events, as they are read and pushed. *)
LEMMA Window ==
    ASSUME NEW S, NEW s \in Seq(S), NEW n \in Nat, n <= Len(s)
    PROVE  LET w == SubSeq(s, n + 1, Len(s)) IN
           /\ w \in Seq(S)
           /\ Len(w) = Len(s) - n
           /\ n = Len(s) => w = <<>>
<1> DEFINE w == SubSeq(s, n + 1, Len(s))
<1>1. Len(s) \in Nat
  BY LenProperties
<1>2. \A i \in n + 1 .. Len(s) : s[i] \in S
  BY <1>1, ElementOfSeq
<1>3. w \in Seq(S) /\ Len(w) = Len(s) - n /\ \A i \in 1 .. Len(s) - n : w[i] = s[n + i]
  <2>1. /\ w \in Seq(S)
        /\ Len(w) = IF n + 1 <= Len(s) THEN Len(s) - (n + 1) + 1 ELSE 0
        /\ \A i \in 1 .. Len(s) - (n + 1) + 1 : w[i] = s[(n + 1) + i - 1]
    BY <1>1, <1>2, SubSeqProperties
  <2> QED BY <1>1, <2>1
<1>4. n = Len(s) => w = <<>>
  BY <1>1, SubSeqEmpty
<1> QED BY <1>3, <1>4

LEMMA WindowTail ==
    ASSUME NEW S, NEW s \in Seq(S), NEW n \in Nat, n <= Len(s),
           SubSeq(s, n + 1, Len(s)) # <<>>
    PROVE  n < Len(s) /\ Tail(SubSeq(s, n + 1, Len(s))) = SubSeq(s, n + 2, Len(s))
<1>1. Len(s) \in Nat
  BY LenProperties
<1>2. n < Len(s)
  BY <1>1, SubSeqEmpty
<1>3. n + 1 \in 1 .. Len(s) /\ Len(s) \in n + 1 .. Len(s)
  BY <1>1, <1>2
<1>4. Tail(SubSeq(s, n + 1, Len(s))) = SubSeq(s, (n + 1) + 1, Len(s))
  BY <1>3, HeadTailOfSubSeq
<1> QED BY <1>2, <1>4

LEMMA WindowAppend ==
    ASSUME NEW S, NEW s \in Seq(S), NEW n \in Nat, n <= Len(s), NEW e \in S
    PROVE  Append(SubSeq(s, n + 1, Len(s)), e) = SubSeq(Append(s, e), n + 1, Len(s) + 1)
<1> DEFINE a == Append(s, e)
           w == SubSeq(s, n + 1, Len(s))
<1>1. Len(s) \in Nat /\ a \in Seq(S) /\ Len(a) = Len(s) + 1 /\ a[Len(s) + 1] = e
  BY LenProperties, AppendProperties
<1>2. SubSeq(a, n + 1, Len(s) + 1) = SubSeq(a, n + 1, Len(s)) \o <<e>>
  <2>1. n + 1 \in 1 .. Len(a) /\ Len(s) + 1 \in n + 1 .. Len(a)
    BY <1>1
  <2>2. SubSeq(a, n + 1, Len(s) + 1)
          = SubSeq(a, n + 1, (Len(s) + 1) - 1) \o <<a[Len(s) + 1]>>
    <3> HIDE DEF a
    <3> QED BY <1>1, <2>1, SubSeqRecursiveSecond
  <2>3. (Len(s) + 1) - 1 = Len(s)
    BY <1>1
  <2> QED BY <1>1, <2>2, <2>3
<1>3. SubSeq(a, n + 1, Len(s)) = w
  <2>1. CASE n = Len(s)
    BY <1>1, <2>1, SubSeqEmpty
  <2>2. CASE n < Len(s)
    <3>1. a = s \o <<e>> /\ <<e>> \in Seq(S)
      BY AppendIsConcat
    <3>2. n + 1 \in 1 .. Len(s) /\ Len(s) \in 1 .. Len(s)
      BY <1>1, <2>2
    <3> QED BY <3>1, <3>2, SubSeqOfConcat1
  <2> QED BY <1>1, <2>1, <2>2
<1>4. w \in Seq(S)
  BY Window
<1>5. Append(w, e) = w \o <<e>>
  <2> HIDE DEF w
  <2> QED BY <1>4, AppendIsConcat
<1> QED BY <1>2, <1>3, <1>5

-----------------------------------------------------------------------------
(* Every step of the hook is a step of its switch, or leaves it alone.     *)

LEMMA SwitchStep == KeyboardNext => [Next]_vars
<1> USE KeyboardAssumption
<1> SUFFICES ASSUME KeyboardNext PROVE [Next]_vars
  OBVIOUS
<1>1. ASSUME HookStep \/ \E s \in Presses : Press(s) PROVE UNCHANGED vars
  BY <1>1 DEF HookStep, Register, PublishId, GetQuit, GetInput, PushEvent, LeaveLoop,
              Press
<1>2. ASSUME NEW q \in Queues, Subscribe(q) \/ Unsubscribe(q) \/ Pop(q) \/ PopQueue(q)
      PROVE  UNCHANGED vars
  BY <1>2 DEF Subscribe, Unsubscribe, Pop, PopQueue
<1>3. ASSUME NEW q \in Queues, CallStep(q)
      PROVE  [Next]_vars
  <2>1. CASE RequestStop(q) \/ PostQuit(q)
    BY <2>1 DEF RequestStop, PostQuit
  <2>2. CASE ~(RequestStop(q) \/ PostQuit(q))
    <3>1. Acquire(q) \/ TurnedOn(q) \/ Release(q) \/ TurnedOff(q)
      BY <1>3, <2>2 DEF CallStep, SubscribeAcquire, StartHook, UnsubscribeRelease, JoinHook
    <3> QED BY <3>1 DEF Next
  <2> QED BY <2>1, <2>2
<1> QED BY <1>1, <1>2, <1>3 DEF KeyboardNext

LEMMA QueueInit == KeyboardInit => QueueInv
BY DEF KeyboardInit, QueueInv

LEMMA QueueStep ==
    ASSUME QueueInv, KeyboardNext
    PROVE  QueueInv'
<1> USE DEF QueueInv
<1>0. Len(pushed) \in Nat
  BY LenProperties
<1>1. ASSUME NEW q \in Queues, Subscribe(q) PROVE QueueInv'
  <2>1. <<>> = SubSeq(pushed, Len(pushed) + 1, Len(pushed))
    BY <1>0, Window
  <2>2. <<>> \in Seq(Events)
    BY EmptySeq
  <2> QED BY <1>0, <1>1, <2>1, <2>2 DEF Subscribe, hookVars
<1>2. ASSUME NEW q \in Queues, SubscribeAcquire(q) PROVE QueueInv'
  BY <1>2 DEF SubscribeAcquire, queueVars, hookVars
<1>3. ASSUME NEW q \in Queues, StartHook(q) PROVE QueueInv'
  BY <1>3, EmptySeq DEF StartHook, queueVars
<1>4. ASSUME NEW q \in Queues, Unsubscribe(q) PROVE QueueInv'
  BY <1>4 DEF Unsubscribe, hookVars
<1>5. ASSUME NEW q \in Queues, UnsubscribeRelease(q) PROVE QueueInv'
  BY <1>5 DEF UnsubscribeRelease, queueVars, hookVars
<1>6. ASSUME NEW q \in Queues, RequestStop(q) PROVE QueueInv'
  BY <1>6 DEF RequestStop, queueVars
<1>7. ASSUME NEW q \in Queues, PostQuit(q) PROVE QueueInv'
  BY <1>7 DEF PostQuit, queueVars
<1>8. ASSUME NEW q \in Queues, JoinHook(q) PROVE QueueInv'
  BY <1>8 DEF JoinHook, queueVars
<1>9. CASE Register \/ PublishId \/ GetQuit \/ LeaveLoop
  BY <1>9 DEF Register, PublishId, GetQuit, LeaveLoop, queueVars
<1>10. CASE GetInput
  <2>1. input # <<>> /\ Tail(input) \in Seq(Messages)
    BY <1>10, HeadTailProperties DEF GetInput
  <2> QED BY <1>10, <2>1 DEF GetInput, queueVars
<1>11. CASE PushEvent
  <2> DEFINE event == ToKeyState(Head(input))
  <2>1. Tail(input) \in Seq(Messages) /\ event \in Events
    BY <1>11, HeadTailProperties DEF PushEvent, Events
  <2>2. CASE event.key = "NONE"
    BY <1>11, <2>1, <2>2 DEF PushEvent
  <2>3. CASE event.key # "NONE"
    <3> HIDE DEF event
    <3>1. /\ queue' = [q \in Queues |-> IF q \in listed THEN Append(queue[q], event)
                                                          ELSE queue[q]]
          /\ pushed' = Append(pushed, event)
          /\ input' = Tail(input) /\ hook' = "loop"
          /\ UNCHANGED <<stage, listed, read>>
      BY <1>11, <2>3 DEF PushEvent, event
    <3>2. pushed' \in Seq(Events) /\ Len(pushed') = Len(pushed) + 1
      BY <2>1, <3>1, AppendProperties
    <3>3. \A q \in listed : queue'[q] = SubSeq(pushed', read[q] + 1, Len(pushed) + 1)
      <4> SUFFICES ASSUME NEW q \in listed
                   PROVE  queue'[q] = SubSeq(pushed', read[q] + 1, Len(pushed) + 1)
        OBVIOUS
      <4>1. pushed \in Seq(Events) /\ read[q] \in Nat /\ read[q] <= Len(pushed)
        OBVIOUS
      <4> HIDE DEF QueueInv
      <4>2. Append(SubSeq(pushed, read[q] + 1, Len(pushed)), event)
              = SubSeq(Append(pushed, event), read[q] + 1, Len(pushed) + 1)
        BY <2>1, <4>1, WindowAppend
      <4> QED BY <3>1, <4>2 DEF QueueInv
    <3>4. queue' \in [Queues -> Seq(Events)]
      <4>1. \A q \in Queues : Append(queue[q], event) \in Seq(Events)
        BY <2>1, AppendProperties
      <4> QED BY <3>1, <4>1
    <3> QED BY <1>0, <2>1, <3>1, <3>2, <3>3, <3>4, SMTT(60)
  <2> QED BY <2>2, <2>3
<1>12. ASSUME NEW s \in Presses, Press(s) PROVE QueueInv'
  <2> DEFINE m == Delivered(ToWinInput(s), TRUE)
  <2>1. m \in Messages /\ input' = Append(input, m)
    BY <1>12 DEF Messages, Press
  <2>2. input' \in Seq(Messages) /\ input' # <<>>
    <3> HIDE DEF m
    <3> QED BY <2>1, AppendProperties
  <2> QED BY <1>12, <2>2 DEF Press, queueVars, hookVars
<1>13. ASSUME NEW q \in Queues, Pop(q) PROVE QueueInv'
  <2>1. q \in listed => /\ read[q] < Len(pushed)
                        /\ Tail(queue[q]) = SubSeq(pushed, read[q] + 2, Len(pushed))
    <3> SUFFICES ASSUME q \in listed
                 PROVE  /\ read[q] < Len(pushed)
                        /\ Tail(queue[q]) = SubSeq(pushed, read[q] + 2, Len(pushed))
      OBVIOUS
    <3>1. /\ pushed \in Seq(Events) /\ read[q] \in Nat /\ read[q] <= Len(pushed)
          /\ SubSeq(pushed, read[q] + 1, Len(pushed)) # <<>>
          /\ queue[q] = SubSeq(pushed, read[q] + 1, Len(pushed))
      BY <1>13 DEF Pop
    <3> HIDE DEF QueueInv
    <3>2. read[q] < Len(pushed) /\ Tail(SubSeq(pushed, read[q] + 1, Len(pushed)))
                                     = SubSeq(pushed, read[q] + 2, Len(pushed))
      BY <3>1, WindowTail
    <3> QED BY <3>1, <3>2
  <2>2. Tail(queue[q]) \in Seq(Events)
    BY <1>13, HeadTailProperties DEF Pop
  <2>3. ASSUME NEW p \in listed
        PROVE  /\ read'[p] <= Len(pushed)
               /\ queue'[p] = SubSeq(pushed, read'[p] + 1, Len(pushed))
    <3>1. CASE p = q
      <4>1. read'[p] = read[q] + 1 /\ read'[p] + 1 = read[q] + 2
        BY <1>13, <3>1 DEF Pop
      <4>2. queue'[p] = Tail(queue[q])
        BY <1>13, <3>1 DEF Pop
      <4>3. read[q] < Len(pushed) /\ read[q] \in Nat
        BY <2>1, <3>1
      <4> QED BY <1>0, <2>1, <3>1, <4>1, <4>2, <4>3, SMTT(60)
    <3>2. CASE p # q
      BY <1>13, <3>2 DEF Pop
    <3> QED BY <3>1, <3>2
  <2>4. queue' \in [Queues -> Seq(Events)] /\ read' \in [Queues -> Nat]
    BY <1>13, <2>2 DEF Pop
  <2>5. UNCHANGED <<pushed, listed, stage, input, hook>>
    BY <1>13 DEF Pop, hookVars
  <2> QED BY <2>3, <2>4, <2>5
<1>14. ASSUME NEW q \in Queues, PopQueue(q) PROVE QueueInv'
  <2>1. Len(queue[q]) \in Nat
    BY LenProperties
  <2>2. q \in listed => read[q] + Len(queue[q]) = Len(pushed)
    <3> SUFFICES ASSUME q \in listed PROVE read[q] + Len(queue[q]) = Len(pushed)
      OBVIOUS
    <3>1. Len(SubSeq(pushed, read[q] + 1, Len(pushed))) = Len(pushed) - read[q]
      BY Window
    <3> QED BY <1>0, <3>1
  <2>3. <<>> = SubSeq(pushed, Len(pushed) + 1, Len(pushed))
    BY <1>0, Window
  <2> QED BY <1>0, <1>14, <2>1, <2>2, <2>3, EmptySeq DEF PopQueue, hookVars
<1> QED BY <1>1, <1>2, <1>3, <1>4, <1>5, <1>6, <1>7, <1>8, <1>9, <1>10, <1>11, <1>12,
           <1>13, <1>14 DEF KeyboardNext, HookStep, CallStep

-----------------------------------------------------------------------------
(* Each queue's stage follows its acquisition, and the hook serves.        *)

LEMMA StageInit ==
    ASSUME Init, count = 0, KeyboardInit
    PROVE  StageInv /\ Holders = {} /\ At({"in"}) = {} /\ At({"turningOff"}) = {}
<1> USE KeyboardAssumption
<1>1. PICK first \in {{}} \cup {{c} : c \in Clients} :
        /\ count = Cardinality(first)
        /\ pc = [c \in Clients |-> IF c \in first THEN "in" ELSE "out"]
  BY DEF Init
<1>2. first = {}
  BY <1>1, FS_Singleton
<1>3. pc = [c \in Clients |-> "out"]
  BY <1>1, <1>2
<1> QED BY <1>3 DEF Init, KeyboardInit, StageInv, Holders, At

LEMMA StageStep ==
    ASSUME TypeOK, StageInv, QueueInv, KeyboardNext
    PROVE  StageInv'
<1> USE KeyboardAssumption DEF StageInv
<1>0. stage \in [Queues -> {"gone", "listed", "live", "unlisted", "stop", "post", "join"}]
      /\ pc \in [Clients -> {"out", "turningOn", "in", "turningOff", "lost"}]
  BY DEF QueueInv, TypeOK
<1>1. ASSUME HookStep \/ \E s \in Presses : Press(s) PROVE UNCHANGED <<force, pc, stage>>
  BY <1>1 DEF HookStep, Register, PublishId, GetQuit, GetInput, PushEvent, LeaveLoop,
              Press, vars
<1>2. ASSUME NEW q \in Queues, Pop(q) \/ PopQueue(q) PROVE UNCHANGED <<force, pc, stage>>
  BY <1>2 DEF Pop, PopQueue, vars
<1>3. ASSUME NEW q \in Queues, Subscribe(q) \/ Unsubscribe(q) \/ RequestStop(q) \/ PostQuit(q)
      PROVE  StageInv'
  <2>1. UNCHANGED <<force, pc>>
    BY <1>3 DEF Subscribe, Unsubscribe, RequestStop, PostQuit, vars
  <2>2. \/ /\ pc[q] = "out"
           /\ stage' = [stage EXCEPT ![q] = "listed"]
        \/ /\ pc[q] = "in"
           /\ stage' = [stage EXCEPT ![q] = "unlisted"]
        \/ /\ pc[q] = "turningOff"
           /\ \E next \in {"post", "join"} : stage' = [stage EXCEPT ![q] = next]
    BY <1>0, <1>3 DEF Subscribe, Unsubscribe, RequestStop, PostQuit
  <2> QED BY <1>0, <2>1, <2>2
<1>4. ASSUME NEW q \in Queues, SubscribeAcquire(q) PROVE StageInv'
  BY <1>0, <1>4 DEF SubscribeAcquire, Acquire
<1>5. ASSUME NEW q \in Queues, StartHook(q) PROVE StageInv'
  BY <1>0, <1>5 DEF StartHook, TurnedOn
<1>6. ASSUME NEW q \in Queues, UnsubscribeRelease(q) PROVE StageInv'
  BY <1>0, <1>6 DEF UnsubscribeRelease, Release
<1>7. ASSUME NEW q \in Queues, JoinHook(q) PROVE StageInv'
  BY <1>0, <1>7 DEF JoinHook, TurnedOff
<1>8. UNCHANGED <<force, pc, stage>> => StageInv'
  OBVIOUS
<1> QED BY <1>1, <1>2, <1>3, <1>4, <1>5, <1>6, <1>7, <1>8
        DEF KeyboardNext, CallStep

LEMMA AtMostOne ==
    ASSUME NEW A, IsFiniteSet(A)
    PROVE  Cardinality(A) > 1 <=> \E c, d \in A : c # d
<1>1. Cardinality(A) \in Nat
  BY FS_CardinalityType
<1>2. CASE A = {}
  BY <1>2, FS_EmptySet
<1>3. CASE \E c : A = {c}
  BY <1>3, FS_Singleton
<1>4. ASSUME NEW c \in A, NEW d \in A, c # d PROVE Cardinality(A) > 1
  <2>1. IsFiniteSet({c}) /\ Cardinality({c}) = 1 /\ {c, d} = {c} \cup {d}
    BY FS_Singleton
  <2>2. Cardinality({c, d}) = 2
    <3>1. Cardinality({c} \cup {d}) = IF d \in {c} THEN Cardinality({c}) ELSE Cardinality({c}) + 1
      BY <2>1, FS_AddElement
    <3>2. Cardinality({c} \cup {d}) = 2
      BY <1>4, <2>1, <3>1
    <3> QED BY <2>1, <3>2
  <2>3. {c, d} \in SUBSET A
    OBVIOUS
  <2>4. Cardinality({c, d}) <= Cardinality(A)
    BY <2>3, FS_Subset
  <2> QED BY <1>1, <2>2, <2>4
<1>5. A = {} \/ (\E c : A = {c}) \/ \E c, d \in A : c # d
  OBVIOUS
<1> QED BY <1>2, <1>3, <1>4, <1>5

(* Two calls of start_hook() and stop_hook() race if they are of different *)
(* queues.                                                                 *)
LEMMA RaceOfTwo ==
    /\ Raced <=> \E c, d \in At({"turningOn", "turningOff"}) : c # d
    /\ Raced' <=> \E c, d \in At({"turningOn", "turningOff"})' : c # d
<1>1. At({"turningOn", "turningOff"}) \subseteq Clients
      /\ At({"turningOn", "turningOff"})' \subseteq Clients
  BY DEF At
<1>2. IsFiniteSet(At({"turningOn", "turningOff"}))
      /\ IsFiniteSet(At({"turningOn", "turningOff"})')
  BY <1>1, FS_Subset
<1> QED BY <1>2, AtMostOne DEF Raced

LEMMA ServeStep ==
    ASSUME HookInv, KeyboardNext
    PROVE  ServeInv'
<1> USE KeyboardAssumption
<1> SUFFICES ASSUME ~Raced'
             PROVE  /\ At({"turningOff"})' # {} => Holders' = {}
                    /\ At({"in"})' # {} => At({"turningOn"})' # {} \/ Serving'
  BY DEF ServeInv
<1>1. /\ pc \in [Clients -> {"out", "turningOn", "in", "turningOff", "lost"}]
      /\ At({"turningOff"}) # {} => Holders = {}
      /\ At({"in"}) # {} => At({"turningOn"}) # {} \/ Serving
  BY DEF HookInv, IndInv, TypeOK, ServeInv, KeyboardNext
<1>2. /\ \A c, d \in At({"turningOn", "turningOff"}) : c = d
      /\ \A c, d \in At({"turningOn", "turningOff"})' : c = d
  BY RaceOfTwo DEF KeyboardNext
<1>3. /\ count = Cardinality(Holders) /\ IsFiniteSet(Holders)
      /\ count = 0 <=> Holders = {}
  BY HoldersFinite, FS_Subset DEF HookInv, IndInv, CountsHolders, Holders, At
<1>4. \A q \in Queues : stage[q] \in {"stop", "join"} => pc[q] = "turningOff"
  BY DEF HookInv, StageInv
<1>5. ASSUME UNCHANGED pc, Serving => Serving' \/ Holders = {}
      PROVE  /\ At({"turningOff"})' # {} => Holders' = {}
             /\ At({"in"})' # {} => At({"turningOn"})' # {} \/ Serving'
  BY <1>1, <1>5 DEF At, Holders
<1>6. CASE HookStep
  BY <1>5, <1>6 DEF HookStep, Register, PublishId, GetQuit, GetInput, PushEvent, LeaveLoop,
                    vars, Serving
<1>7. CASE \E s \in Presses : Press(s)
  BY <1>5, <1>7 DEF Press, vars, hookVars, Serving
<1>8. ASSUME NEW q \in Queues, Subscribe(q) \/ Unsubscribe(q) \/ Pop(q) \/ PopQueue(q) \/ PostQuit(q)
      PROVE  UNCHANGED <<pc, hook, stopFlag>>
  BY <1>8 DEF Subscribe, Unsubscribe, Pop, PopQueue, PostQuit, vars, hookVars
<1>9. UNCHANGED <<pc, hook, stopFlag>> => UNCHANGED pc /\ (Serving => Serving')
  BY DEF Serving
<1>10. ASSUME NEW q \in Queues, SubscribeAcquire(q)
       PROVE  /\ At({"turningOff"})' # {} => Holders' = {}
              /\ At({"in"})' # {} => At({"turningOn"})' # {} \/ Serving'
  <2>1. CASE count = 0
    <3>1. pc' = [pc EXCEPT ![q] = "turningOn"]
      BY <1>10, <2>1 DEF SubscribeAcquire, Acquire
    <3> QED BY <1>1, <1>2, <3>1 DEF At
  <2>2. CASE count # 0
    <3>1. /\ pc' = [pc EXCEPT ![q] = "in"] /\ pc[q] = "out"
          /\ UNCHANGED <<hook, stopFlag>>
      BY <1>10, <2>2 DEF SubscribeAcquire, Acquire, hookVars
    <3>2. Holders # {}
      BY <1>3, <2>2
    <3>3. At({"turningOff"}) = {} /\ (At({"turningOn"}) # {} \/ Serving)
      BY <1>1, <3>2 DEF Holders, At
    <3> QED BY <1>1, <3>1, <3>3 DEF At, Serving
  <2> QED BY <2>1, <2>2
<1>11. ASSUME NEW q \in Queues, StartHook(q)
       PROVE  /\ At({"turningOff"})' # {} => Holders' = {}
              /\ At({"in"})' # {} => At({"turningOn"})' # {} \/ Serving'
  <2>1. pc[q] = "turningOn" /\ pc' = [pc EXCEPT ![q] = "in"] /\ Serving'
    BY <1>11 DEF StartHook, TurnedOn, Serving, HookInv, StageInv
  <2> QED BY <1>1, <1>2, <2>1 DEF At
<1>12. ASSUME NEW q \in Queues, UnsubscribeRelease(q)
       PROVE  /\ At({"turningOff"})' # {} => Holders' = {}
              /\ At({"in"})' # {} => At({"turningOn"})' # {} \/ Serving'
  <2>1. pc[q] = "in" /\ UNCHANGED <<hook, stopFlag>> /\ q \in Holders
    BY <1>12 DEF UnsubscribeRelease, Release, hookVars, Holders, At
  <2>2. CASE count = 1
    <3>1. pc' = [pc EXCEPT ![q] = "turningOff"]
      BY <1>12, <2>2 DEF UnsubscribeRelease, Release
    <3>2. Holders = {q}
      <4>1. PICK c : Holders = {c}
        BY <1>3, <2>2, FS_Singleton
      <4> QED BY <2>1, <4>1
    <3>3. Holders' = {}
      BY <1>1, <3>1, <3>2 DEF Holders, At
    <3> QED BY <3>3 DEF Holders, At
  <2>3. CASE count # 1
    <3>1. pc' = [pc EXCEPT ![q] = "out"]
      BY <1>12, <2>3 DEF UnsubscribeRelease, Release
    <3> QED BY <1>1, <2>1, <3>1 DEF At, Holders, Serving
  <2> QED BY <2>2, <2>3
<1>13. ASSUME NEW q \in Queues, RequestStop(q)
       PROVE  /\ At({"turningOff"})' # {} => Holders' = {}
              /\ At({"in"})' # {} => At({"turningOn"})' # {} \/ Serving'
  <2>1. Holders = {} /\ UNCHANGED pc
    BY <1>1, <1>4, <1>13 DEF RequestStop, vars, At
  <2> QED BY <1>5, <2>1
<1>14. ASSUME NEW q \in Queues, JoinHook(q)
       PROVE  /\ At({"turningOff"})' # {} => Holders' = {}
              /\ At({"in"})' # {} => At({"turningOn"})' # {} \/ Serving'
  <2>1. Holders = {} /\ pc' = [pc EXCEPT ![q] = "out"]
    BY <1>1, <1>4, <1>14 DEF JoinHook, TurnedOff, At
  <2>2. Holders' = {}
    BY <1>1, <2>1 DEF Holders, At
  <2> QED BY <2>2 DEF Holders, At
<1> QED BY <1>5, <1>6, <1>7, <1>8, <1>9, <1>10, <1>11, <1>12, <1>13, <1>14
        DEF KeyboardNext, CallStep

LEMMA HookStart == Init /\ count = 0 /\ KeyboardInit => HookInv
BY InitInd, QueueInit, StageInit DEF HookInv, ServeInv

LEMMA HookNext == HookInv /\ [KeyboardNext]_<<vars, keyboardVars>> => HookInv'
<1> SUFFICES ASSUME HookInv, [KeyboardNext]_<<vars, keyboardVars>> PROVE HookInv'
  OBVIOUS
<1>1. CASE KeyboardNext
  <2>1. IndInv'
    BY <1>1, SwitchStep, NextInd DEF HookInv
  <2>2. QueueInv' /\ StageInv'
    BY <1>1, QueueStep, StageStep DEF HookInv, IndInv
  <2> QED BY <1>1, <2>1, <2>2, ServeStep DEF HookInv
<1>2. CASE UNCHANGED <<vars, keyboardVars>>
  <2>1. IndInv'
    BY <1>2, NextInd DEF HookInv
  <2>2. QueueInv'
    BY <1>2 DEF keyboardVars, queueVars, hookVars, QueueInv, HookInv
  <2>3. StageInv'
    BY <1>2 DEF vars, keyboardVars, StageInv, HookInv
  <2>4. UNCHANGED <<pc, hook, stopFlag>>
    BY <1>2 DEF vars, keyboardVars, hookVars
  <2>5. ServeInv'
    BY <2>4 DEF HookInv, ServeInv, Raced, Holders, At, Serving
  <2> QED BY <2>1, <2>2, <2>3, <2>5 DEF HookInv
<1> QED BY <1>1, <1>2

(* keyboard.cpp: a queue is pushed to only while it is subscribed, holds,  *)
(* in order and without a gap, what was pushed since then and was not read, *)
(* and is served by a thread nobody asked to stop.                         *)
THEOREM QueuesHearEverythingCorrect == KeyboardSpec => []QueuesHearEverything
<1>1. HookInv => QueuesHearEverything
  BY KeyboardAssumption DEF HookInv, QueueInv, ServeInv, QueuesHearEverything, Serving, At
<1> QED BY <1>1, HookStart, HookNext, PTL DEF KeyboardSpec

(* The hook uses its switch as the switch is specified: the start and the  *)
(* end of the hook thread are its on() and off(), and what is proved of    *)
(* every switch holds of the hook's.                                       *)
THEOREM HookUsesSwitch == KeyboardSpec => Spec /\ []CountsHolders /\ []OnIsExclusive
<1>1. [KeyboardNext]_<<vars, keyboardVars>> => [Next]_vars
  BY SwitchStep DEF vars
<1>2. KeyboardSpec => Spec
  BY <1>1, PTL DEF KeyboardSpec, Spec
<1>3. IndInv => CountsHolders
  BY DEF IndInv
<1> QED BY <1>2, <1>3, Invariance, OnIsExclusiveCorrect, PTL
=============================================================================
