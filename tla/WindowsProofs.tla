--------------------------- MODULE WindowsProofs ----------------------------
(***************************************************************************)
(* Theorems about Screen, WindowClasses and Processes, for any monitors,   *)
(* sections, window_t objects, classes, processes, ids and names, and any  *)
(* first size of the array of ids.                                         *)
(***************************************************************************)
EXTENDS Windows, FiniteSetTheorems, TLAPS

-----------------------------------------------------------------------------
(* Screen.                                                                 *)

(* What makes SectionsSound inductive: what was captured and what was      *)
(* written belong to the section as it is now, and the section knows the   *)
(* old bitmap if its own is selected.                                      *)
ScreenInv ==
    /\ SectionsSound
    /\ section.selected = "bmp" => section.oldBmp
    /\ shot # <<>> => shot = FromScreen(section)
    /\ writtenTo # <<>> => writtenTo = ToScreen(section)

LEMMA ScreenInitial == ScreenInit => ScreenInv
  BY DEF ScreenInit, ScreenInv, SectionsSound, NoSection

(* capture() and write() read and write at the same scale. *)
LEMMA SameScale == FromScreen(section) = ToScreen(section)
  BY DEF FromScreen, ToScreen

(* No handle that Windows returns is one of the constants, so the previous *)
(* awareness is always NONE.                                               *)
LEMMA PreviousIsNone == \A before : Previous(before) = "UNAWARE"
  <1> SUFFICES ASSUME NEW before PROVE Previous(before) = "UNAWARE"
    OBVIOUS
  <1>1. Returned(before).handle = TRUE
    BY DEF Returned
  <1>2. \A context : Constant(context).handle = FALSE
    BY DEF Constant
  <1>3. \A context : Returned(before) # Constant(context)
    BY <1>1, <1>2
  <1>4. QED
    BY <1>3 DEF Previous, FromWin

(* A blit leaves the awareness as it was, or NONE.                         *)
LEMMA BlitKept ==
  ASSUME ScreenInv, AfterBlit
  PROVE  awareness' \in {wanted', "UNAWARE"}
  BY PreviousIsNone DEF ScreenInv, SectionsSound, AfterBlit, AfterScope

LEMMA ScreenKept == ScreenInv /\ [ScreenNext]_screenVars => ScreenInv'
  <1> SUFFICES ASSUME ScreenInv, [ScreenNext]_screenVars
               PROVE  ScreenInv'
    OBVIOUS
  <1> USE DEF ScreenInv, SectionsSound
  <1>1. ASSUME NEW context, SetThreadDpiAwareness(context)
        PROVE  ScreenInv'
    BY <1>1, SameScale DEF SetThreadDpiAwareness, FromScreen, ToScreen
  <1>2. ASSUME NEW x, NEW width, NEW aware, NEW done, ConstructSection(x, width, aware, done)
        PROVE  ScreenInv'
    BY <1>2 DEF ConstructSection
  <1>3. ASSUME NEW x, Relocate(x)
        PROVE  ScreenInv'
    BY <1>3 DEF Relocate
  <1>4. ASSUME NEW fails \in BOOLEAN, Capture(fails)
        PROVE  ScreenInv'
    <2>1. /\ section' = section /\ botched' = botched /\ writtenTo' = writtenTo
          /\ shot' \in {shot, FromScreen(section)}
      BY <1>4 DEF Capture
    <2>2. FromScreen(section)' = FromScreen(section) /\ ToScreen(section)' = ToScreen(section)
      BY <2>1 DEF FromScreen, ToScreen
    <2>3. awareness' \in {wanted', "UNAWARE"}
      BY <1>4, BlitKept DEF Capture
    <2>4. QED
      BY <2>1, <2>2, <2>3, SameScale
  <1>5. ASSUME NEW fails \in BOOLEAN, WriteBack(fails)
        PROVE  ScreenInv'
    <2>1. /\ section' = section /\ botched' = botched /\ shot' = shot
          /\ writtenTo' \in {writtenTo, ToScreen(section)}
      BY <1>5 DEF WriteBack
    <2>2. FromScreen(section)' = FromScreen(section) /\ ToScreen(section)' = ToScreen(section)
      BY <2>1 DEF FromScreen, ToScreen
    <2>3. awareness' \in {wanted', "UNAWARE"}
      BY <1>5, BlitKept DEF WriteBack
    <2>4. QED
      BY <2>1, <2>2, <2>3, SameScale
  <1>6. CASE DestroySection
    BY <1>6 DEF DestroySection, ReleaseMembers, NoSection
  <1>7. CASE UNCHANGED screenVars
    BY <1>7 DEF screenVars, FromScreen, ToScreen
  <1>8. QED
    BY <1>1, <1>2, <1>3, <1>4, <1>5, <1>6, <1>7 DEF ScreenNext

(* Whatever fails, a section hands to Windows in write() the part that it  *)
(* captured, no scope of monitor_scale() outlives its blit, and bitmaps    *)
(* are deleted unselected.                                                 *)
THEOREM SectionsSoundCorrect == ScreenSpec => []SectionsSound
  <1>1. ScreenInv => SectionsSound
    BY DEF ScreenInv
  <1>2. QED
    BY ScreenInitial, ScreenKept, <1>1, PTL DEF ScreenSpec

-----------------------------------------------------------------------------
(* WindowClasses.                                                          *)

(* What makes ClassesOwned inductive: an open window has a registered      *)
(* class, and unless it is held together with it, the class was reused, so *)
(* that a class Windows refuses to unregister is accounted for.            *)
WindowInv ==
    /\ WindowTypeOK
    /\ ClassesOwned
    /\ \A f \in Frames : frame[f].window # "none" =>
         /\ frame[f].window \in registered
         /\ frame[f].window = frame[f].id \/ frame[f].window \in reused

(* Nothing is registered, nothing held. *)
LEMMA WindowInitial == WindowInit => WindowInv
  BY WindowAssumption
     DEF WindowInit, WindowInv, WindowTypeOK, ClassesOwned, Owned, Vacant, Ids

(* create_window() owns what it registers, and only that. *)
LEMMA CreateKept ==
  ASSUME WindowInv, NEW f \in Frames, NEW class \in ClassNames, NEW made \in BOOLEAN,
         CreateWindow(f, class, made)
  PROVE  WindowInv'
  <1> USE WindowAssumption
  <1>1. CASE ~made
    <2>1. UNCHANGED windowVars
      BY <1>1 DEF CreateWindow, windowVars
    <2>2. QED
      BY <2>1 DEF windowVars, WindowInv, WindowTypeOK, ClassesOwned, Owned
  <1>2. CASE made
    <2> DEFINE own == class \notin registered
               window == [id |-> IF own THEN class ELSE "none", window |-> class]
    <2>1. /\ frame \in [Frames -> [id : Ids \cup {"none"}, window : ClassNames \cup {"none"}]]
          /\ registered' = registered \cup {class}
          /\ frame' = [frame EXCEPT ![f] = window]
          /\ reused' = IF own THEN reused ELSE reused \cup {class}
          /\ frame[f].id = "none" /\ frame[f].window = "none"
      BY <1>2 DEF CreateWindow, WindowInv, WindowTypeOK, Vacant
    <2>2. WindowTypeOK'
      BY <2>1 DEF WindowInv, WindowTypeOK, Ids
    <2>3. \A g \in Frames : frame'[g] = IF g = f THEN window ELSE frame[g]
      BY <2>1
    <2>4. /\ window.window = class
          /\ own => window.id = class
          /\ ~own => window.id = "none"
      OBVIOUS
    <2>5. \A g \in Frames : frame[g].id \in ClassNames => frame[g].id \in registered
      BY DEF WindowInv, ClassesOwned, Owned
    <2>6. \A g, h \in Frames : g # h /\ frame'[g].id = frame'[h].id => frame'[g].id \notin ClassNames
      BY <2>3, <2>4, <2>5 DEF WindowInv, ClassesOwned
    <2>7. \A g \in Frames : frame'[g].id \in ClassNames => frame'[g].window \in {frame'[g].id, "none"}
      BY <2>3, <2>4 DEF WindowInv, ClassesOwned
    <2>8. Owned' = IF own THEN Owned \cup {class} ELSE Owned
      BY <2>1, <2>3, <2>4 DEF Owned
    <2>9. /\ \A g \in Frames : frame'[g].window # "none" =>
              /\ frame'[g].window \in registered'
              /\ frame'[g].window = frame'[g].id \/ frame'[g].window \in reused'
      BY <2>1, <2>3, <2>4 DEF WindowInv
    <2>10. QED
      BY <2>1, <2>2, <2>6, <2>7, <2>8, <2>9 DEF WindowInv, ClassesOwned
  <1>3. QED
    BY <1>1, <1>2

(* The window goes, then the class unless it is still in use. *)
LEMMA DestroyKept ==
  ASSUME WindowInv, NEW f \in Frames, DestroyWindow(f)
  PROVE  WindowInv'
  <1> USE WindowAssumption
  <1> DEFINE id == frame[f].id
  <1>1. /\ frame \in [Frames -> [id : Ids \cup {"none"}, window : ClassNames \cup {"none"}]]
        /\ \A g \in Frames : frame'[g] = IF g = f THEN Vacant ELSE frame[g]
        /\ registered' = registered \ ({id} \ {frame'[g].window : g \in Frames})
        /\ reused' = reused \cap registered'
        /\ Vacant.id = "none" /\ Vacant.window = "none"
    BY DEF DestroyWindow, Unregistered, WindowInv, WindowTypeOK, Vacant
  <1>2. WindowTypeOK'
    <2>1. frame' \in [Frames -> [id : Ids \cup {"none"}, window : ClassNames \cup {"none"}]]
      BY <1>1 DEF DestroyWindow, Vacant
    <2>2. QED
      BY <1>1, <2>1 DEF WindowInv, WindowTypeOK
  <1>3. \A g \in Frames : frame'[g].window # "none" => frame'[g].window \in registered'
    BY <1>1 DEF WindowInv
  <1>4. \A g \in Frames : frame'[g].window # "none" =>
          frame'[g].window = frame'[g].id \/ frame'[g].window \in reused'
    BY <1>1, <1>3 DEF WindowInv
  <1>5. /\ \A g, h \in Frames : g # h /\ frame'[g].id = frame'[h].id => frame'[g].id \notin ClassNames
        /\ \A g \in Frames : frame'[g].id \in ClassNames => frame'[g].window \in {frame'[g].id, "none"}
    BY <1>1 DEF WindowInv, ClassesOwned
  <1>6. Owned' = Owned \ {id}
    <2>1. \A g \in Frames : g # f /\ frame[g].id \in ClassNames => frame[g].id # id
      BY DEF WindowInv, ClassesOwned
    <2>2. QED
      BY <1>1, <2>1 DEF Owned
  <1>7. Owned' \subseteq registered'
    BY <1>1, <1>6 DEF WindowInv, ClassesOwned
  <1>8. registered' \ Owned' \subseteq reused'
    <2> SUFFICES ASSUME NEW c \in registered', c \notin Owned' PROVE c \in reused
      BY <1>1
    <2>1. CASE c # id
      BY <1>1, <1>6, <2>1 DEF WindowInv, ClassesOwned
    <2>2. CASE c = id
      <3>1. PICK g \in Frames : frame'[g].window = c
        BY <1>1, <2>2
      <3>2. c \in ClassNames
        BY <1>1 DEF WindowInv, WindowTypeOK
      <3>3. g # f /\ frame[g].window = c
        BY <1>1, <3>1, <3>2
      <3>4. frame[g].id # c
        BY <2>2, <3>2, <3>3 DEF WindowInv, ClassesOwned
      <3>5. QED
        BY <3>2, <3>3, <3>4 DEF WindowInv
    <2>3. QED
      BY <2>1, <2>2
  <1>9. QED
    BY <1>2, <1>3, <1>4, <1>5, <1>7, <1>8 DEF WindowInv, ClassesOwned

(* A move leaves the source without window and id. *)
LEMMA MoveKept ==
  ASSUME WindowInv, NEW f \in Frames, NEW g \in Frames, MoveFrame(f, g)
  PROVE  WindowInv'
  <1> USE WindowAssumption
  <1>1. /\ frame \in [Frames -> [id : Ids \cup {"none"}, window : ClassNames \cup {"none"}]]
        /\ f # g /\ frame[f].id = "none" /\ frame[f].window = "none"
        /\ UNCHANGED <<registered, reused>>
    BY DEF MoveFrame, WindowInv, WindowTypeOK, Vacant
  <1> DEFINE left == [id |-> Emptied(frame[g].id), window |-> "none"]
  <1>2. /\ left \in [id : Ids \cup {"none"}, window : ClassNames \cup {"none"}]
        /\ left.id \in {"none", "moved"} /\ left.window = "none"
    BY DEF Emptied, Ids
  <1>3. \A h \in Frames : frame'[h] = IF h = g THEN left ELSE IF h = f THEN frame[g] ELSE frame[h]
    BY <1>1 DEF MoveFrame
  <1>4. WindowTypeOK'
    BY <1>1, <1>2 DEF MoveFrame, WindowInv, WindowTypeOK
  <1>5. \A h, k \in Frames : h # k /\ frame'[h].id = frame'[k].id => frame'[h].id \notin ClassNames
    BY <1>1, <1>2, <1>3 DEF WindowInv, ClassesOwned
  <1>6. \A h \in Frames : frame'[h].id \in ClassNames => frame'[h].window \in {frame'[h].id, "none"}
    BY <1>1, <1>2, <1>3 DEF WindowInv, ClassesOwned
  <1>7. Owned' = Owned
    <2>1. \A c \in Owned' : c \in Owned
      BY <1>1, <1>2, <1>3 DEF Owned
    <2>2. \A h \in Frames : frame[h].id \in ClassNames => h # f
      BY <1>1
    <2>3. \A h \in Frames : frame[h].id \in ClassNames =>
            \E k \in Frames : frame'[k].id = frame[h].id
      BY <1>1, <1>3, <2>2
    <2>4. \A c \in Owned : c \in Owned'
      BY <2>3 DEF Owned
    <2>5. QED
      BY <2>1, <2>4
  <1>8. \A h \in Frames : frame'[h].window # "none" =>
          /\ frame'[h].window \in registered'
          /\ frame'[h].window = frame'[h].id \/ frame'[h].window \in reused'
    BY <1>1, <1>2, <1>3 DEF WindowInv
  <1>9. QED
    BY <1>1, <1>4, <1>5, <1>6, <1>7, <1>8 DEF WindowInv, ClassesOwned

(* Moving over a window: the ids are swapped, or the old class is dropped. *)
LEMMA MoveOverKept ==
  ASSUME WindowInv, NEW f \in Frames, NEW g \in Frames, MoveFrameOver(f, g)
  PROVE  WindowInv'
  <1> USE WindowAssumption
  <1> DEFINE old == frame[f].id
             dropped == frame[g].id = "none" /\ old \in ClassNames
             back == IF frame[g].id = "none" \/ old = "none" THEN Emptied(frame[g].id) ELSE old
             left == [id |-> back, window |-> "none"]
  <1>1. /\ frame \in [Frames -> [id : Ids \cup {"none"}, window : ClassNames \cup {"none"}]]
        /\ registered \subseteq ClassNames /\ reused \subseteq ClassNames
        /\ f # g
        /\ registered' = IF dropped THEN registered \ ({old} \ {frame[h].window : h \in Frames})
                         ELSE registered
        /\ reused' = IF dropped THEN (reused \cup {old}) \cap registered' ELSE reused
    BY DEF MoveFrameOver, Unregistered, WindowInv, WindowTypeOK
  <1>2. /\ left \in [id : Ids \cup {"none"}, window : ClassNames \cup {"none"}]
        /\ left.window = "none" /\ left.id = back
        /\ back \in {"none", "moved"} \/ back = old
        /\ old \in ClassNames => dropped \/ back = old
        /\ dropped => back = "none"
    BY <1>1 DEF Emptied, Ids
  <1>3. \A h \in Frames : frame'[h] = IF h = g THEN left ELSE IF h = f THEN frame[g] ELSE frame[h]
    BY <1>1 DEF MoveFrameOver
  <1>4. WindowTypeOK'
    <2>1. frame' \in [Frames -> [id : Ids \cup {"none"}, window : ClassNames \cup {"none"}]]
      BY <1>1, <1>2 DEF MoveFrameOver
    <2>2. registered' \subseteq ClassNames /\ reused' \subseteq ClassNames
      BY <1>1
    <2>3. QED
      BY <2>1, <2>2 DEF WindowTypeOK
  <1>5. \A h, k \in Frames : h # k /\ frame'[h].id = frame'[k].id => frame'[h].id \notin ClassNames
    BY <1>1, <1>2, <1>3 DEF WindowInv, ClassesOwned
  <1>6. \A h \in Frames : frame'[h].id \in ClassNames => frame'[h].window \in {frame'[h].id, "none"}
    BY <1>1, <1>2, <1>3 DEF WindowInv, ClassesOwned
  <1>7. Owned' = IF dropped THEN Owned \ {old} ELSE Owned
    <2>1. \A h \in Frames : h # f /\ frame[h].id \in ClassNames => frame[h].id # old
      BY DEF WindowInv, ClassesOwned
    <2>2. \A h \in Frames : frame'[h].id \in ClassNames =>
            /\ \E k \in Frames : frame[k].id = frame'[h].id
            /\ dropped => frame'[h].id # old
      BY <1>1, <1>2, <1>3, <2>1
    <2>3. \A h \in Frames : frame[h].id \in ClassNames /\ ~(dropped /\ frame[h].id = old) =>
            \E k \in Frames : frame'[k].id = frame[h].id
      BY <1>1, <1>2, <1>3
    <2>4. \A c : c \in Owned' <=> c \in Owned /\ ~(dropped /\ c = old)
      BY <2>2, <2>3 DEF Owned
    <2>5. QED
      BY <2>4
  <1>8. \A h \in Frames : frame[h].window # "none" => frame[h].window \in registered'
    BY <1>1 DEF WindowInv
  <1>9. \A h \in Frames : frame'[h].window # "none" =>
          /\ frame'[h].window \in registered'
          /\ frame'[h].window = frame'[h].id \/ frame'[h].window \in reused'
    <2> SUFFICES ASSUME NEW h \in Frames, frame'[h].window # "none"
                 PROVE  /\ frame'[h].window \in registered'
                        /\ frame'[h].window = frame'[h].id \/ frame'[h].window \in reused'
      OBVIOUS
    <2>1. PICK k \in Frames : frame'[h] = frame[k]
      BY <1>2, <1>3
    <2>2. reused \cap registered' \subseteq reused'
      BY <1>1
    <2>3. QED
      BY <1>8, <2>1, <2>2 DEF WindowInv
  <1>10. Owned' \subseteq registered'
    BY <1>1, <1>7 DEF WindowInv, ClassesOwned
  <1>11. registered' \ Owned' \subseteq reused'
    BY <1>1, <1>7 DEF WindowInv, ClassesOwned
  <1>12. QED
    BY <1>4, <1>5, <1>6, <1>9, <1>10, <1>11 DEF WindowInv, ClassesOwned

(* Every operation keeps WindowInv. *)
LEMMA WindowKept == WindowInv /\ [WindowNext]_windowVars => WindowInv'
  <1> SUFFICES ASSUME WindowInv, [WindowNext]_windowVars PROVE WindowInv'
    OBVIOUS
  <1>1. CASE UNCHANGED windowVars
    BY <1>1 DEF windowVars, WindowInv, WindowTypeOK, ClassesOwned, Owned
  <1>2. QED
    BY <1>1, CreateKept, DestroyKept, MoveKept, MoveOverKept DEF WindowNext

-----------------------------------------------------------------------------

(* However windows are created, moved, assigned and destroyed, a class has *)
(* one owner while it is registered, and is left without one only if it    *)
(* was reused.                                                             *)
THEOREM ClassesOwnedCorrect == WindowSpec => []ClassesOwned
  <1>1. WindowInv => ClassesOwned
    BY DEF WindowInv
  <1>2. QED
    BY WindowInitial, WindowKept, <1>1, PTL DEF WindowSpec

-----------------------------------------------------------------------------
(* Processes.                                                              *)

Calls == {"find", "active", "count"}

SearchTyped ==
    /\ process \in [Pids -> Programs \cup {"none"}]
    /\ search \in [at : {"idle", "enumerate", "names", "done"}, call : Calls,
                   program : Programs \cup {"none"}, slots : Nat,
                   ids : SUBSET Pids, matches : SUBSET Pids]
    /\ search.at # "idle" => search.program \in Programs

(* What makes SearchComplete inductive: until a call returns, what it must *)
(* find still runs, and is on the list or found; active() has found        *)
(* nothing while it goes on; what bears the name is recorded.              *)
SearchInv ==
    /\ SearchTyped
    /\ SearchComplete
    /\ search.at \in {"enumerate", "names"} =>
         /\ \A p \in steady : p \in Pids /\ process[p] = search.program
         /\ \A p \in Pids : process[p] = search.program => p \in bore
    /\ search.at = "names" => steady \subseteq search.ids \cup search.matches

(* No call yet. *)
LEMMA SearchInitial == ProcessInit => SearchInv
  BY ProcessAssumption
     DEF ProcessInit, SearchInv, SearchTyped, SearchComplete, Idle, Calls

(* A list that did not fill the array has every process. *)
LEMMA ListComplete ==
  ASSUME NEW ids \in SUBSET Running, Fits(ids), Cardinality(ids) # search.slots
  PROVE  ids = Running
  <1>1. IsFiniteSet(Running)
    <2>1. Running \subseteq Pids
      BY DEF Running
    <2>2. QED
      BY <2>1, ProcessAssumption, FS_Subset
  <1>2. Cardinality(ids) = Cardinality(Running)
    BY DEF Fits
  <1>3. QED
    BY <1>1, <1>2, FS_Subset

(* Every step of the callers and of Windows keeps SearchInv. *)
LEMMA SearchKept == SearchInv /\ [ProcessNext]_processVars => SearchInv'
  <1> SUFFICES ASSUME SearchInv, [ProcessNext]_processVars PROVE SearchInv'
    OBVIOUS
  <1> USE ProcessAssumption
  <1> DEFINE Searches == [at : {"idle", "enumerate", "names", "done"}, call : Calls,
                          program : Programs \cup {"none"}, slots : Nat,
                          ids : SUBSET Pids, matches : SUBSET Pids]
  <1>0. /\ process \in [Pids -> Programs \cup {"none"}] /\ search \in Searches
        /\ (search.at # "idle" => search.program \in Programs)
    BY DEF SearchInv, SearchTyped
  <1>1. ASSUME NEW p \in Pids, NEW program \in Programs, Launch(p, program)
        PROVE  SearchInv'
    <2>1. /\ process' \in [Pids -> Programs \cup {"none"}]
          /\ process[p] = "none" /\ process'[p] = program
          /\ \A q \in Pids : q # p => process'[q] = process[q]
          /\ bore \subseteq bore' /\ UNCHANGED <<search, steady>>
          /\ (search.at # "idle" /\ program = search.program => p \in bore')
      BY <1>0, <1>1 DEF Launch
    <2>2. SearchTyped'
      BY <1>0, <2>1 DEF SearchTyped
    <2>3. SearchComplete'
      BY <2>1 DEF SearchInv, SearchComplete
    <2>4. ASSUME search.at \in {"enumerate", "names"}
          PROVE  /\ \A q \in steady : q \in Pids /\ process'[q] = search.program
                 /\ \A q \in Pids : process'[q] = search.program => q \in bore'
      <3>1. p \notin steady
        BY <1>0, <2>1, <2>4 DEF SearchInv
      <3>2. QED
        BY <2>1, <2>4, <3>1 DEF SearchInv
    <2>5. QED
      BY <2>1, <2>2, <2>3, <2>4 DEF SearchInv
  <1>2. ASSUME NEW p \in Pids, Terminate(p)
        PROVE  SearchInv'
    <2>1. /\ process' \in [Pids -> Programs \cup {"none"}]
          /\ process'[p] = "none"
          /\ \A q \in Pids : q # p => process'[q] = process[q]
          /\ UNCHANGED <<search, bore>>
          /\ steady' = IF search.at = "done" THEN steady ELSE steady \ {p}
      BY <1>0, <1>2 DEF Terminate
    <2>2. SearchTyped'
      BY <1>0, <2>1 DEF SearchTyped
    <2>3. SearchComplete'
      BY <2>1 DEF SearchInv, SearchComplete
    <2>4. QED
      BY <1>0, <2>1, <2>2, <2>3 DEF SearchInv
  <1>3. ASSUME NEW call \in Calls, NEW program \in Programs, StartFind(call, program)
        PROVE  SearchInv'
    <2>1. /\ search' = [at |-> "enumerate", call |-> call, program |-> program,
                        slots |-> FirstSlots, ids |-> {}, matches |-> {}]
          /\ steady' = {p \in Pids : process[p] = program} /\ bore' = steady'
          /\ process' = process
      BY <1>3 DEF StartFind, Idle
    <2>2. QED
      BY <1>0, <2>1 DEF SearchInv, SearchTyped, SearchComplete, Calls
  <1>4. ASSUME EnumerateFails
        PROVE  SearchInv'
    <2>1. /\ search' \in Searches /\ search'.at = "done" /\ steady' = {}
          /\ search'.matches = search.matches /\ search'.program = search.program
          /\ search.at = "enumerate" /\ UNCHANGED <<process, bore>>
      BY <1>0, <1>4 DEF EnumerateFails
    <2>2. QED
      BY <1>0, <2>1 DEF SearchInv, SearchTyped, SearchComplete
  <1>5. ASSUME NEW ids \in SUBSET Running, Enumerate(ids)
        PROVE  SearchInv'
    <2>1. /\ search.at = "enumerate" /\ Fits(ids) /\ UNCHANGED <<process, steady, bore>>
          /\ ids \subseteq Pids
      BY <1>5 DEF Enumerate, Running
    <2>2. CASE Cardinality(ids) = search.slots
      <3>1. /\ search' \in Searches /\ search'.at = "enumerate"
            /\ search'.matches = search.matches /\ search'.program = search.program
        BY <1>0, <1>5, <2>1, <2>2 DEF Enumerate
      <3>2. QED
        BY <1>0, <2>1, <3>1 DEF SearchInv, SearchTyped, SearchComplete
    <2>3. CASE Cardinality(ids) # search.slots
      <3>1. /\ search' \in Searches /\ search'.at = "names" /\ search'.ids = ids
            /\ search'.matches = search.matches /\ search'.program = search.program
        BY <1>0, <1>5, <2>1, <2>3 DEF Enumerate
      <3>2. ids = Running
        BY <2>1, <2>3, ListComplete
      <3>3. steady \subseteq Running
        BY <1>0, <2>1 DEF SearchInv, Running
      <3>4. QED
        BY <1>0, <2>1, <3>1, <3>2, <3>3 DEF SearchInv, SearchTyped, SearchComplete
    <2>4. QED
      BY <2>2, <2>3
  <1>6. ASSUME NEW p \in Pids, NEW denied \in BOOLEAN, Compare(p, denied)
        PROVE  SearchInv'
    <2> DEFINE found == process[p] = search.program /\ ~denied
               matches == IF found THEN search.matches \cup {p} ELSE search.matches
    <2>1. /\ search.at = "names" /\ UNCHANGED <<process, bore>>
          /\ steady' = IF denied THEN steady \ {p} ELSE steady
          /\ search' = IF search.call = "active" /\ matches # {}
                       THEN [search EXCEPT !.at = "done", !.matches = matches, !.ids = {}]
                       ELSE [search EXCEPT !.matches = matches, !.ids = search.ids \ {p}]
      BY <1>6 DEF Compare
    <2>2. /\ matches \in SUBSET Pids /\ matches \subseteq bore
          /\ search.matches \subseteq matches
          /\ steady' \ {p} \subseteq steady
          /\ (p \in steady' => p \in matches)
      BY <1>0, <2>1 DEF SearchInv, SearchComplete
    <2>3. CASE search.call = "active" /\ matches # {}
      <3>1. /\ search' \in Searches /\ search'.at = "done" /\ search'.matches = matches
            /\ search'.program = search.program /\ search'.call = "active"
        BY <1>0, <2>1, <2>2, <2>3
      <3>2. QED
        BY <1>0, <2>1, <2>2, <2>3, <3>1 DEF SearchInv, SearchTyped, SearchComplete
    <2>4. CASE ~(search.call = "active" /\ matches # {})
      <3>1. /\ search' \in Searches /\ search'.at = "names" /\ search'.matches = matches
            /\ search'.ids = search.ids \ {p}
            /\ search'.program = search.program /\ search'.call = search.call
        BY <1>0, <2>1, <2>2, <2>4
      <3>2. steady' \subseteq search'.ids \cup search'.matches
        BY <2>1, <2>2, <3>1 DEF SearchInv
      <3>3. QED
        BY <1>0, <2>1, <2>2, <3>1, <3>2 DEF SearchInv, SearchTyped, SearchComplete
    <2>5. QED
      BY <2>3, <2>4
  <1>7. ASSUME ReturnMatches
        PROVE  SearchInv'
    <2>1. /\ search' \in Searches /\ search'.at = "done" /\ search'.matches = search.matches
          /\ search'.program = search.program /\ search'.call = search.call
          /\ search.at = "names" /\ search.ids = {} /\ UNCHANGED <<process, steady, bore>>
      BY <1>0, <1>7 DEF ReturnMatches
    <2>2. steady \subseteq search.matches
      BY <2>1 DEF SearchInv
    <2>3. QED
      BY <1>0, <2>1, <2>2 DEF SearchInv, SearchTyped, SearchComplete
  <1>8. CASE UNCHANGED processVars
    BY <1>8 DEF processVars, SearchInv, SearchTyped, SearchComplete
  <1>9. QED
    BY <1>1, <1>2, <1>3, <1>4, <1>5, <1>6, <1>7, <1>8 DEF ProcessNext, Calls

-----------------------------------------------------------------------------

(* Whatever starts and ends during a call, it meets every process of the   *)
(* name that ran all the time and was not denied, and nothing else.        *)
THEOREM SearchCompleteCorrect == ProcessSpec => []SearchComplete
  <1>1. SearchInv => SearchComplete
    BY DEF SearchInv
  <1>2. QED
    BY SearchInitial, SearchKept, <1>1, PTL DEF ProcessSpec

-----------------------------------------------------------------------------

(* The three components, side by side: no step of one concerns another.    *)
THEOREM WindowsPartCorrect ==
  ScreenSpec /\ WindowSpec /\ ProcessSpec => []WindowsPartHolds
  <1>1. SectionsSound /\ ClassesOwned /\ SearchComplete => WindowsPartHolds
    BY DEF WindowsPartHolds
  <1>2. QED
    BY SectionsSoundCorrect, ClassesOwnedCorrect, SearchCompleteCorrect, <1>1, PTL
=============================================================================
