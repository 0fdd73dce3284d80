-------------------------------- MODULE Screen -------------------------------
(***************************************************************************)
(* cth::win::screen::section and the blits below it (cth_win/src/cth/win/  *)
(* screen.cpp, cth_win/incl/cth/win/screen.hpp): the GDI objects a section *)
(* owns, what part of the screen it reads and writes, and the thread's DPI *)
(* awareness, which every scaled blit changes for a while.  Coordinates    *)
(* are one-dimensional and Windows itself is a few variables.              *)
(***************************************************************************)
EXTENDS Naturals

CONSTANTS
    Positions, Widths,  \* where sections are on the screen, and their sizes
    ScaleAt             \* per position twice the scale of its monitor

ASSUME ScreenAssumption ==
    /\ Positions \subseteq Nat /\ Widths \subseteq Nat
    /\ ScaleAt \in [Positions -> {2, 3, 4}]

VARIABLES
    awareness,  \* of the thread, as Windows has it
    wanted,     \* what the thread was last set to by its own code
    section,    \* _rect, _dpiAware and what is selected
    botched,    \* a bitmap was deleted while it was selected
    shot,       \* the part of the screen in _data, <<>> if none of this place
    writtenTo   \* the part the last write() went to, <<>> if none since

screenVars == <<awareness, wanted, section, botched, shot, writtenTo>>

(* The contexts that from_win() and to_win() know; Windows has one more. *)
Mapped == {"UNAWARE", "UNAWARE_GDISCALED", "PER_MONITOR_AWARE", "PER_MONITOR_AWARE_V2"}

Contexts == Mapped \cup {"SYSTEM_AWARE"}

(* A DPI_AWARENESS_CONTEXT is one of the constants of Windows, or an       *)
(* opaque handle that stands for the same context and is equal to none of  *)
(* the constants: that is what SetThreadDpiAwarenessContext() returns.     *)
Constant(context) == [handle |-> FALSE, of |-> context]

Returned(context) == [handle |-> TRUE, of |-> context]

(* from_win() compares with ==, and what equals no constant is NONE. *)
FromWin(ctx) == IF \E context \in Mapped : ctx = Constant(context) THEN ctx.of ELSE "UNAWARE"

NoSection == [x |-> 0, width |-> 0, dpiAware |-> FALSE, made |-> FALSE,
              oldBmp |-> FALSE, selected |-> "old"]

ScreenInit ==
    /\ awareness \in Contexts
    /\ wanted = awareness
    /\ section = NoSection
    /\ botched = FALSE
    /\ shot = <<>>
    /\ writtenTo = <<>>

-----------------------------------------------------------------------------

(* set_thread_dpi_awareness() *)
SetThreadDpiAwareness(new) ==
    /\ awareness' = new
    /\ wanted' = new
    /\ UNCHANGED <<section, botched, shot, writtenTo>>

(* What set_thread_dpi_awareness() returns, of the awareness it replaced. *)
Previous(before) == FromWin(Returned(before))

(* scoped_dpi_awareness{PER_MONITOR}: the destructor sets what the         *)
(* constructor was told.                                                   *)
AfterScope(before) == Previous(before)

(* monitor_scale(): of the monitor at the unscaled position, in a scope. *)
Scaled(n, x) == (n * ScaleAt[x]) \div 2

(* blit_from_screen(): what is read *)
FromScreen(s) ==
    IF s.dpiAware THEN <<s.x, s.width>> ELSE <<Scaled(s.x, s.x), Scaled(s.width, s.x)>>

(* Mutation: the position is not scaled. *)
ToScreenUnscaled(s) ==
    IF s.dpiAware THEN <<s.x, s.width>> ELSE <<s.x, Scaled(s.width, s.x)>>

(* blit_to_screen(): what is written *)
ToScreen(s) ==
    IF s.dpiAware THEN <<s.x, s.width>> ELSE <<Scaled(s.x, s.x), Scaled(s.width, s.x)>>

(* Only a blit that is not DPI aware asks for the scale; the scope ends    *)
(* even if a later call throws.                                            *)
AfterBlit ==
    /\ awareness' = IF section.dpiAware THEN awareness ELSE AfterScope(awareness)
    /\ UNCHANGED wanted

-----------------------------------------------------------------------------

(* section(), of whose four calls the first "done" succeed: if a DC or the *)
(* bitmap cannot be had it throws, and the members made before that are    *)
(* released; that the bitmap could not be selected is not noticed.         *)
ConstructSection(x, width, aware, done) ==
    /\ ~section.made
    /\ section' = IF done < 3 THEN section
                  ELSE [x |-> x, width |-> width, dpiAware |-> aware, made |-> TRUE,
                        oldBmp |-> done = 4,
                        selected |-> IF done = 4 THEN "bmp" ELSE "old"]
    /\ shot' = <<>> /\ writtenTo' = <<>>
    /\ UNCHANGED <<awareness, wanted, botched>>

(* The members go in reverse order, the bitmap first. *)
ReleaseMembers(selected) ==
    /\ section' = NoSection
    /\ botched' = (botched \/ selected = "bmp")
    /\ shot' = <<>> /\ writtenTo' = <<>>

(* Mutation: the old bitmap is forgotten, and the members just go. *)
DestroySectionAsItIs ==
    /\ section.made
    /\ ReleaseMembers(section.selected)
    /\ UNCHANGED <<awareness, wanted>>

(* ~section() selects the old bitmap before, if it knows one; it is valid  *)
(* and selecting it succeeds.                                              *)
DestroySection ==
    /\ section.made
    /\ ReleaseMembers(IF section.oldBmp THEN "old" ELSE section.selected)
    /\ UNCHANGED <<awareness, wanted>>

Relocate(x) ==
    /\ section.made
    /\ section' = [section EXCEPT !.x = x]
    /\ shot' = <<>> /\ writtenTo' = <<>>
    /\ UNCHANGED <<awareness, wanted, botched>>

(* capture(): the blit may throw; without a selected bitmap it goes to the *)
(* memory DC's own one and not to _data.                                   *)
Capture(fails) ==
    /\ section.made
    /\ AfterBlit
    /\ shot' = IF fails \/ section.selected # "bmp" THEN shot ELSE FromScreen(section)
    /\ UNCHANGED <<section, botched, writtenTo>>

(* write() *)
WriteBack(fails) ==
    /\ section.made
    /\ AfterBlit
    /\ writtenTo' = IF fails THEN writtenTo ELSE ToScreen(section)
    /\ UNCHANGED <<section, botched, shot>>

ScreenNext ==
    \/ \E context \in Mapped : SetThreadDpiAwareness(context)
    \/ \E x \in Positions, width \in Widths, aware \in BOOLEAN, done \in 0 .. 4 :
         ConstructSection(x, width, aware, done)
    \/ \E x \in Positions : Relocate(x)
    \/ \E fails \in BOOLEAN : Capture(fails) \/ WriteBack(fails)
    \/ DestroySection

ScreenSpec == ScreenInit /\ [][ScreenNext]_screenVars

-----------------------------------------------------------------------------

ScreenTypeOK ==
    /\ awareness \in Contexts /\ wanted \in Contexts
    /\ section.selected \in {"old", "bmp"}
    /\ section.made \/ section = NoSection

(* A section that stays where it is hands to Windows, in write(), the part *)
(* it captured, on every monitor and whether or not the thread's awareness *)
(* was changed in between.  What shows on the screen then is not claimed:  *)
(* "TODO figure out why writes are not visible on screen" (screen.hpp:230).*)
(* The awareness monitor_scale() takes on does not outlive the blit, a     *)
(* failed one included; that the thread gets back what it had is not true, *)
(* for Previous() is always NONE.  A bitmap is deleted unselected, for     *)
(* ~section() knows the old one whenever the bitmap is selected.           *)
SectionsSound ==
    /\ shot # <<>> /\ writtenTo # <<>> => writtenTo = shot
    /\ awareness \in {wanted, "UNAWARE"}
    /\ ~botched
=============================================================================
