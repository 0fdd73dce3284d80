------------------------------- MODULE Console -------------------------------
(***************************************************************************)
(* cth::io::col_stream (cth/incl/cth/io/console.hpp): a stack of text      *)
(* states and a cache of the escape sequence of the one on top.  A stream  *)
(* is a record, each member function an operator from stream to stream,    *)
(* and "out" is what the last call wrote: for every text the codes before  *)
(* it and the state the caller had asked for.                              *)
(***************************************************************************)
EXTENDS Naturals, Sequences, SequencesExt

CONSTANTS
    TextColors, BGColors, Intensities, Underlines,  \* the ANSI codes in use
    MaxStates   \* bound: states that the user pushes

ASSUME ConsoleAssumption ==
    /\ TextColors \subseteq (30 .. 37) \cup {39} \cup (90 .. 97)
    /\ BGColors \subseteq (40 .. 47) \cup (100 .. 107)
    /\ Intensities \subseteq {22, 1, 2}
    /\ Underlines \subseteq {24, 4, 21}
    /\ MaxStates \in Nat \ {0}

VARIABLE stream

(* enum class TextModifiers, in its order. *)
TextModifiers == <<"ITALIC", "BLINK", "INVERSE", "HIDDEN", "STRIKEOUT">>

(* ansi_state; BGColor::DEFAULT is 40, the code of BLACK. *)
AnsiDefault == [textColor |-> 39, bgColor |-> 40, intensity |-> 22,
                underline |-> 24, modifiers |-> {}]

NoCache == <<>>

ConsoleInit == stream = [stack |-> <<AnsiDefault>>, cache |-> NoCache, out |-> <<>>]

State(s) == Last(s.stack)

-----------------------------------------------------------------------------

(* to_ansi_code(TextModifiers, bool) *)
CodeOn == [ITALIC |-> 3, BLINK |-> 5, INVERSE |-> 7, HIDDEN |-> 8, STRIKEOUT |-> 9]

ModifierCode(m, on) == IF on THEN CodeOn[m] ELSE CodeOn[m] + 20

(* ansi_state::encode() *)
Encode(a) ==
    <<a.textColor, a.bgColor, a.intensity, a.underline>>
      \o [i \in DOMAIN TextModifiers |->
            ModifierCode(TextModifiers[i], TextModifiers[i] \in a.modifiers)]

Invalidate(s) == [s EXCEPT !.cache = NoCache]

SetState(s, a) == [s EXCEPT !.stack = Front(s.stack) \o <<a>>]

(* update(ansi_state) drops the cache, update(attribute) only on a change. *)
UpdateState(s, a) == Invalidate(SetState(s, a))

Update(s, attribute, value) ==
    IF State(s)[attribute] = value THEN s
    ELSE Invalidate(SetState(s, [State(s) EXCEPT ![attribute] = value]))

(* update(TextModifiers, bool), enable(), disable() *)
UpdateModifier(s, m, on) ==
    LET mods == State(s).modifiers
    IN  Update(s, "modifiers", IF on THEN mods \cup {m} ELSE mods \ {m})

Toggle(s, m) == UpdateModifier(s, m, m \notin State(s).modifiers)

PushState(s) == [s EXCEPT !.stack = Append(s.stack, State(s))]

(* Mutation: the cache survives. *)
PopStateCached(s) == IF Len(s.stack) <= 1 THEN s ELSE [s EXCEPT !.stack = Front(s.stack)]

(* Mutation: the last state goes, too. *)
PopStateUnguarded(s) == Invalidate([s EXCEPT !.stack = Front(s.stack)])

(* popState() keeps the last state. *)
PopState(s) ==
    IF Len(s.stack) <= 1 THEN s ELSE Invalidate([s EXCEPT !.stack = Front(s.stack)])

(* clearStates(): the top becomes the only one. *)
ClearStates(s) == Invalidate([s EXCEPT !.stack = <<State(s)>>])

(* print(str): the cached codes, made now if there are none, then a reset. *)
PrintText(s) ==
    LET codes == IF s.cache = NoCache THEN Encode(State(s)) ELSE s.cache
    IN  [s EXCEPT !.cache = codes,
                  !.out = Append(s.out, [codes |-> codes, wanted |-> State(s)])]

(* print(TextColor, str) and print(ansi_state, str) *)
PrintColored(s, color) == PopState(PrintText(Update(PushState(s), "textColor", color)))

PrintAs(s, a) == PopState(PrintText(UpdateState(PushState(s), a)))

-----------------------------------------------------------------------------

Quieted(s) == [s EXCEPT !.out = <<>>]

Values == [textColor |-> TextColors, bgColor |-> BGColors,
           intensity |-> Intensities, underline |-> Underlines]

ConsoleNext ==
    \/ \E attribute \in DOMAIN Values : \E value \in Values[attribute] :
         stream' = Update(Quieted(stream), attribute, value)
    \/ \E on \in BOOLEAN : stream' = UpdateModifier(Quieted(stream), "ITALIC", on)
    \/ stream' = Toggle(Quieted(stream), "STRIKEOUT")
    \/ stream' = UpdateState(Quieted(stream), AnsiDefault)
    \/ Len(stream.stack) < MaxStates /\ stream' = PushState(Quieted(stream))
    \/ stream' = PopState(Quieted(stream))
    \/ stream' = ClearStates(Quieted(stream))
    \/ stream' = PrintText(Quieted(stream))
    \/ \E color \in TextColors : stream' = PrintColored(Quieted(stream), color)
    \/ stream' = PrintAs(Quieted(stream), AnsiDefault)

-----------------------------------------------------------------------------
(* A terminal, as ECMA-48 has it: after the reset every code sets one      *)
(* attribute of the text that follows, so that each attribute is what the  *)
(* last of its own codes says.                                             *)

SetBy(codes, own, reset) ==
    LET hits == {i \in DOMAIN codes : codes[i] \in own}
    IN  IF hits = {} THEN reset ELSE codes[CHOOSE i \in hits : \A j \in hits : j <= i]

Rendered(codes) ==
    [textColor |-> SetBy(codes, (30 .. 39) \cup (90 .. 97), 39),
     bgColor |-> SetBy(codes, (40 .. 49) \cup (100 .. 107), 49),
     intensity |-> SetBy(codes, {1, 2, 22}, 22),
     underline |-> SetBy(codes, {4, 21, 24}, 24),
     modifiers |-> {m \in DOMAIN CodeOn :
                      SetBy(codes, {CodeOn[m], CodeOn[m] + 20}, 0) = CodeOn[m]}]

ConsoleTypeOK ==
    /\ Len(stream.stack) \in 1 .. MaxStates
    /\ stream.cache = NoCache \/ Len(stream.cache) = 9

(* Every text appears in the state that was current when it was printed:   *)
(* no call leaves a cached sequence of another state behind, and a text    *)
(* printed in a color of its own does not color the next one.              *)
ShownInItsState ==
    \A i \in DOMAIN stream.out : Rendered(stream.out[i].codes) = stream.out[i].wanted
=============================================================================
