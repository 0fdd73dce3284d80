-------------------------------- MODULE Keys --------------------------------
(***************************************************************************)
(* The keys of cth::io (cth/incl/cth/io/keybd/keys.hpp) and their          *)
(* conversion to and from Windows' virtual key codes                       *)
(* (cth_win/src/cth/win/io/win_key_convert.hpp).  A key is the name of its *)
(* enumerator, a virtual key code is its number.                           *)
(***************************************************************************)
EXTENDS Naturals, Sequences

(* enum class Key, in its order: ranges of keys are compared by position. *)
KeyNames == <<"NONE",
    "A", "B", "C", "D", "E", "F", "G", "H", "I", "J", "K", "L", "M",
    "N", "O", "P", "Q", "R", "S", "T", "U", "V", "W", "X", "Y", "Z",
    "DIGIT_0", "DIGIT_1", "DIGIT_2", "DIGIT_3", "DIGIT_4",
    "DIGIT_5", "DIGIT_6", "DIGIT_7", "DIGIT_8", "DIGIT_9",
    "SPACE", "BACKTICK", "MINUS", "EQUAL", "OPEN_BRACKET", "CLOSE_BRACKET",
    "BACKSLASH", "SEMICOLON", "QUOTE", "COMMA", "PERIOD", "SLASH", "HASH",
    "PLUS", "STAR", "LESS_THAN", "BACKSPACE", "CAPS_LOCK", "DELETE", "END",
    "ENTER", "ESCAPE", "HOME", "INSERT", "PAGE_DOWN", "PAGE_UP", "TAB",
    "ARROW_DOWN", "ARROW_LEFT", "ARROW_RIGHT", "ARROW_UP", "ALT", "CONTROL",
    "SHIFT", "META", "PLATFORM", "F1", "F2", "F3", "F4", "F5", "F6", "F7",
    "F8", "F9", "F10", "F11", "F12", "NUM_LOCK",
    "CUSTOM_0", "CUSTOM_1", "CUSTOM_2", "CUSTOM_3", "CUSTOM_4">>

Key == {KeyNames[i] : i \in DOMAIN KeyNames}

(* key_state: ex_key (the key, and whether it is the right one of two) and *)
(* whether it went down or up.                                             *)
KeyState == [key : Key, right : BOOLEAN, down : BOOLEAN]

Ordinal(k) == CHOOSE i \in DOMAIN KeyNames : KeyNames[i] = k

InRange(k, first, last) == Ordinal(k) \in Ordinal(first) .. Ordinal(last)

-----------------------------------------------------------------------------

(* The codes of the keys that are listed one by one; HASH and LESS_THAN    *)
(* share those of BACKTICK and COMMA.                                      *)
Listed == [
    SPACE |-> 32, BACKTICK |-> 192, MINUS |-> 189, EQUAL |-> 187,
    OPEN_BRACKET |-> 219, CLOSE_BRACKET |-> 221, BACKSLASH |-> 220,
    SEMICOLON |-> 186, QUOTE |-> 222, COMMA |-> 188, PERIOD |-> 190,
    SLASH |-> 191, HASH |-> 192, PLUS |-> 107, STAR |-> 106,
    LESS_THAN |-> 188, BACKSPACE |-> 8, CAPS_LOCK |-> 20, DELETE |-> 46,
    END |-> 35, ENTER |-> 13, ESCAPE |-> 27, HOME |-> 36, INSERT |-> 45,
    PAGE_DOWN |-> 34, PAGE_UP |-> 33, TAB |-> 9, ARROW_DOWN |-> 40,
    ARROW_LEFT |-> 37, ARROW_RIGHT |-> 39, ARROW_UP |-> 38, META |-> 93,
    NUM_LOCK |-> 144]

(* The keys there are two of: <<left, right>>. *)
Paired == [ALT |-> <<164, 165>>, CONTROL |-> <<162, 163>>,
           SHIFT |-> <<160, 161>>, PLATFORM |-> <<91, 92>>]

AlwaysExtended == {"DELETE", "END", "HOME", "INSERT", "PAGE_DOWN", "PAGE_UP",
    "ARROW_DOWN", "ARROW_LEFT", "ARROW_RIGHT", "ARROW_UP", "NUM_LOCK"}

(* to_win_key().  Code 0 is what its CTH_CRITICAL refuses. *)
VirtualKey(k, right) ==
    CASE InRange(k, "A", "Z") -> 65 + (Ordinal(k) - Ordinal("A"))
      [] InRange(k, "DIGIT_0", "DIGIT_9") -> 48 + (Ordinal(k) - Ordinal("DIGIT_0"))
      [] InRange(k, "F1", "F12") -> 112 + (Ordinal(k) - Ordinal("F1"))
      [] k \in DOMAIN Listed -> Listed[k]
      [] k \in DOMAIN Paired -> Paired[k][IF right THEN 2 ELSE 1]
      [] OTHER -> 0

Extended(k, right) == k \in AlwaysExtended \/ (right /\ k \in {"ALT", "CONTROL"})

(* to_win_input(): what send() hands to SendInput(). *)
ToWinInput(s) == [vk |-> VirtualKey(s.key, s.right),
                  extended |-> Extended(s.key, s.right),
                  up |-> ~s.down]

(* Windows on the way to the hook thread: raw input names a modifier by    *)
(* its common code and tells left from right by scan code 54 or the        *)
(* extended flag; a low-level hook gets the code that was sent.            *)
Delivered(w, raw) ==
    LET common == CASE w.vk \in {160, 161} -> 16
                    [] w.vk \in {162, 163} -> 17
                    [] w.vk \in {164, 165} -> 18
                    [] OTHER -> w.vk
    IN  [vkCode |-> IF raw THEN common ELSE w.vk,
         scanCode |-> IF w.vk = 161 THEN 54 ELSE 0,
         isUp |-> w.up,
         isExtended |-> w.extended]

-----------------------------------------------------------------------------

(* The cases of to_key_state_generic(): <<code, key, right>>. *)
Cases == {
    <<160, "SHIFT", FALSE>>, <<161, "SHIFT", TRUE>>,
    <<162, "CONTROL", FALSE>>, <<163, "CONTROL", TRUE>>,
    <<164, "ALT", FALSE>>, <<165, "ALT", TRUE>>,
    <<91, "PLATFORM", FALSE>>, <<92, "PLATFORM", TRUE>>,
    <<93, "META", FALSE>>, <<32, "SPACE", FALSE>>, <<8, "BACKSPACE", FALSE>>,
    <<20, "CAPS_LOCK", FALSE>>, <<13, "ENTER", FALSE>>, <<27, "ESCAPE", FALSE>>,
    <<9, "TAB", FALSE>>, <<144, "NUM_LOCK", FALSE>>, <<46, "DELETE", FALSE>>,
    <<35, "END", FALSE>>, <<36, "HOME", FALSE>>, <<45, "INSERT", FALSE>>,
    <<34, "PAGE_DOWN", FALSE>>, <<33, "PAGE_UP", FALSE>>,
    <<40, "ARROW_DOWN", FALSE>>, <<37, "ARROW_LEFT", FALSE>>,
    <<39, "ARROW_RIGHT", FALSE>>, <<38, "ARROW_UP", FALSE>>,
    <<192, "BACKTICK", FALSE>>, <<189, "MINUS", FALSE>>, <<187, "EQUAL", FALSE>>,
    <<219, "OPEN_BRACKET", FALSE>>, <<221, "CLOSE_BRACKET", FALSE>>,
    <<220, "BACKSLASH", FALSE>>, <<186, "SEMICOLON", FALSE>>,
    <<222, "QUOTE", FALSE>>, <<188, "COMMA", FALSE>>, <<190, "PERIOD", FALSE>>,
    <<191, "SLASH", FALSE>>, <<107, "PLUS", FALSE>>, <<106, "STAR", FALSE>>}

(* to_key_state_generic(): the modifiers' common codes need the scan code  *)
(* or the extended flag; the function keys have no case and are NONE.      *)
KeyOf(p) ==
    CASE p.vkCode = 16 -> <<"SHIFT", p.scanCode = 54>>
      [] p.vkCode = 17 -> <<"CONTROL", p.isExtended>>
      [] p.vkCode = 18 -> <<"ALT", p.isExtended>>
      [] \E c \in Cases : c[1] = p.vkCode ->
            Tail(CHOOSE c \in Cases : c[1] = p.vkCode)
      [] p.vkCode \in 65 .. 90 -> <<KeyNames[Ordinal("A") + (p.vkCode - 65)], FALSE>>
      [] p.vkCode \in 48 .. 57 -> <<KeyNames[Ordinal("DIGIT_0") + (p.vkCode - 48)], FALSE>>
      [] OTHER -> <<"NONE", FALSE>>

(* Mutation: SHIFT, too, is told by the extended flag. *)
ToKeyShiftExtended(p) ==
    [key |-> KeyOf(p)[1], down |-> ~p.isUp,
     right |-> IF p.vkCode = 16 THEN p.isExtended ELSE KeyOf(p)[2]]

ToKeyState(p) == [key |-> KeyOf(p)[1], down |-> ~p.isUp, right |-> KeyOf(p)[2]]

-----------------------------------------------------------------------------
(* One key sent and heard again. *)

VARIABLES
    sent,   \* the key state of send(), none before
    heard   \* the key state that to_key_state() makes of it

keyVars == <<sent, heard>>

Silent == [key |-> "NONE", right |-> FALSE, down |-> FALSE]

KeysInit == sent = Silent /\ heard = Silent

(* send(); the keys without a code are refused. *)
SendKey(s, raw) ==
    /\ sent = Silent
    /\ VirtualKey(s.key, s.right) # 0
    /\ sent' = s
    /\ heard' = ToKeyState(Delivered(ToWinInput(s), raw))

KeysNext == \E s \in KeyState, raw \in BOOLEAN : SendKey(s, raw)

(* What is sent is heard: the key, its side where there are two of it, and *)
(* its direction.  Exempt are HASH and LESS_THAN, which are heard as the   *)
(* key they share a code with, and the function keys, which are not heard. *)
SentIsHeard ==
    sent # Silent =>
      /\ heard.down = sent.down
      /\ heard.key = CASE sent.key = "HASH" -> "BACKTICK"
                       [] sent.key = "LESS_THAN" -> "COMMA"
                       [] InRange(sent.key, "F1", "F12") -> "NONE"
                       [] OTHER -> sent.key
      /\ heard.right = (sent.right /\ sent.key \in DOMAIN Paired)
=============================================================================
