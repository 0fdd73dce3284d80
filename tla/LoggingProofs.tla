---------------------------- MODULE LoggingProofs ----------------------------
(***************************************************************************)
(* Proofs about Console and Logging: every text appears in the state that  *)
(* was current when it was printed, a message leaves the states of the log *)
(* stream as they were, and a failure is reported once; for every set of   *)
(* attributes, every depth of the stack and every build.                   *)
(***************************************************************************)
EXTENDS Logging, SequenceTheorems, TLAPS

Modifiers == {"ITALIC", "BLINK", "INVERSE", "HIDDEN", "STRIKEOUT"}

AnsiStates == [textColor : (30 .. 37) \cup {39} \cup (90 .. 97),
               bgColor : (40 .. 47) \cup (100 .. 107),
               intensity : {22, 1, 2},
               underline : {24, 4, 21},
               modifiers : SUBSET Modifiers]

-----------------------------------------------------------------------------
(* What ansi_state::encode() writes, and how a terminal shows it.          *)

(* A record keeps its type when one field is set. *)
LEMMA SetField ==
    ASSUME NEW T, NEW B, NEW I, NEW U, NEW M,
           NEW a \in [textColor : T, bgColor : B, intensity : I, underline : U, modifiers : M]
    PROVE  LET R == [textColor : T, bgColor : B, intensity : I, underline : U, modifiers : M]
           IN  /\ \A c \in T : [a EXCEPT !.textColor = c] \in R
               /\ \A c \in B : [a EXCEPT !.bgColor = c] \in R
               /\ \A c \in I : [a EXCEPT !.intensity = c] \in R
               /\ \A c \in U : [a EXCEPT !.underline = c] \in R
               /\ \A c \in M : [a EXCEPT !.modifiers = c] \in R
OBVIOUS

LEMMA SetAttribute ==
    ASSUME NEW a \in AnsiStates
    PROVE  /\ \A c \in (30 .. 37) \cup {39} \cup (90 .. 97) : [a EXCEPT !.textColor = c] \in AnsiStates
           /\ \A c \in (40 .. 47) \cup (100 .. 107) : [a EXCEPT !.bgColor = c] \in AnsiStates
           /\ \A c \in {22, 1, 2} : [a EXCEPT !.intensity = c] \in AnsiStates
           /\ \A c \in {24, 4, 21} : [a EXCEPT !.underline = c] \in AnsiStates
           /\ \A c \in SUBSET Modifiers : [a EXCEPT !.modifiers = c] \in AnsiStates
<1> DEFINE T == (30 .. 37) \cup {39} \cup (90 .. 97)
           B == (40 .. 47) \cup (100 .. 107)
           I == {22, 1, 2}
           U == {24, 4, 21}
           M == SUBSET Modifiers
<1>1. AnsiStates = [textColor : T, bgColor : B, intensity : I, underline : U, modifiers : M]
  BY Zenon DEF AnsiStates
<1> HIDE DEF T, B, I, U, M
<1>2. /\ \A c \in T : [a EXCEPT !.textColor = c] \in AnsiStates
      /\ \A c \in B : [a EXCEPT !.bgColor = c] \in AnsiStates
      /\ \A c \in I : [a EXCEPT !.intensity = c] \in AnsiStates
      /\ \A c \in U : [a EXCEPT !.underline = c] \in AnsiStates
      /\ \A c \in M : [a EXCEPT !.modifiers = c] \in AnsiStates
  BY <1>1, SetField
<1> QED BY <1>2, Zenon DEF T, B, I, U, M

LEMMA FiveIsSeq ==
    ASSUME NEW S, NEW s \in [1 .. 5 -> S]
    PROVE  s \in Seq(S)
BY SeqDef

LEMMA EncodeIs ==
    ASSUME NEW a \in AnsiStates
    PROVE  /\ DOMAIN Encode(a) = 1 .. 9
           /\ Encode(a)[1] = a.textColor
           /\ Encode(a)[2] = a.bgColor
           /\ Encode(a)[3] = a.intensity
           /\ Encode(a)[4] = a.underline
           /\ Encode(a)[5] = IF "ITALIC" \in a.modifiers THEN 3 ELSE 23
           /\ Encode(a)[6] = IF "BLINK" \in a.modifiers THEN 5 ELSE 25
           /\ Encode(a)[7] = IF "INVERSE" \in a.modifiers THEN 7 ELSE 27
           /\ Encode(a)[8] = IF "HIDDEN" \in a.modifiers THEN 8 ELSE 28
           /\ Encode(a)[9] = IF "STRIKEOUT" \in a.modifiers THEN 9 ELSE 29
<1> DEFINE c == <<a.textColor, a.bgColor, a.intensity, a.underline>>
           m == [i \in DOMAIN TextModifiers |->
                   ModifierCode(TextModifiers[i], TextModifiers[i] \in a.modifiers)]
<1>1. c \in Seq(Nat) /\ Len(c) = 4
  BY DEF AnsiStates
<1>2. /\ DOMAIN m = 1 .. 5
      /\ m[1] = IF "ITALIC" \in a.modifiers THEN 3 ELSE 23
      /\ m[2] = IF "BLINK" \in a.modifiers THEN 5 ELSE 25
      /\ m[3] = IF "INVERSE" \in a.modifiers THEN 7 ELSE 27
      /\ m[4] = IF "HIDDEN" \in a.modifiers THEN 8 ELSE 28
      /\ m[5] = IF "STRIKEOUT" \in a.modifiers THEN 9 ELSE 29
  BY DEF TextModifiers, ModifierCode, CodeOn
<1>3. m \in Seq(Nat) /\ Len(m) = 5
  <2>1. m = [i \in 1 .. 5 |-> m[i]]
    BY <1>2
  <2>2. \A i \in 1 .. 5 : m[i] \in Nat
    <3>1. \A i \in 1 .. 5 : i = 1 \/ i = 2 \/ i = 3 \/ i = 4 \/ i = 5
      OBVIOUS
    <3> HIDE DEF m
    <3> QED BY <1>2, <3>1
  <2> HIDE DEF m
  <2>3. m \in [1 .. 5 -> Nat]
    BY <2>1, <2>2
  <2>4. m \in Seq(Nat)
    BY <2>3, FiveIsSeq
  <2> QED BY <1>2, <2>4, LenProperties
<1>4. Encode(a) = c \o m
  BY DEF Encode
<1> HIDE DEF c, m
<1>5. /\ Len(c \o m) = 9 /\ c \o m \in Seq(Nat)
      /\ \A i \in 1 .. 9 : (c \o m)[i] = IF i <= 4 THEN c[i] ELSE m[i - 4]
  <2>1. /\ Len(c \o m) = Len(c) + Len(m) /\ c \o m \in Seq(Nat)
        /\ \A i \in 1 .. Len(c) + Len(m) :
              (c \o m)[i] = IF i <= Len(c) THEN c[i] ELSE m[i - Len(c)]
    BY <1>1, <1>3, ConcatProperties
  <2>2. Len(c) = 4 /\ Len(c) + Len(m) = 9
    BY <1>1, <1>3
  <2> QED BY <2>1, <2>2
<1>6. /\ c[1] = a.textColor /\ c[2] = a.bgColor
      /\ c[3] = a.intensity /\ c[4] = a.underline
  BY DEF c
<1>7. DOMAIN (c \o m) = 1 .. 9
  BY <1>5, LenProperties
<1>8. /\ (c \o m)[5] = m[1] /\ (c \o m)[6] = m[2] /\ (c \o m)[7] = m[3]
      /\ (c \o m)[8] = m[4] /\ (c \o m)[9] = m[5]
      /\ (c \o m)[1] = c[1] /\ (c \o m)[2] = c[2] /\ (c \o m)[3] = c[3] /\ (c \o m)[4] = c[4]
  <2> DEFINE w == c \o m
  <2> HIDE DEF w
  <2>1. \A i \in 1 .. 9 : w[i] = IF i <= 4 THEN c[i] ELSE m[i - 4]
    BY <1>5 DEF w
  <2>2. w[5] = m[1] /\ w[6] = m[2] /\ w[7] = m[3] /\ w[8] = m[4] /\ w[9] = m[5]
    <3>1. w[5] = m[5 - 4] /\ w[6] = m[6 - 4] /\ w[7] = m[7 - 4] /\ w[8] = m[8 - 4] /\ w[9] = m[9 - 4]
      BY <2>1
    <3> QED BY <3>1
  <2>3. w[1] = c[1] /\ w[2] = c[2] /\ w[3] = c[3] /\ w[4] = c[4]
    BY <2>1
  <2> QED BY <2>2, <2>3 DEF w
<1> QED BY <1>2, <1>4, <1>6, <1>7, <1>8

(* The only code of an attribute is what the terminal makes of it.         *)
LEMMA SetByOnly ==
    ASSUME NEW codes, NEW own, NEW reset, NEW k \in DOMAIN codes, DOMAIN codes \subseteq Int,
           codes[k] \in own, \A i \in DOMAIN codes : codes[i] \in own => i = k
    PROVE  SetBy(codes, own, reset) = codes[k]
<1> DEFINE hits == {i \in DOMAIN codes : codes[i] \in own}
<1>1. hits = {k}
  OBVIOUS
<1>2. (CHOOSE i \in hits : \A j \in hits : j <= i) = k
  BY <1>1
<1> QED BY <1>1, <1>2 DEF SetBy

LEMMA RenderedEncode ==
    ASSUME NEW a \in AnsiStates
    PROVE  Rendered(Encode(a)) = a
<1> DEFINE e == Encode(a)
<1>1. /\ DOMAIN e = 1 .. 9
      /\ \A i \in 1 .. 9 : i \in {1, 2, 3, 4, 5, 6, 7, 8, 9}
      /\ e[1] \in (30 .. 37) \cup {39} \cup (90 .. 97)
      /\ e[2] \in (40 .. 47) \cup (100 .. 107)
      /\ e[3] \in {22, 1, 2} /\ e[4] \in {24, 4, 21}
      /\ e[5] \in {3, 23} /\ e[6] \in {5, 25} /\ e[7] \in {7, 27}
      /\ e[8] \in {8, 28} /\ e[9] \in {9, 29}
  BY EncodeIs DEF AnsiStates
<1> HIDE DEF e
<1>2. SetBy(e, (30 .. 39) \cup (90 .. 97), 39) = e[1]
  <2>1. \A i \in DOMAIN e : e[i] \in (30 .. 39) \cup (90 .. 97) => i = 1
    BY <1>1
  <2> QED BY <1>1, <2>1, SetByOnly
<1>3. SetBy(e, (40 .. 49) \cup (100 .. 107), 49) = e[2]
  <2>1. \A i \in DOMAIN e : e[i] \in (40 .. 49) \cup (100 .. 107) => i = 2
    BY <1>1
  <2> QED BY <1>1, <2>1, SetByOnly
<1>4. SetBy(e, {1, 2, 22}, 22) = e[3]
  <2>1. \A i \in DOMAIN e : e[i] \in {1, 2, 22} => i = 3
    BY <1>1
  <2> QED BY <1>1, <2>1, SetByOnly
<1>5. SetBy(e, {4, 21, 24}, 24) = e[4]
  <2>1. \A i \in DOMAIN e : e[i] \in {4, 21, 24} => i = 4
    BY <1>1
  <2> QED BY <1>1, <2>1, SetByOnly
<1>6. \A m \in Modifiers :
        SetBy(e, {CodeOn[m], CodeOn[m] + 20}, 0)
          = e[CASE m = "ITALIC" -> 5 [] m = "BLINK" -> 6 [] m = "INVERSE" -> 7
                [] m = "HIDDEN" -> 8 [] m = "STRIKEOUT" -> 9]
  <2>1. SetBy(e, {3, 3 + 20}, 0) = e[5]
    <3>1. \A i \in DOMAIN e : e[i] \in {3, 3 + 20} => i = 5
      BY <1>1
    <3> QED BY <1>1, <3>1, SetByOnly
  <2>2. SetBy(e, {5, 5 + 20}, 0) = e[6]
    <3>1. \A i \in DOMAIN e : e[i] \in {5, 5 + 20} => i = 6
      BY <1>1
    <3> QED BY <1>1, <3>1, SetByOnly
  <2>3. SetBy(e, {7, 7 + 20}, 0) = e[7]
    <3>1. \A i \in DOMAIN e : e[i] \in {7, 7 + 20} => i = 7
      BY <1>1
    <3> QED BY <1>1, <3>1, SetByOnly
  <2>4. SetBy(e, {8, 8 + 20}, 0) = e[8]
    <3>1. \A i \in DOMAIN e : e[i] \in {8, 8 + 20} => i = 8
      BY <1>1
    <3> QED BY <1>1, <3>1, SetByOnly
  <2>5. SetBy(e, {9, 9 + 20}, 0) = e[9]
    <3>1. \A i \in DOMAIN e : e[i] \in {9, 9 + 20} => i = 9
      BY <1>1
    <3> QED BY <1>1, <3>1, SetByOnly
  <2>6. /\ CodeOn["ITALIC"] = 3 /\ CodeOn["BLINK"] = 5 /\ CodeOn["INVERSE"] = 7
        /\ CodeOn["HIDDEN"] = 8 /\ CodeOn["STRIKEOUT"] = 9
    BY DEF CodeOn
  <2> QED BY <2>1, <2>2, <2>3, <2>4, <2>5, <2>6 DEF Modifiers
<1>7. DOMAIN CodeOn = Modifiers
  BY DEF CodeOn, Modifiers
<1>8. \A m \in Modifiers :
        SetBy(e, {CodeOn[m], CodeOn[m] + 20}, 0) = CodeOn[m] <=> m \in a.modifiers
  <2>1. /\ CodeOn["ITALIC"] = 3 /\ CodeOn["BLINK"] = 5 /\ CodeOn["INVERSE"] = 7
        /\ CodeOn["HIDDEN"] = 8 /\ CodeOn["STRIKEOUT"] = 9
    BY DEF CodeOn
  <2>2. /\ e[5] = IF "ITALIC" \in a.modifiers THEN 3 ELSE 23
        /\ e[6] = IF "BLINK" \in a.modifiers THEN 5 ELSE 25
        /\ e[7] = IF "INVERSE" \in a.modifiers THEN 7 ELSE 27
        /\ e[8] = IF "HIDDEN" \in a.modifiers THEN 8 ELSE 28
        /\ e[9] = IF "STRIKEOUT" \in a.modifiers THEN 9 ELSE 29
    BY EncodeIs DEF e
  <2> SUFFICES ASSUME NEW m \in Modifiers
               PROVE  SetBy(e, {CodeOn[m], CodeOn[m] + 20}, 0) = CodeOn[m] <=> m \in a.modifiers
    OBVIOUS
  <2>3. CASE m = "ITALIC"
    BY <1>6, <2>1, <2>2, <2>3
  <2>4. CASE m = "BLINK"
    BY <1>6, <2>1, <2>2, <2>4
  <2>5. CASE m = "INVERSE"
    BY <1>6, <2>1, <2>2, <2>5
  <2>6. CASE m = "HIDDEN"
    BY <1>6, <2>1, <2>2, <2>6
  <2>7. CASE m = "STRIKEOUT"
    BY <1>6, <2>1, <2>2, <2>7
  <2> QED BY <2>3, <2>4, <2>5, <2>6, <2>7 DEF Modifiers
<1>9. {m \in DOMAIN CodeOn : SetBy(e, {CodeOn[m], CodeOn[m] + 20}, 0) = CodeOn[m]} = a.modifiers
  BY <1>7, <1>8 DEF AnsiStates
<1>10. /\ e[1] = a.textColor /\ e[2] = a.bgColor /\ e[3] = a.intensity /\ e[4] = a.underline
  BY EncodeIs DEF e
<1>11. Rendered(e) = [textColor |-> a.textColor, bgColor |-> a.bgColor,
                      intensity |-> a.intensity, underline |-> a.underline,
                      modifiers |-> a.modifiers]
  BY <1>2, <1>3, <1>4, <1>5, <1>9, <1>10 DEF Rendered
<1> QED BY <1>11 DEF AnsiStates, e

-----------------------------------------------------------------------------
(* A stream with the state a on top of the states below, a cache that is   *)
(* empty or a's, and the texts that the last call wrote.                   *)

Text(a) == [codes |-> Encode(a), wanted |-> a]

Texts == {Text(a) : a \in AnsiStates}

Caches == {NoCache} \cup {Encode(a) : a \in AnsiStates}

Streams == [stack : Seq(AnsiStates), cache : Caches, out : Seq(Texts)]

Has(s, below, a, texts) ==
    /\ s \in Streams /\ below \in Seq(AnsiStates) /\ a \in AnsiStates /\ texts \in Seq(Texts)
    /\ s.stack = Append(below, a)
    /\ s.cache = NoCache \/ s.cache = Encode(a)
    /\ s.out = texts

LEMMA TopOfAppend ==
    ASSUME NEW S, NEW below \in Seq(S), NEW a \in S
    PROVE  /\ Last(Append(below, a)) = a
           /\ Front(Append(below, a)) = below
           /\ Len(Append(below, a)) = Len(below) + 1 /\ Len(below) \in Nat
<1> DEFINE w == Append(below, a)
<1>1. w \in Seq(S) /\ Len(w) = Len(below) + 1 /\ w[Len(below) + 1] = a /\ Len(below) \in Nat
  BY AppendProperties, LenProperties
<1>2. SubSeq(w, 1, Len(w) - 1) = below
  <2>1. w = below \o <<a>> /\ <<a>> \in Seq(S)
    BY AppendIsConcat
  <2>2. Len(w) - 1 = Len(below)
    BY <1>1
  <2>3. CASE below = <<>>
    <3>1. Len(below) = 0
      BY <2>3
    <3> QED BY <2>2, <2>3, <3>1, SubSeqEmpty
  <2>4. CASE below # <<>>
    <3>1. 1 \in 1 .. Len(below) /\ Len(below) \in 1 .. Len(below)
      BY <1>1, <2>4, EmptySeq
    <3>2. SubSeq(below \o <<a>>, 1, Len(below)) = SubSeq(below, 1, Len(below))
      BY <2>1, <3>1, SubSeqOfConcat1
    <3> QED BY <2>1, <2>2, <3>2, SubSeqFull
  <2> QED BY <2>3, <2>4
<1> QED BY <1>1, <1>2 DEF Last, Front

LEMMA HasState ==
    ASSUME NEW s, NEW below, NEW a, NEW texts, Has(s, below, a, texts)
    PROVE  State(s) = a /\ s.stack = Append(below, a) /\ s.out = texts
<1>1. Last(Append(below, a)) = a
  BY TopOfAppend DEF Has
<1> QED BY <1>1 DEF Has, State

(* A new stack, and no cache.                                              *)
LEMMA HasStack ==
    ASSUME NEW s \in Streams, NEW below \in Seq(AnsiStates), NEW a \in AnsiStates,
           NEW u, u = [[s EXCEPT !.stack = Append(below, a)] EXCEPT !.cache = NoCache]
    PROVE  Has(u, below, a, s.out)
<1>1. Append(below, a) \in Seq(AnsiStates)
  BY AppendProperties
<1>2. NoCache \in Caches
  BY DEF Caches
<1> QED BY <1>1, <1>2 DEF Has, Streams

LEMMA HasQuieted ==
    ASSUME NEW s, NEW below, NEW a, NEW texts, Has(s, below, a, texts)
    PROVE  Has(Quieted(s), below, a, <<>>)
<1>1. <<>> \in Seq(Texts)
  BY EmptySeq
<1> QED BY <1>1 DEF Has, Quieted, Streams

LEMMA HasUpdateState ==
    ASSUME NEW s, NEW below, NEW a, NEW texts, Has(s, below, a, texts), NEW b \in AnsiStates
    PROVE  Has(UpdateState(s, b), below, b, texts)
<1>1. s \in Streams /\ below \in Seq(AnsiStates) /\ a \in AnsiStates
      /\ s.stack = Append(below, a) /\ s.out = texts
  BY DEF Has
<1>2. Front(s.stack) \o <<b>> = Append(below, b)
  BY <1>1, TopOfAppend, AppendIsConcat, ZenonT(60)
<1>3. UpdateState(s, b) = [[s EXCEPT !.stack = Append(below, b)] EXCEPT !.cache = NoCache]
  BY <1>2 DEF UpdateState, SetState, Invalidate
<1>4. Has(UpdateState(s, b), below, b, s.out)
  BY <1>1, <1>3, HasStack
<1> QED BY <1>1, <1>4

LEMMA HasUpdate ==
    ASSUME NEW s, NEW below, NEW a, NEW texts, Has(s, below, a, texts),
           NEW attribute \in DOMAIN a, NEW value,
           [a EXCEPT ![attribute] = value] \in AnsiStates
    PROVE  Has(Update(s, attribute, value), below, [a EXCEPT ![attribute] = value], texts)
<1> DEFINE b == [a EXCEPT ![attribute] = value]
<1>1. State(s) = a
  BY HasState
<1>2. CASE a[attribute] = value
  <2>1. b = a
    BY <1>2 DEF Has, AnsiStates
  <2>2. Update(s, attribute, value) = s
    BY <1>1, <1>2 DEF Update
  <2> QED BY <2>1, <2>2
<1>3. CASE a[attribute] # value
  <2>1. Update(s, attribute, value) = UpdateState(s, b)
    BY <1>1, <1>3 DEF Update, UpdateState
  <2> HIDE DEF b
  <2>2. b \in AnsiStates
    BY DEF b
  <2> QED BY <2>1, <2>2, HasUpdateState DEF b
<1> QED BY <1>2, <1>3

LEMMA HasPush ==
    ASSUME NEW s, NEW below, NEW a, NEW texts, Has(s, below, a, texts)
    PROVE  Has(PushState(s), Append(below, a), a, texts)
<1>1. PushState(s) = [s EXCEPT !.stack = Append(Append(below, a), a)]
  BY HasState DEF PushState
<1>2. /\ Append(below, a) \in Seq(AnsiStates)
      /\ Append(Append(below, a), a) \in Seq(AnsiStates)
  BY AppendProperties DEF Has
<1> QED BY <1>1, <1>2 DEF Has, Streams

LEMMA HasPop ==
    ASSUME NEW s, NEW below \in Seq(AnsiStates), NEW b \in AnsiStates, NEW a, NEW texts,
           Has(s, Append(below, b), a, texts)
    PROVE  Has(PopState(s), below, b, texts)
<1>1. /\ s \in Streams /\ a \in AnsiStates /\ Append(below, b) \in Seq(AnsiStates)
      /\ s.stack = Append(Append(below, b), a) /\ s.out = texts
  BY DEF Has
<1>2. /\ Len(s.stack) = Len(Append(below, b)) + 1
      /\ Front(s.stack) = Append(below, b)
  <2> DEFINE w == Append(below, b)
  <2> HIDE DEF w
  <2>1. w \in Seq(AnsiStates) /\ a \in AnsiStates
    BY <1>1 DEF w
  <2>2. Len(Append(w, a)) = Len(w) + 1 /\ Front(Append(w, a)) = w
    BY <2>1, TopOfAppend
  <2> QED BY <1>1, <2>2 DEF w
<1>3. Len(Append(below, b)) = Len(below) + 1 /\ Len(below) \in Nat
  BY TopOfAppend
<1>4. ~(Len(s.stack) <= 1)
  BY <1>2, <1>3
<1>5. PopState(s) = [[s EXCEPT !.stack = Append(below, b)] EXCEPT !.cache = NoCache]
  BY <1>2, <1>4 DEF PopState, Invalidate
<1>6. Has(PopState(s), below, b, s.out)
  BY <1>1, <1>5, HasStack
<1> QED BY <1>1, <1>6

LEMMA HasPopLast ==
    ASSUME NEW s, NEW a, NEW texts, Has(s, <<>>, a, texts)
    PROVE  PopState(s) = s
<1>1. Len(Append(<<>>, a)) = 1
  OBVIOUS
<1> QED BY <1>1, HasState DEF PopState

LEMMA HasClear ==
    ASSUME NEW s, NEW below, NEW a, NEW texts, Has(s, below, a, texts)
    PROVE  Has(ClearStates(s), <<>>, a, texts)
<1>1. <<a>> = Append(<<>>, a) /\ <<>> \in Seq(AnsiStates)
  BY EmptySeq
<1>2. ClearStates(s) = [[s EXCEPT !.stack = Append(<<>>, a)] EXCEPT !.cache = NoCache]
  BY <1>1, HasState DEF ClearStates, Invalidate
<1>3. s \in Streams /\ a \in AnsiStates /\ s.out = texts
  BY DEF Has
<1>4. Has(ClearStates(s), <<>>, a, s.out)
  BY <1>1, <1>2, <1>3, HasStack
<1> QED BY <1>3, <1>4

LEMMA HasPrint ==
    ASSUME NEW s, NEW below, NEW a, NEW texts, Has(s, below, a, texts)
    PROVE  Has(PrintText(s), below, a, Append(texts, Text(a)))
<1>1. PrintText(s) = [s EXCEPT !.cache = Encode(a), !.out = Append(texts, Text(a))]
  <2>1. State(s) = a /\ s.out = texts /\ (s.cache = NoCache \/ s.cache = Encode(a))
    BY HasState DEF Has
  <2>2. (IF s.cache = NoCache THEN Encode(State(s)) ELSE s.cache) = Encode(a)
    BY <2>1
  <2> QED BY <2>1, <2>2 DEF PrintText, Text
<1>2. Append(texts, Text(a)) \in Seq(Texts)
  <2>1. texts \in Seq(Texts) /\ Text(a) \in Texts
    BY DEF Has, Texts
  <2> QED BY <2>1, AppendProperties
<1>3. Encode(a) \in Caches
  BY DEF Has, Caches
<1> QED BY <1>1, <1>2, <1>3 DEF Has, Streams

(* print(ansi_state, str) and print(TextColor, str): in a state of its own *)
(* that is gone afterwards.                                                *)
LEMMA HasPrintAs ==
    ASSUME NEW s, NEW below, NEW a, NEW texts, Has(s, below, a, texts), NEW b \in AnsiStates
    PROVE  Has(PrintAs(s, b), below, a, Append(texts, Text(b)))
<1>1. Has(PushState(s), Append(below, a), a, texts)
  BY HasPush
<1>2. Has(UpdateState(PushState(s), b), Append(below, a), b, texts)
  BY <1>1, HasUpdateState
<1>3. Has(PrintText(UpdateState(PushState(s), b)), Append(below, a), b, Append(texts, Text(b)))
  BY <1>2, HasPrint
<1>4. below \in Seq(AnsiStates) /\ a \in AnsiStates
  BY DEF Has
<1> QED BY <1>3, <1>4, HasPop DEF PrintAs

LEMMA HasPrintColored ==
    ASSUME NEW s, NEW below, NEW a, NEW texts, Has(s, below, a, texts),
           NEW color \in (30 .. 37) \cup {39} \cup (90 .. 97)
    PROVE  Has(PrintColored(s, color), below, a,
               Append(texts, Text([a EXCEPT !.textColor = color])))
<1> DEFINE b == [a EXCEPT !.textColor = color]
<1>1. Has(PushState(s), Append(below, a), a, texts)
  BY HasPush
<1>2. "textColor" \in DOMAIN a /\ b \in AnsiStates
  <2>1. a \in AnsiStates
    BY DEF Has
  <2> QED BY <2>1 DEF AnsiStates
<1>3. Has(Update(PushState(s), "textColor", color), Append(below, a), b, texts)
  BY <1>1, <1>2, HasUpdate
<1> HIDE DEF b
<1>4. Has(PrintText(Update(PushState(s), "textColor", color)), Append(below, a), b,
          Append(texts, Text(b)))
  BY <1>3, HasPrint
<1>5. Has(PrintColored(s, color), below, a, Append(texts, Text(b)))
  <2>1. below \in Seq(AnsiStates) /\ a \in AnsiStates
    BY DEF Has
  <2> QED BY <1>4, <2>1, HasPop DEF PrintColored
<1> QED BY <1>5 DEF b

LEMMA HasUpdateModifier ==
    ASSUME NEW s, NEW below, NEW a, NEW texts, Has(s, below, a, texts),
           NEW m \in Modifiers, NEW on \in BOOLEAN
    PROVE  Has(UpdateModifier(s, m, on), below,
               [a EXCEPT !.modifiers = IF on THEN a.modifiers \cup {m} ELSE a.modifiers \ {m}],
               texts)
<1> DEFINE mods == IF on THEN a.modifiers \cup {m} ELSE a.modifiers \ {m}
<1>1. a \in AnsiStates
  BY DEF Has
<1>2. mods \subseteq Modifiers
  BY <1>1 DEF AnsiStates
<1>3. UpdateModifier(s, m, on) = Update(s, "modifiers", mods)
  BY HasState DEF UpdateModifier
<1> HIDE DEF mods
<1>4. "modifiers" \in DOMAIN a /\ [a EXCEPT !["modifiers"] = mods] \in AnsiStates
  BY <1>1, <1>2 DEF AnsiStates
<1>5. Has(Update(s, "modifiers", mods), below, [a EXCEPT !["modifiers"] = mods], texts)
  BY <1>4, HasUpdate
<1> QED BY <1>3, <1>5 DEF mods

LEMMA SeveritySet == ToSet(Severities) = {"LOG", "INFO", "WARNING", "ERR", "CRITICAL"}
<1>1. DOMAIN Severities = {1, 2, 3, 4, 5}
  BY DEF Severities
<1>2. /\ Severities[1] = "LOG" /\ Severities[2] = "INFO" /\ Severities[3] = "WARNING"
      /\ Severities[4] = "ERR" /\ Severities[5] = "CRITICAL"
  BY DEF Severities
<1> QED BY <1>1, <1>2 DEF ToSet

LEMMA SeverityColor ==
    \A severity \in ToSet(Severities) : Color[severity] \in {97, 36, 33, 31}
BY SeveritySet DEF Color

(* log::msg(): the label in the severity's color, italic and underlined,   *)
(* the space in the stream's own state, the message in color and bold, and *)
(* the stack as it was.                                                    *)
LEMMA HasMsg ==
    ASSUME NEW s, NEW below, NEW a, NEW texts, Has(s, below, a, texts),
           NEW severity \in ToSet(Severities)
    PROVE  LET label == [a EXCEPT !.textColor = Color[severity], !.underline = 4,
                                  !.modifiers = a.modifiers \cup {"ITALIC"}]
               bold == [a EXCEPT !.textColor = Color[severity], !.intensity = 1]
           IN  /\ label \in AnsiStates /\ bold \in AnsiStates
               /\ Has(Msg(s, severity), below, a,
                      Append(Append(Append(texts, Text(label)), Text(a)), Text(bold)))
<1> DEFINE color == Color[severity]
           label == [a EXCEPT !.textColor = color, !.underline = 4,
                              !.modifiers = a.modifiers \cup {"ITALIC"}]
           bold == [a EXCEPT !.textColor = color, !.intensity = 1]
           italic == [a EXCEPT !.modifiers = a.modifiers \cup {"ITALIC"}]
           under == [italic EXCEPT !.underline = 4]
           bright == [a EXCEPT !.intensity = 1]
<1>1. a \in AnsiStates /\ below \in Seq(AnsiStates) /\ texts \in Seq(Texts)
  BY DEF Has
<1>2. color \in (30 .. 37) \cup {39} \cup (90 .. 97)
  BY SeverityColor
<1> HIDE DEF color
<1>3. /\ italic \in AnsiStates /\ under \in AnsiStates /\ bright \in AnsiStates
      /\ label \in AnsiStates /\ bold \in AnsiStates
  <2>0. a.modifiers \cup {"ITALIC"} \in SUBSET Modifiers
    BY <1>1 DEF AnsiStates, Modifiers
  <2>1. italic \in AnsiStates
    BY <1>1, <2>0, SetAttribute
  <2>2. under \in AnsiStates
    <3> HIDE DEF italic
    <3> QED BY <2>1, SetAttribute
  <2>3. bright \in AnsiStates
    BY <1>1, SetAttribute
  <2>4. label \in AnsiStates
    BY <1>1, <1>2, <2>0, ZenonT(60) DEF AnsiStates
  <2>5. bold \in AnsiStates
    <3>1. [a EXCEPT !.textColor = color] \in AnsiStates
      BY <1>1, <1>2, SetAttribute
    <3>2. [[a EXCEPT !.textColor = color] EXCEPT !.intensity = 1] \in AnsiStates
      BY <3>1, SetAttribute
    <3> QED BY <3>2
  <2> QED BY <2>1, <2>2, <2>3, <2>4, <2>5
<1>4. [under EXCEPT !.textColor = color] = label /\ [bright EXCEPT !.textColor = color] = bold
  BY <1>1, <1>2, <1>3 DEF AnsiStates
<1>5. DOMAIN italic = DOMAIN a /\ "underline" \in DOMAIN italic /\ "intensity" \in DOMAIN a
  BY <1>1, <1>3 DEF AnsiStates
<1> DEFINE s1 == UpdateModifier(PushState(s), "ITALIC", TRUE)
           s2 == Update(s1, "underline", 4)
           s3 == PopState(PrintColored(s2, color))
           s4 == PrintText(s3)
           s5 == Update(PushState(s4), "intensity", 1)
           s6 == PopState(PrintColored(s5, color))
           t1 == Append(texts, Text(label))
           t2 == Append(t1, Text(a))
           t3 == Append(t2, Text(bold))
<1> HIDE DEF label, bold, italic, under, bright
<1>6. Has(PushState(s), Append(below, a), a, texts)
  BY HasPush
<1>7. Has(s1, Append(below, a), italic, texts)
  BY <1>6, HasUpdateModifier DEF italic, Modifiers
<1> HIDE DEF s1
<1>8. Has(s2, Append(below, a), under, texts)
  <2>1. [italic EXCEPT !["underline"] = 4] \in AnsiStates
    BY <1>3 DEF under
  <2> QED BY <1>5, <1>7, <2>1, HasUpdate DEF under
<1> HIDE DEF s2
<1>9. Has(PrintColored(s2, color), Append(below, a), under, t1)
  BY <1>2, <1>4, <1>8, HasPrintColored
<1>10. Has(s3, below, a, t1)
  BY <1>1, <1>9, HasPop
<1> HIDE DEF s3, t1
<1>11. Has(s4, below, a, t2)
  BY <1>10, HasPrint
<1> HIDE DEF s4, t2
<1>12. Has(PushState(s4), Append(below, a), a, t2)
  BY <1>11, HasPush
<1>13. Has(s5, Append(below, a), bright, t2)
  <2>1. [a EXCEPT !["intensity"] = 1] \in AnsiStates
    BY <1>3 DEF bright
  <2> QED BY <1>5, <1>12, <2>1, HasUpdate DEF bright
<1> HIDE DEF s5
<1>14. Has(PrintColored(s5, color), Append(below, a), bright, t3)
  BY <1>2, <1>4, <1>13, HasPrintColored
<1>15. Has(s6, below, a, t3)
  BY <1>1, <1>14, HasPop
<1>16. Msg(s, severity) = s6
  BY DEF Msg, s1, s2, s3, s4, s5, color
<1> QED BY <1>3, <1>15, <1>16 DEF t1, t2, label, bold, color

-----------------------------------------------------------------------------
(* Every step of the stream keeps a cache that fits its state.             *)

StreamInv ==
    \E below \in Seq(AnsiStates), a \in AnsiStates, texts \in Seq(Texts) :
        Has(stream, below, a, texts)

LEMMA StreamInit == ConsoleInit => StreamInv
<1> SUFFICES ASSUME ConsoleInit PROVE StreamInv
  OBVIOUS
<1>1. AnsiDefault \in AnsiStates
  BY DEF AnsiDefault, AnsiStates
<1>2. <<>> \in Seq(AnsiStates) /\ <<>> \in Seq(Texts)
  BY EmptySeq
<1>3. <<AnsiDefault>> = Append(<<>>, AnsiDefault) /\ <<AnsiDefault>> \in Seq(AnsiStates)
  BY <1>1
<1>4. stream \in Streams
  BY <1>2, <1>3 DEF ConsoleInit, Streams, Caches
<1>5. Has(stream, <<>>, AnsiDefault, <<>>)
  BY <1>1, <1>2, <1>3, <1>4 DEF ConsoleInit, Has
<1> QED BY <1>1, <1>2, <1>5 DEF StreamInv

(* No call but a message writes more than one text.                        *)
LEMMA ConsoleStep ==
    ASSUME StreamInv, ConsoleNext
    PROVE  StreamInv' /\ Len(stream'.out) <= 1
<1>1. PICK below \in Seq(AnsiStates), a \in AnsiStates, texts \in Seq(Texts) :
        Has(stream, below, a, texts)
  BY DEF StreamInv
<1> DEFINE q == Quieted(stream)
<1>2. Has(q, below, a, <<>>)
  BY <1>1, HasQuieted
<1> HIDE DEF q
<1>3. AnsiDefault \in AnsiStates
  BY DEF AnsiDefault, AnsiStates
<1>4. ASSUME NEW b, NEW c, NEW t, Has(stream', b, c, t), Len(t) <= 1
      PROVE  StreamInv' /\ Len(stream'.out) <= 1
  BY <1>4 DEF StreamInv, Has
<1>5. Len(<<>>) = 0 /\ \A c : Len(Append(<<>>, c)) = 1
  OBVIOUS
<1>6. ASSUME NEW attribute \in DOMAIN Values, NEW value \in Values[attribute],
             stream' = Update(q, attribute, value)
      PROVE  StreamInv' /\ Len(stream'.out) <= 1
  <2>1. attribute \in {"textColor", "bgColor", "intensity", "underline"}
    BY DEF Values
  <2>2. attribute \in DOMAIN a
    BY <2>1 DEF AnsiStates
  <2>3. [a EXCEPT ![attribute] = value] \in AnsiStates
    <3>1. CASE attribute = "textColor"
      <4>1. value \in (30 .. 37) \cup {39} \cup (90 .. 97)
        BY ConsoleAssumption, <3>1, <1>6, ZenonT(60) DEF Values, ConsoleAssumption
      <4>2. [a EXCEPT !["textColor"] = value] \in AnsiStates
        BY <1>1, <4>1, SetAttribute
      <4> QED BY <3>1, <4>2
    <3>2. CASE attribute = "bgColor"
      <4>1. value \in (40 .. 47) \cup (100 .. 107)
        BY ConsoleAssumption, <3>2, <1>6, ZenonT(60) DEF Values, ConsoleAssumption
      <4>2. [a EXCEPT !["bgColor"] = value] \in AnsiStates
        BY <1>1, <4>1, SetAttribute
      <4> QED BY <3>2, <4>2
    <3>3. CASE attribute = "intensity"
      <4>1. value \in {22, 1, 2}
        BY ConsoleAssumption, <3>3, <1>6 DEF Values, ConsoleAssumption
      <4>2. [a EXCEPT !["intensity"] = value] \in AnsiStates
        BY <1>1, <4>1, SetAttribute
      <4> QED BY <3>3, <4>2
    <3>4. CASE attribute = "underline"
      <4>1. value \in {24, 4, 21}
        BY ConsoleAssumption, <3>4, <1>6 DEF Values, ConsoleAssumption
      <4>2. [a EXCEPT !["underline"] = value] \in AnsiStates
        BY <1>1, <4>1, SetAttribute
      <4> QED BY <3>4, <4>2
    <3> QED BY <2>1, <3>1, <3>2, <3>3, <3>4
  <2>4. Has(stream', below, [a EXCEPT ![attribute] = value], <<>>)
    BY <1>2, <1>6, <2>2, <2>3, HasUpdate
  <2> QED BY <1>4, <1>5, <2>4
<1>7. ASSUME NEW on \in BOOLEAN, stream' = UpdateModifier(q, "ITALIC", on)
      PROVE  StreamInv' /\ Len(stream'.out) <= 1
  <2>1. "ITALIC" \in Modifiers
    BY DEF Modifiers
  <2>2. \E b : Has(UpdateModifier(q, "ITALIC", on), below, b, <<>>)
    BY <1>2, <2>1, HasUpdateModifier
  <2> QED BY <1>4, <1>5, <1>7, <2>2
<1>8. ASSUME stream' = Toggle(q, "STRIKEOUT")
      PROVE  StreamInv' /\ Len(stream'.out) <= 1
  <2>1. "STRIKEOUT" \in Modifiers
    BY DEF Modifiers
  <2>2. PICK on \in BOOLEAN : stream' = UpdateModifier(q, "STRIKEOUT", on)
    BY <1>8 DEF Toggle
  <2>3. \E b : Has(UpdateModifier(q, "STRIKEOUT", on), below, b, <<>>)
    BY <1>2, <2>1, HasUpdateModifier
  <2> QED BY <1>4, <1>5, <2>2, <2>3
<1>9. ASSUME stream' = UpdateState(q, AnsiDefault)
      PROVE  StreamInv' /\ Len(stream'.out) <= 1
  BY <1>2, <1>3, <1>4, <1>5, <1>9, HasUpdateState
<1>10. ASSUME stream' = PushState(q)
       PROVE  StreamInv' /\ Len(stream'.out) <= 1
  <2>1. Has(stream', Append(below, a), a, <<>>)
    BY <1>2, <1>10, HasPush
  <2> QED BY <1>4, <1>5, <2>1
<1>11. ASSUME stream' = PopState(q)
       PROVE  StreamInv' /\ Len(stream'.out) <= 1
  <2>1. CASE below = <<>>
    BY <1>2, <1>4, <1>5, <1>11, <2>1, HasPopLast
  <2>2. CASE below # <<>>
    <3>1. PICK rest \in Seq(AnsiStates), b \in AnsiStates : below = Append(rest, b)
      BY <2>2, SequenceEmptyOrAppend
    <3> QED BY <1>2, <1>4, <1>5, <1>11, <3>1, HasPop
  <2> QED BY <2>1, <2>2
<1>12. ASSUME stream' = ClearStates(q)
       PROVE  StreamInv' /\ Len(stream'.out) <= 1
  BY <1>2, <1>4, <1>5, <1>12, HasClear
<1>13. ASSUME stream' = PrintText(q)
       PROVE  StreamInv' /\ Len(stream'.out) <= 1
  <2>1. Has(stream', below, a, Append(<<>>, Text(a)))
    BY <1>2, <1>13, HasPrint
  <2>2. Len(Append(<<>>, Text(a))) = 1
    OBVIOUS
  <2> DEFINE t == Append(<<>>, Text(a))
  <2> HIDE DEF t
  <2>5. Has(stream', below, a, t) /\ Len(t) <= 1
    BY <2>1, <2>2 DEF t
  <2> QED BY <1>4, <2>5
<1>14. ASSUME NEW color \in TextColors, stream' = PrintColored(q, color)
       PROVE  StreamInv' /\ Len(stream'.out) <= 1
  <2>1. color \in (30 .. 37) \cup {39} \cup (90 .. 97)
    BY ConsoleAssumption DEF ConsoleAssumption
  <2>2. Has(stream', below, a, Append(<<>>, Text([a EXCEPT !.textColor = color])))
    BY <1>2, <1>14, <2>1, HasPrintColored
  <2>3. Len(Append(<<>>, Text([a EXCEPT !.textColor = color]))) = 1
    OBVIOUS
  <2> DEFINE t == Append(<<>>, Text([a EXCEPT !.textColor = color]))
  <2> HIDE DEF t
  <2>5. Has(stream', below, a, t) /\ Len(t) <= 1
    BY <2>2, <2>3 DEF t
  <2> QED BY <1>4, <2>5
<1>15. ASSUME stream' = PrintAs(q, AnsiDefault)
       PROVE  StreamInv' /\ Len(stream'.out) <= 1
  <2>1. Has(stream', below, a, Append(<<>>, Text(AnsiDefault)))
    BY <1>2, <1>3, <1>15, HasPrintAs
  <2>2. Len(Append(<<>>, Text(AnsiDefault))) = 1
    OBVIOUS
  <2> DEFINE t == Append(<<>>, Text(AnsiDefault))
  <2> HIDE DEF t
  <2>5. Has(stream', below, a, t) /\ Len(t) <= 1
    BY <2>1, <2>2 DEF t
  <2> QED BY <1>4, <2>5
<1> QED BY <1>6, <1>7, <1>8, <1>9, <1>10, <1>11, <1>12, <1>13, <1>14, <1>15
        DEF ConsoleNext, q

LEMMA ThreeTexts ==
    \A x, y, z : LET t == Append(Append(Append(<<>>, x), y), z)
                 IN  t[1] = x /\ t[2] = y /\ t[3] = z
OBVIOUS

(* A message, alone or as a report, keeps it, too, and restores the stack. *)
LEMMA MsgStep ==
    ASSUME StreamInv, NEW severity \in ToSet(Severities),
           stream' = Msg(Quieted(stream), severity)
    PROVE  /\ StreamInv'
           /\ stream'.stack = stream.stack
           /\ [k \in 1 .. 3 |-> stream'.out[k].wanted] = Styled(State(stream), severity)
<1>1. PICK below \in Seq(AnsiStates), a \in AnsiStates, texts \in Seq(Texts) :
        Has(stream, below, a, texts)
  BY DEF StreamInv
<1> DEFINE q == Quieted(stream)
           label == [a EXCEPT !.textColor = Color[severity], !.underline = 4,
                              !.modifiers = a.modifiers \cup {"ITALIC"}]
           bold == [a EXCEPT !.textColor = Color[severity], !.intensity = 1]
           t1 == Append(<<>>, Text(label))
           t2 == Append(t1, Text(a))
           t3 == Append(t2, Text(bold))
<1>2. Has(q, below, a, <<>>)
  BY <1>1, HasQuieted
<1> HIDE DEF q
<1>3. label \in AnsiStates /\ bold \in AnsiStates /\ Has(Msg(q, severity), below, a, t3)
  BY <1>2, HasMsg
<1>4. Has(stream', below, a, t3)
  BY <1>3 DEF q
<1>5. State(stream) = a /\ stream.stack = Append(below, a)
  BY <1>1, HasState
<1> HIDE DEF label, bold
<1>6. t3[1] = Text(label) /\ t3[2] = Text(a) /\ t3[3] = Text(bold)
  BY ThreeTexts
<1> HIDE DEF t3
<1>7. stream'.out = t3 /\ stream'.stack = Append(below, a)
  BY <1>4 DEF Has
<1>8. [k \in 1 .. 3 |-> stream'.out[k].wanted] = <<label, a, bold>>
  <2>1. stream'.out[1].wanted = label /\ stream'.out[2].wanted = a /\ stream'.out[3].wanted = bold
    BY <1>6, <1>7 DEF Text
  <2> DEFINE f == [k \in 1 .. 3 |-> stream'.out[k].wanted]
  <2>2. f[1] = label /\ f[2] = a /\ f[3] = bold /\ DOMAIN f = 1 .. 3
    BY <2>1
  <2>3. \A k \in 1 .. 3 : k = 1 \/ k = 2 \/ k = 3
    OBVIOUS
  <2>4. f \in [1 .. 3 -> AnsiStates]
    BY <1>3, <2>2, <2>3
  <2> QED BY <2>2, <2>3, <2>4
<1>9. Styled(State(stream), severity) = <<label, a, bold>>
  BY <1>5 DEF Styled, label, bold
<1> QED BY <1>4, <1>5, <1>7, <1>8, <1>9 DEF StreamInv, Has

-----------------------------------------------------------------------------
(* The macro being run: until its end nothing is reported, it is compiled  *)
(* in, and a THROW macro's body has its LogObj.                            *)

MacroInv ==
    /\ level \in Nat
    /\ macro \in Macros
    /\ at \in {"idle", "condition", "body", "end", "done"}
    /\ at # "done" => reports = <<>> /\ fate = "none"
    /\ at \in {"condition", "body", "end"} =>
         /\ Enabled(macro)
         /\ holds \in Seq(BOOLEAN) /\ holds # <<>>
    /\ at = "body" /\ macro.throws => holds[1]
    /\ FailureReportedOnce

LogInv == StreamInv /\ MacroInv

LEMMA RankType == \A severity \in ToSet(Severities) : Rank(severity) \in Int
<1> SUFFICES ASSUME NEW severity \in ToSet(Severities) PROVE Rank(severity) \in Int
  OBVIOUS
<1>1. DOMAIN Severities \subseteq Int
  BY DEF Severities
<1>2. \E i \in DOMAIN Severities : Severities[i] = severity
  BY DEF ToSet
<1>3. (CHOOSE i \in DOMAIN Severities : Severities[i] = severity) \in DOMAIN Severities
  BY <1>2
<1> QED BY <1>1, <1>3 DEF Rank

LEMMA MacroInit == LogInit => MacroInv
<1>1. Len(Severities) = 5
  BY DEF Severities
<1>2. [severity |-> "LOG", stable |-> TRUE, throws |-> FALSE] \in Macros
  BY SeveritySet DEF Macros
<1> QED BY <1>1, <1>2 DEF LogInit, MacroInv, FailureReportedOnce

(* LogObj::print() and the stream, when the macro reports.                 *)
LEMMA ReportStep ==
    ASSUME LogInv, PrintReport
    PROVE  /\ StreamInv'
           /\ reports' = IF Rank(macro.severity) >= level
                           THEN Append(reports, [details |-> details, parts |-> Parts(macro.severity)])
                           ELSE reports
<1>1. macro.severity \in ToSet(Severities) /\ level \in Nat /\ Rank(macro.severity) \in Int
  BY RankType DEF LogInv, MacroInv, Macros
<1>2. CASE Rank(macro.severity) < level
  BY <1>1, <1>2 DEF PrintReport, LogInv, StreamInv, Has
<1>3. CASE ~(Rank(macro.severity) < level)
  <2>1. stream' = Msg(Quieted(stream), macro.severity)
    BY <1>3 DEF PrintReport
  <2>2. StreamInv'
    BY <1>1, <2>1, MsgStep DEF LogInv
  <2> QED BY <1>1, <1>3, <2>2 DEF PrintReport
<1> QED BY <1>2, <1>3

LEMMA MacroStep ==
    ASSUME LogInv, LogNext
    PROVE  LogInv'
<1> USE DEF MacroInv
<1>0. StreamInv /\ MacroInv
  BY DEF LogInv
<1>1. UNCHANGED stream => StreamInv'
  BY <1>0 DEF StreamInv, Has
<1>2. ASSUME NEW m \in Macros, NEW value \in BOOLEAN, RunDisabled(m, value)
      PROVE  MacroInv'
  <2>1. m.severity \in ToSet(Severities)
    BY DEF Macros
  <2>2. m.severity = "CRITICAL" => ~debug \/ level = 5
    BY <1>2 DEF RunDisabled, Enabled, CriticalTier
  <2>3. ~Enabled(macro)'
    BY <1>2 DEF RunDisabled, Enabled, CriticalTier, ErrTier, WarnTier, InfoTier, LogTier
  <2>4. <<value>>[1] = value /\ <<value>> # <<>>
    OBVIOUS
  <2>5. CASE m.severity = "CRITICAL"
    <3>1. holds' = <<value>> /\ fate' = (IF value THEN "undefined" ELSE "passed")
          /\ at' = "done" /\ macro' = m /\ UNCHANGED <<debug, level, details, reports>>
          /\ reports = <<>>
      BY <1>0, <1>2, <2>5 DEF RunDisabled
    <3>2. FailureReportedOnce'
      BY <2>2, <2>3, <2>4, <2>5, <3>1 DEF FailureReportedOnce, Failed
    <3> QED BY <1>0, <2>1, <3>1, <3>2
  <2>6. CASE m.severity # "CRITICAL"
    <3>1. holds' = <<>> /\ fate' = "passed"
          /\ at' = "done" /\ macro' = m /\ UNCHANGED <<debug, level, details, reports>>
          /\ reports = <<>>
      BY <1>0, <1>2, <2>6 DEF RunDisabled
    <3>2. FailureReportedOnce'
      BY <2>3, <3>1 DEF FailureReportedOnce, Failed
    <3> QED BY <1>0, <2>1, <3>1, <3>2
  <2> QED BY <2>5, <2>6
<1>3. ASSUME NEW m \in Macros, NEW value \in BOOLEAN, Run(m, value)
      PROVE  MacroInv'
  <2>1. m.severity \in ToSet(Severities)
    BY DEF Macros
  <2>2. Enabled(macro)'
    BY <1>3 DEF Run, Enabled, CriticalTier, ErrTier, WarnTier, InfoTier, LogTier
  <2>3. <<value>> \in Seq(BOOLEAN) /\ <<value>> # <<>>
    OBVIOUS
  <2> QED BY <1>0, <1>3, <2>1, <2>2, <2>3 DEF Run, FailureReportedOnce
<1>4. ASSUME UNCHANGED <<debug, level, macro>>
      PROVE  Enabled(macro)' <=> Enabled(macro)
  BY <1>4 DEF Enabled, CriticalTier, ErrTier, WarnTier, InfoTier, LogTier
<1>5. ASSUME NEW value \in BOOLEAN, Condition(value) PROVE MacroInv'
  <2>1. holds' \in Seq(BOOLEAN) /\ holds' # <<>> /\ holds'[1] = holds[1]
    <3>1. holds \in Seq(BOOLEAN) /\ holds # <<>> /\ holds' = Append(holds, value)
      BY <1>0, <1>5 DEF Condition
    <3>2. 1 \in 1 .. Len(holds)
      BY <3>1, EmptySeq
    <3> QED BY <3>1, <3>2, AppendProperties
  <2> QED BY <1>0, <1>4, <1>5, <2>1 DEF Condition, FailureReportedOnce
<1>6. ASSUME AddDetail \/ LeaveBody PROVE MacroInv'
  <2>1. CASE AddDetail
    BY <1>0, <1>4, <2>1 DEF AddDetail, FailureReportedOnce
  <2>2. CASE LeaveBody
    BY <1>0, <1>4, <2>2 DEF LeaveBody, FailureReportedOnce
  <2> QED BY <1>6, <2>1, <2>2
<1>7. CASE Throw
  <2>1. /\ at = "body" /\ macro.throws /\ at' = "done" /\ fate' = "thrown" /\ PrintReport
        /\ UNCHANGED <<debug, level, macro, holds, details>>
    BY <1>7 DEF Throw
  <2>2. Enabled(macro) /\ holds # <<>> /\ holds[1] /\ reports = <<>>
    BY <1>0, <2>1
  <2>3. StreamInv' /\ reports' = IF Rank(macro.severity) >= level
                           THEN <<[details |-> details, parts |-> Parts(macro.severity)]>>
                           ELSE <<>>
    BY <2>1, <2>2, ReportStep
  <2>4. macro.severity = "ERR"
    BY <1>0, <2>1 DEF Macros
  <2> QED BY <1>0, <1>4, <2>1, <2>2, <2>3, <2>4 DEF LogInv, FailureReportedOnce, Failed
<1>8. CASE Destroy
  <2>1. /\ at \in {"end", "body"} /\ at' = "done"
        /\ UNCHANGED <<debug, level, macro, holds, details>>
    BY <1>8 DEF Destroy
  <2>2. Enabled(macro) /\ holds # <<>> /\ reports = <<>> /\ fate = "none"
    BY <1>0, <2>1
  <2>3. CASE holds[1]
    <3>1. /\ PrintReport
          /\ fate' = IF macro.severity = "CRITICAL" THEN "terminated" ELSE "passed"
      BY <1>8, <2>2, <2>3 DEF Destroy
    <3>2. StreamInv' /\ reports' = IF Rank(macro.severity) >= level
                             THEN <<[details |-> details, parts |-> Parts(macro.severity)]>>
                             ELSE <<>>
      BY <2>2, <3>1, ReportStep
    <3> QED BY <1>0, <1>4, <2>1, <2>2, <2>3, <3>1, <3>2 DEF LogInv, FailureReportedOnce, Failed
  <2>4. CASE ~holds[1]
    <3>1. fate' = "passed" /\ UNCHANGED <<reports, stream>>
      BY <1>8, <2>4 DEF Destroy
    <3> QED BY <1>0, <1>1, <2>1, <2>2, <2>4, <3>1 DEF LogInv, FailureReportedOnce, Failed
  <2> QED BY <2>3, <2>4
<1> QED BY <1>1, <1>2, <1>3, <1>5, <1>6, <1>7, <1>8 DEF LogNext, LogInv

LEMMA StreamStep ==
    ASSUME LogInv, StreamNext
    PROVE  LogInv'
<1>1. MacroInv'
  <2>1. MacroInv /\ UNCHANGED logVars
    BY DEF LogInv, StreamNext
  <2> QED BY <2>1 DEF logVars, MacroInv, FailureReportedOnce, Failed, Enabled, CriticalTier,
                      ErrTier, WarnTier, InfoTier, LogTier
<1>2. StreamInv'
  <2>1. CASE ConsoleNext
    BY <2>1, ConsoleStep DEF LogInv
  <2>2. ASSUME NEW severity \in ToSet(Severities), Message(severity) PROVE StreamInv'
    <3>1. CASE stream' = stream
      BY <3>1 DEF LogInv, StreamInv, Has
    <3>2. CASE stream' = Msg(Quieted(stream), severity)
      BY <3>2, MsgStep DEF LogInv
    <3> QED BY <2>2, <3>1, <3>2 DEF Message
  <2> QED BY <2>1, <2>2 DEF StreamNext
<1> QED BY <1>1, <1>2 DEF LogInv

LEMMA LogStart == ConsoleInit /\ LogInit => LogInv
BY StreamInit, MacroInit DEF LogInv

LEMMA LogStep == LogInv /\ [LoggingNext]_<<stream, logVars>> => LogInv'
<1> SUFFICES ASSUME LogInv, [LoggingNext]_<<stream, logVars>> PROVE LogInv'
  OBVIOUS
<1>1. CASE UNCHANGED <<stream, logVars>>
  <2>1. StreamInv'
    BY <1>1 DEF LogInv, StreamInv, Has
  <2>2. MacroInv'
    <3>1. MacroInv /\ UNCHANGED logVars
      BY <1>1 DEF LogInv
    <3> QED BY <3>1 DEF logVars, MacroInv, FailureReportedOnce, Failed, Enabled, CriticalTier,
                        ErrTier, WarnTier, InfoTier, LogTier
  <2> QED BY <2>1, <2>2 DEF LogInv
<1> QED BY <1>1, StreamStep, MacroStep DEF LoggingNext

(* The cache and the stack agree, and a macro reports only at its end.     *)
THEOREM LogInvariance == LoggingSpec => []LogInv
BY LogStart, LogStep, PTL DEF LoggingSpec

(* console.hpp: every text appears in the state that was current when it   *)
(* was printed, whatever was pushed, popped or cached before it.           *)
THEOREM ShownInItsStateCorrect == LoggingSpec => []ShownInItsState
<1>1. LogInv => ShownInItsState
  <2> SUFFICES ASSUME StreamInv, NEW i \in DOMAIN stream.out
               PROVE  Rendered(stream.out[i].codes) = stream.out[i].wanted
    BY DEF LogInv, ShownInItsState
  <2>1. stream.out \in Seq(Texts)
    BY DEF StreamInv, Has
  <2>2. stream.out[i] \in Texts
    BY <2>1, LenProperties, ElementOfSeq
  <2>3. PICK a \in AnsiStates : stream.out[i] = Text(a)
    BY <2>2 DEF Texts
  <2>4. stream.out[i].codes = Encode(a) /\ stream.out[i].wanted = a
    BY <2>3 DEF Text
  <2> QED BY <2>3, <2>4, RenderedEncode
<1> QED BY <1>1, LogInvariance, PTL

(* log.hpp: a failure is reported once, with all its details, and a        *)
(* critical one ends the program; nothing else is reported.                *)
THEOREM FailureReportedOnceCorrect == LoggingSpec => []FailureReportedOnce
<1>1. LogInv => FailureReportedOnce
  BY DEF LogInv, MacroInv
<1> QED BY <1>1, LogInvariance, PTL

(* log.hpp, log::msg(): a message is written as a label, a space and a     *)
(* text, each in its style, and leaves the stack of states as it was.      *)
THEOREM MessageRestoresStateCorrect == LoggingSpec => MessageRestoresState
<1> DEFINE Restored ==
      Len(stream'.out) = 3 =>
        /\ stream'.stack = stream.stack
        /\ \E severity \in ToSet(Severities) :
             [k \in 1 .. 3 |-> stream'.out[k].wanted] = Styled(State(stream), severity)
<1>1. ASSUME LogInv, [LoggingNext]_<<stream, logVars>>, stream' # stream
      PROVE  Restored
  <2>1. CASE ConsoleNext
    <3>1. Len(stream'.out) <= 1
      BY <1>1, <2>1, ConsoleStep DEF LogInv
    <3> QED BY <3>1
  <2>2. ASSUME NEW severity \in ToSet(Severities), stream' = Msg(Quieted(stream), severity)
        PROVE  Restored
    BY <1>1, <2>2, MsgStep DEF LogInv
  <2>3. ASSUME NEW severity \in ToSet(Severities), Message(severity)
        PROVE  Restored
    BY <1>1, <2>2, <2>3 DEF Message
  <2>4. ASSUME LogNext
        PROVE  Restored
    <3>1. PrintReport
      BY <1>1, <2>4 DEF LogNext, Throw, Destroy
    <3>2. macro.severity \in ToSet(Severities)
      BY <1>1 DEF LogInv, MacroInv, Macros
    <3> QED BY <1>1, <2>2, <3>1, <3>2 DEF PrintReport
  <2> QED BY <1>1, <2>1, <2>3, <2>4 DEF LoggingNext, StreamNext
<1>2. LogInv /\ [LoggingNext]_<<stream, logVars>> => [Restored]_stream
  BY <1>1
<1> QED BY <1>2, LogInvariance, PTL DEF LoggingSpec, MessageRestoresState
=============================================================================
