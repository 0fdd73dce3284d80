------------------------------- MODULE Logging -------------------------------
(***************************************************************************)
(* cth::log (cth/incl/cth/io/log.hpp): log::msg() on the log stream, and   *)
(* the life of a macro such as CTH_ERR(expression, ...) { body }: the      *)
(* expression is evaluated twice, the first time to build the LogObj       *)
(* "details", the second time to enter the body; the LogObj reports when   *)
(* it is destroyed or thrown.  Which macros are compiled in depends on the *)
(* build (CTH_DEBUG_MODE) and on CTH_LOG_LEVEL; the STABLE ones always     *)
(* are.                                                                    *)
(***************************************************************************)
EXTENDS Console

CONSTANT MaxDetails     \* bound: details->add() calls in a body

VARIABLES
    debug,      \* CTH_DEBUG_MODE is defined
    level,      \* CTH_LOG_LEVEL
    macro,      \* the macro being run: severity, whether STABLE, whether THROW
    at,         \* where it is
    holds,      \* the values of its expression, in the order of evaluation
    details,    \* the details added so far; the LogObj exists iff holds[1]
    reports,    \* the reports printed for it
    fate        \* how it ended

logVars == <<debug, level, macro, at, holds, details, reports, fate>>

(* enum Severity, in its order; CTH_LOG_LEVEL_NONE is one above CRITICAL. *)
Severities == <<"LOG", "INFO", "WARNING", "ERR", "CRITICAL">>

Rank(severity) == (CHOOSE i \in DOMAIN Severities : Severities[i] = severity) - 1

Macros == {m \in [severity : ToSet(Severities), stable : BOOLEAN, throws : BOOLEAN] :
              m.throws => m.severity = "ERR"}

(* Every build. *)
LogInit ==
    /\ debug \in BOOLEAN
    /\ level \in 0 .. Len(Severities)
    /\ macro = [severity |-> "LOG", stable |-> TRUE, throws |-> FALSE]
    /\ at = "idle"
    /\ holds = <<>>
    /\ details = <<>>
    /\ reports = <<>>
    /\ fate = "none"

-----------------------------------------------------------------------------
(* log::msg() *)

Color == [LOG |-> 97, INFO |-> 36, WARNING |-> 33, ERR |-> 31, CRITICAL |-> 31]

(* Mutation: the first pushed state is not popped. *)
MsgKeepsState(s, severity) ==
    LET label == PrintColored(
                    Update(UpdateModifier(PushState(s), "ITALIC", TRUE), "underline", 4),
                    Color[severity])
        space == PrintText(label)
    IN  PopState(PrintColored(Update(PushState(space), "intensity", 1), Color[severity]))

(* The label italic and underlined, the message bold, both in the          *)
(* severity's color, with a plain space between them.                      *)
Msg(s, severity) ==
    LET label == PopState(PrintColored(
                    Update(UpdateModifier(PushState(s), "ITALIC", TRUE), "underline", 4),
                    Color[severity]))
        space == PrintText(label)
    IN  PopState(PrintColored(Update(PushState(space), "intensity", 1), Color[severity]))

Message(severity) ==
    /\ at = "idle"
    /\ stream' = IF Rank(severity) < level THEN stream ELSE Msg(Quieted(stream), severity)
    /\ UNCHANGED logVars

-----------------------------------------------------------------------------
(* The preprocessor's chain of #if: each level adds its macros. *)

LogTier == {"LOG"}

InfoTier == {"INFO"} \cup IF level # 1 THEN LogTier ELSE {}

WarnTier == {"WARNING"} \cup IF level # 2 THEN InfoTier ELSE {}

ErrTier == {"ERR"} \cup IF level # 3 THEN WarnTier ELSE {}

CriticalTier == {"CRITICAL"} \cup IF level # 4 THEN ErrTier ELSE {}

Enabled(m) == m.stable \/ (debug /\ level # 5 /\ m.severity \in CriticalTier)

(* A disabled macro: a critical one still evaluates its expression, and    *)
(* tells the compiler that it is false; the others do not even evaluate.   *)
RunDisabled(m, value) ==
    /\ at = "idle" /\ ~Enabled(m)
    /\ macro' = m
    /\ at' = "done"
    /\ IF m.severity = "CRITICAL"
         THEN holds' = <<value>> /\ fate' = IF value THEN "undefined" ELSE "passed"
         ELSE holds' = <<>> /\ fate' = "passed"
    /\ UNCHANGED <<debug, level, details, reports>>

(* The first evaluation: builds the LogObj if the expression holds. *)
Run(m, value) ==
    /\ at = "idle" /\ Enabled(m)
    /\ macro' = m
    /\ at' = "condition"
    /\ holds' = <<value>>
    /\ UNCHANGED <<debug, level, details, reports, fate>>

(* The second one, which another thread may have changed, decides on the   *)
(* body; a THROW macro's loop needs the LogObj as well.                    *)
Condition(value) ==
    /\ at = "condition"
    /\ holds' = Append(holds, value)
    /\ at' = IF value /\ (macro.throws => holds[1]) THEN "body" ELSE "end"
    /\ UNCHANGED <<debug, level, macro, details, reports, fate>>

(* details->add() *)
AddDetail ==
    /\ at = "body" /\ holds[1]
    /\ Len(details) < MaxDetails
    /\ details' = Append(details, Len(details) + 1)
    /\ UNCHANGED <<debug, level, macro, at, holds, reports, fate>>

(* The body returns, breaks out or throws something of its own. *)
LeaveBody ==
    /\ at = "body"
    /\ at' = "end"
    /\ UNCHANGED <<debug, level, macro, holds, details, reports, fate>>

(* LogObj::print(): what is in the report depends on the severity. *)
Parts(severity) ==
    CASE severity \in {"CRITICAL", "ERR"} -> {"msg", "details", "func", "loc", "trace"}
      [] severity = "WARNING" -> {"msg", "details", "func", "loc"}
      [] severity = "INFO" -> {"msg", "details", "func"}
      [] OTHER -> {"msg", "details"}

PrintReport ==
    IF Rank(macro.severity) < level THEN UNCHANGED <<reports, stream>>
    ELSE /\ reports' = Append(reports, [details |-> details, parts |-> Parts(macro.severity)])
         /\ stream' = Msg(Quieted(stream), macro.severity)

(* Mutation: throwE() does not mark the LogObj as moved. *)
ThrowUnmarked ==
    /\ at = "body" /\ macro.throws
    /\ at' = "end"
    /\ fate' = "thrown"
    /\ PrintReport
    /\ UNCHANGED <<debug, level, macro, holds, details>>

(* The end of a THROW macro's body: LogObj::throwE() reports and throws,   *)
(* and the LogObj, now marked as moved, is destroyed silently.             *)
Throw ==
    /\ at = "body" /\ macro.throws
    /\ at' = "done"
    /\ fate' = "thrown"
    /\ PrintReport
    /\ UNCHANGED <<debug, level, macro, holds, details>>

(* Everything else ends in ~LogObj(), if there is one. *)
Destroy ==
    /\ at = "end" \/ (at = "body" /\ ~macro.throws)
    /\ at' = "done"
    /\ IF holds[1]
         THEN /\ PrintReport
              /\ fate' = IF macro.severity = "CRITICAL" THEN "terminated"
                         ELSE IF fate = "thrown" THEN fate ELSE "passed"
         ELSE fate' = "passed" /\ UNCHANGED <<reports, stream>>
    /\ UNCHANGED <<debug, level, macro, holds, details>>

LogNext ==
    \/ \E m \in Macros, value \in BOOLEAN :
         (RunDisabled(m, value) \/ Run(m, value)) /\ UNCHANGED stream
    \/ \E value \in BOOLEAN : Condition(value) /\ UNCHANGED stream
    \/ (AddDetail \/ LeaveBody) /\ UNCHANGED stream
    \/ Throw
    \/ Destroy

(* The stream is anyone's to use, and messages and macros write to it. *)
StreamNext ==
    /\ ConsoleNext \/ \E severity \in ToSet(Severities) : Message(severity)
    /\ UNCHANGED logVars

LoggingNext == StreamNext \/ LogNext

LoggingSpec == ConsoleInit /\ LogInit /\ [][LoggingNext]_<<stream, logVars>>

-----------------------------------------------------------------------------

(* What the expression was when the macro was reached. *)
Failed == holds # <<>> /\ holds[1]

(* A failure is reported once and with every detail its body added, if the *)
(* level lets it through, whichever way its body is left and even if the   *)
(* expression has changed meanwhile; without a failure nothing is.  A      *)
(* critical failure never passes, reported or not, except where the macro  *)
(* is compiled out, and those below the level are.                         *)
FailureReportedOnce ==
    at = "done" =>
      /\ LET heard == Failed /\ Enabled(macro) /\ Rank(macro.severity) >= level
         IN  reports = IF heard THEN <<[details |-> details, parts |-> Parts(macro.severity)]>>
                                ELSE <<>>
      /\ Failed /\ macro.severity = "CRITICAL" => fate \in {"terminated", "undefined"}
      /\ fate = "undefined" => ~debug \/ level = 5

(* The three texts of a message. *)
Styled(own, severity) ==
    <<[own EXCEPT !.textColor = Color[severity], !.underline = 4,
                  !.modifiers = @ \cup {"ITALIC"}],
      own,
      [own EXCEPT !.textColor = Color[severity], !.intensity = 1]>>

(* A step that writes three texts writes a message: the label in the       *)
(* severity's color, italic and underlined, the text in the color and      *)
(* bold, the space in the stream's own state; and it leaves the states of  *)
(* the log stream as they were, however many its user had pushed.          *)
MessageRestoresState ==
    [][Len(stream'.out) = 3 =>
         /\ stream'.stack = stream.stack
         /\ \E severity \in ToSet(Severities) :
              [k \in 1 .. 3 |-> stream'.out[k].wanted] = Styled(State(stream), severity)]_stream
=============================================================================
