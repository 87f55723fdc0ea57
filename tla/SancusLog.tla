------------------------------- MODULE SancusLog -------------------------------
(***************************************************************************)
(* sancus_log.h and log.c: a logging macro becomes one line on descriptor  *)
(* 2, gathered by _write() from at most six vectors that sancus_writev()   *)
(* sends. FdIO is that function, and the kernel below it.                  *)
(*                                                                         *)
(* A character of a string is "x" or " ", which stands for the four that   *)
(* are trimmed off its end; "\n" is the newline _write() adds. Formats are *)
(* expanded already.                                                       *)
(***************************************************************************)
EXTENDS Integers, SequencesExt

CONSTANTS
  Null,            (* a null pointer                                       *)
  Names,           (* what LOG_PREFIX may be                               *)
  MaxText,         (* bound on the length of a text                        *)
  TraceTexts,      (* "file:line: func: ", untruncated                     *)
  STR_BUFSIZE, TRACE_STR_BUFSIZE,
  NDEBUG           (* debug() and debugf() are compiled away               *)

ASSUME SizesAssumption ==
  /\ MaxText \in Nat /\ NDEBUG \in BOOLEAN
  /\ STR_BUFSIZE \in Nat \ {0} /\ TRACE_STR_BUFSIZE \in Nat \ {0}

VARIABLES
  rec,                                     \* what is being logged
  op, at, iov, wc, wt, errno, ret, msg, out  \* sancus_writev(): FdIO

MaxLine == 4 + 2 * MaxText + 3 + TRACE_STR_BUFSIZE
IO == INSTANCE FdIO WITH MaxVecs <- 1, MaxLen <- MaxLine, EmptyTail <- FALSE

vars == <<rec, op, at, iov, wc, wt, errno, ret, msg, out>>

Blank == " "
Letters == {"x", Blank}
Strings == Seq(Letters)
Texts == BoundedSeq(Letters, MaxText)

ASSUME StringsAssumption ==
  /\ Null \notin Strings
  /\ Names \subseteq Texts \cup {Null} /\ TraceTexts \subseteq Strings

Cut(s, size) == SubSeq(s, 1, IF Len(s) < size THEN Len(s) ELSE size - 1)

(* enum sancus_log_level, as the character level_s[1] becomes              *)
Level ==
  [EMERG |-> "0", ALERT |-> "1", CRIT |-> "2", ERR |-> "3", WARNING |-> "4",
   NOTICE |-> "5", INFO |-> "6", TRACE |-> "7", DEBUG |-> "8"]

(* The macros, and what they expand to: syserr() and syserrf() are errf(). *)
Macro ==
  [info |-> "INFO", warn |-> "WARNING", err |-> "INFO",
   infof |-> "INFO", warnf |-> "WARNING", errf |-> "ERR",
   debug |-> "DEBUG", debugf |-> "DEBUG"]
Formats == {"infof", "warnf", "errf", "debugf"}
Debugs == {"debug", "debugf"}

(* The arguments of _write(), after vsnprintf() and snprintf()             *)
Args(m, name, text, trace) ==
  [macro |-> m, name |-> name,
   str |-> IF m \in Formats THEN Cut(text, STR_BUFSIZE) ELSE text,
   trace |-> IF m \in Debugs THEN Cut(trace, TRACE_STR_BUFSIZE) ELSE Null]

(* Slip: one character too many is trimmed off a text of nothing else.     *)
StrlenTrimmedStopsAtOne(s) ==
  LET trim[l \in Nat] == IF l > 1 /\ s[l] = Blank THEN trim[l - 1] ELSE l
  IN IF s = Null THEN 0 ELSE trim[Len(s)]

StrlenTrimmed(s) ==
  LET trim[l \in Nat] == IF l > 0 /\ s[l] = Blank THEN trim[l - 1] ELSE l
  IN IF s = Null THEN 0 ELSE trim[Len(s)]

Pushed(field, l) == IF l > 0 THEN <<IO!Vector(field, l)>> ELSE <<>>

(* Slips: the trace has a separator too; the newline comes first, and the  *)
(* text last, whatever its length.                                         *)
VectorsSeparated(r) ==
  <<IO!Vector("level", 4)>>
  \o Pushed("name", StrlenTrimmed(r.name)) \o Pushed("sep", 2)
  \o (IF r.trace = Null THEN <<>> ELSE Pushed("trace", Len(r.trace)) \o Pushed("sep", 2))
  \o Pushed("str", StrlenTrimmed(r.str))
  \o <<IO!Vector("newline", 1)>>

VectorsEndEmpty(r) ==
  <<IO!Vector("level", 4), IO!Vector("newline", 1),
    IO!Vector("str", StrlenTrimmed(r.str))>>

(* v[], as _write() fills it                                               *)
Vectors(r) ==
  LET l2 == StrlenTrimmed(r.name) IN
  <<IO!Vector("level", 4)>>
  \o Pushed("name", l2) \o (IF l2 > 0 THEN Pushed("sep", 2) ELSE <<>>)
  \o (IF r.trace = Null THEN <<>> ELSE Pushed("trace", Len(r.trace)))
  \o Pushed("str", StrlenTrimmed(r.str))
  \o <<IO!Vector("newline", 1)>>

(* level_s, and the two literals                                           *)
LevelText(r) == <<"<", Level[Macro[r.macro]], ">", Blank>>
Separator == <<":", Blank>>
Newline == <<"\n">>

(* The byte of a record that a vector points at                            *)
Char(r, b) ==
  CASE b[1] = "level"   -> LevelText(r)[b[2]]
    [] b[1] = "sep"     -> Separator[b[2]]
    [] b[1] = "newline" -> Newline[b[2]]
    [] OTHER            -> r[b[1]][b[2]]

NoRecord == Args("info", Null, Null, Null)

Init == rec = NoRecord /\ IO!Init

(* What the macros can be given: an expanded format is no null pointer.    *)
Records ==
  UNION {{Args(m, name, text, trace) :
            name \in Names, trace \in TraceTexts,
            text \in IF m \in Formats THEN Texts ELSE Texts \cup {Null}} :
         m \in DOMAIN Macro \ (IF NDEBUG THEN Debugs ELSE {})}

(* sancus_log_write(), _writef(), _trace(), _tracef() down to the call of  *)
(* sancus_writev()                                                         *)
Log(r) == rec' = r /\ IO!Call("writev", Vectors(r))

Next ==
  \/ \E r \in Records : Log(r)
  \/ (IO!Runs \/ IO!Interrupted \/ IO!Refused) /\ UNCHANGED rec

Spec == Init /\ [][Next]_vars

(* The process runs, and is not interrupted for ever.                      *)
FairSpec == Spec /\ WF_vars(IO!Runs /\ UNCHANGED rec)

-----------------------------------------------------------------------------
(* Properties.                                                             *)

(* The types, and the six places of v[].                                   *)
TypeOK ==
  /\ rec \in Records \cup {NoRecord}
  /\ Len(iov) \in 0..6
  /\ ret \in {IO!NoRet, -1} \cup 0..MaxLine

(* What a line is, for a reader of the log.                                *)
Trimmed(s) ==
  IF s = Null THEN <<>>
  ELSE SubSeq(s, 1, Max({0} \cup {i \in DOMAIN s : s[i] # Blank}))

Line(r) ==
  LET name == Trimmed(r.name) IN
  LevelText(r)
  \o (IF name = <<>> THEN <<>> ELSE name \o Separator)
  \o (IF r.trace = Null THEN <<>> ELSE r.trace)
  \o Trimmed(r.str) \o Newline

Written == [i \in DOMAIN out |-> Char(rec, out[i])]

State ==
  IF op # "none" THEN "sending"
  ELSE IF ret = IO!NoRet THEN "idle"
  ELSE IF ret = -1 THEN "failed"
  ELSE IF ret = Len(Line(rec)) THEN "sent" ELSE "miscounted"

Lines == {Line(r) : r \in Records}

Transmitting ==
  INSTANCE Transmission WITH
    state <- State, out <- Written, Messages <- Lines,
    msg <- IF rec = NoRecord /\ State = "idle" THEN <<>> ELSE Line(rec)

(* A call sends its line: each character once and in order, the text cut   *)
(* to the buffer and trimmed, one newline behind it, whichever parts are   *)
(* missing and wherever the kernel stops in between.                       *)
LineSpec == Transmitting!Spec

(* A logging call returns, whatever there is to say.                       *)
LogReturns == op # "none" ~> op = "none"
=============================================================================
