------------------------------ MODULE Sanitizer ------------------------------
(***************************************************************************)
(* logging.SanitizeCommand: how a command line is written to the structured*)
(* log. Whether a word contains one of the markers (password, token, ...)  *)
(* is all that is known of its letters.                                    *)
(***************************************************************************)
EXTENDS Naturals, Sequences

CONSTANTS
  FlagMarked,   \* the words for which isSensitiveFlag holds
  KeyMarked,    \* those for which isSensitiveKey holds
  Dashed,       \* those that begin with --
  SetPrefixed,  \* those that begin with --set
  SetFlags,     \* --set and --set-string
  Mask          \* the placeholder

ASSUME WordsAssumption ==
  /\ SetFlags \subseteq SetPrefixed /\ SetPrefixed \subseteq Dashed
  /\ Mask \notin FlagMarked \cup KeyMarked \cup Dashed

\* An argument is its comma-separated parts, each of them its words between
\* the equals signs; if it has an equals sign its first part has one.
Word(w) == << <<w>> >>

WordsOf(arg) == UNION {{arg[i][j] : j \in DOMAIN arg[i]} : i \in DOMAIN arg}

Marked(arg, words) == WordsOf(arg) \cap words /= {}

-----------------------------------------------------------------------------
(* sanitizeSetExpressions *)

SanitizePair(pair) ==
  IF Len(pair) > 1 /\ Marked(<<pair>>, KeyMarked) THEN <<Head(pair), Mask>> ELSE pair

SanitizeSetExpressions(arg) == [i \in DOMAIN arg |-> SanitizePair(arg[i])]

-----------------------------------------------------------------------------
(* sanitizeInlineAssignment: flag=value *)

Flag(arg) == arg[1][1]
Value(arg) == <<Tail(arg[1])>> \o Tail(arg)
Assign(flag, value) == << <<flag>> \o Head(value) >> \o Tail(value)

\* The value goes as a whole: because of the flag, or of a word in the value.
Redacted(arg) ==
  Flag(arg) \in FlagMarked \/ (Flag(arg) \in Dashed /\ Marked(Value(arg), KeyMarked))

Inline(arg) == Len(arg[1]) > 1 /\ (Redacted(arg) \/ Flag(arg) \in SetPrefixed)

SanitizeInline(arg) ==
  Assign(Flag(arg), IF Redacted(arg) THEN Word(Mask) ELSE SanitizeSetExpressions(Value(arg)))

-----------------------------------------------------------------------------
(* sanitizeCommandArg, and the loop of SanitizeCommand *)

\* What an argument asks for the one after it: to be sanitized as the value of
\* --set, or to be masked.
FollowUp(arg) ==
  IF \E w \in SetFlags : arg = Word(w) THEN "set"
  ELSE IF ~Inline(arg) /\ Marked(arg, FlagMarked) THEN "mask" ELSE "none"

\* nextTransform at the start of each turn, and after the last: an argument
\* that is transformed itself asks for nothing.
NextTransform(args) ==
  LET next[i \in 1 .. Len(args) + 1] ==
        IF i = 1 \/ next[i - 1] /= "none" THEN "none" ELSE FollowUp(args[i - 1])
  IN next

\* How an argument is written.
Sanitized(transform, arg) ==
  IF transform = "set" THEN SanitizeSetExpressions(arg)
  ELSE IF transform = "mask" THEN Word(Mask)
  ELSE IF Inline(arg) THEN SanitizeInline(arg) ELSE arg

\* A transformation left over at the end is shown by the placeholder.
SanitizeCommand(args) ==
  LET next == NextTransform(args)
      line == [i \in 1 .. Len(args) |-> Sanitized(next[i], args[i])]
  IN IF next[Len(args) + 1] = "none" THEN line ELSE Append(line, Word(Mask))
=============================================================================
