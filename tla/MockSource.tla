----------------------------- MODULE MockSource -----------------------------
(***************************************************************************)
(* The text a mock runtime "executes".  Every runtime splits a file into    *)
(* lines, every line into words, and calls each word an instruction; a line *)
(* may also read or assign variables, print, and raise an exception.  The   *)
(* engines never change the text, so it is a constant here, reduced to what *)
(* they can tell apart about a line.  Lines are numbered from 0, as in the  *)
(* code.                                                                    *)
(***************************************************************************)
EXTENDS Integers, Sequences, FiniteSets

CONSTANTS Files,       \* the files a request may name (normalised paths)
          Names,       \* the variable names that occur in them
          Exceptions,  \* the names x of exception(x)
          Source,      \* Source[f] is the sequence of lines of f
          None         \* JavaScript's undefined, and the empty file name

\* What a regular expression match finds on one line: $name or $name=value.
Access == [name : Names, assign : BOOLEAN]

\* exc: no exception, the bare word, or exception(x).
LineRecord == [words    : Nat,            \* matches of /[a-z]+/
               blank    : BOOLEAN,        \* empty once trimmed
               width    : Nat,            \* characters, not trimmed
               accesses : Seq(Access),
               outs     : Nat,            \* log(..), prio(..), out(..), err(..)
               exc      : {"none", "bare"} \cup Exceptions]

\* split() returns at least one line, and a blank line matches nothing.
SourceAssumption ==
  /\ Source \in [Files -> Seq(LineRecord)]
  /\ \A f \in Files :
       /\ Source[f] # <<>>
       /\ \A i \in DOMAIN Source[f] :
            Source[f][i].blank => /\ Source[f][i].words = 0
                                  /\ Source[f][i].accesses = <<>>
                                  /\ Source[f][i].outs = 0
                                  /\ Source[f][i].exc = "none"
ASSUME SourceAssumption

NoneAssumption == /\ None \notin Files
                  /\ None \notin Int
                  /\ None \notin Exceptions
                  /\ {"none", "bare"} \cap Exceptions = {}
ASSUME NoneAssumption

\* No file is loaded before the first launch: sourceLines is [].
NumLines(f) == IF f = None THEN 0 ELSE Len(Source[f])
Lines(f)    == 0 .. NumLines(f) - 1
TextOf(f, l) == Source[f][l + 1]

\* getLine(l).length > 0
NonBlank(f, l) == l \in Lines(f) /\ ~TextOf(f, l).blank

\* initializeContents numbers the words of the file from 0: starts[l] counts
\* the words on the lines before l, ends[l] those up to and including l.
WordsOf(f, l)     == {l} \X (1 .. TextOf(f, l).words)
WordsBefore(f, l) == UNION {WordsOf(f, k) : k \in 0 .. l - 1}
Starts(f, l) == Cardinality(WordsBefore(f, l))
Ends(f, l)   == Starts(f, l) + TextOf(f, l).words
=============================================================================
