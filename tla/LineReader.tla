----------------------------- MODULE LineReader -----------------------------
(***************************************************************************)
(* How `eskiuc repl` cuts the lines it reads into inputs (Repl::run and    *)
(* its helpers, repl.cpp): it waits while a bracket, an operator, a header *)
(* or a conditional is open, and holds a finished if or try for the line   *)
(* that may go on with it.                                                 *)
(*                                                                         *)
(* A line is a record: first (its first word, "op" for an operator no line *)
(* can start with, "cmd" for a command, "blank" for a blank line), depth   *)
(* (the brackets it opens less those it closes), last ("operator",         *)
(* "header", "" for anything else) and hash (the #if it opens less those   *)
(* it closes).                                                             *)
(***************************************************************************)
EXTENDS Integers, Sequences, SequencesExt

CONSTANT Scripts   \* what may be typed: sequences of statements, each a sequence of lines

VARIABLES
  input,     \* the statements left to read, as their author means them
  read,      \* how many lines of the first of them have been read
  due,       \* the statements read whole that are to run, in order
  pending,   \* the lines of the input being read
  sent,      \* the inputs handed to handleInput and the commands run, in order
  running

readerVars == <<input, read, due, pending, sent, running>>

Blank == [first |-> "blank", depth |-> 0, last |-> "", hash |-> 0]

SumOf(f(_), s) == FoldLeft(LAMBDA n, line : n + f(line), 0, s)

bracketDepth(text) == SumOf(LAMBDA line : line.depth, text)
openConditionals(text) == SumOf(LAMBDA line : line.hash, text)

\* The text parses neither way and fails at its end.
incompleteInput(text) ==
  \/ openConditionals(text) > 0
  \/ Last(text).last = "operator"
  \/ Head(text).first = "do" /\ Last(text).first # "while"

awaitsBody(text) == Last(text).last = "header"

\* Mutant of ifAwaitsElse: what is complete is sent at once.
holdsNothing(text) == FALSE

ifAwaitsElse(text) == Head(text).first \in {"if", "try"}

continuesHeld(line) == line.first \in {"else", "catch", "finally"}

\* A finished if or try that waits for one more line.
Held(text) == /\ text # <<>> /\ ~(bracketDepth(text) > 0) /\ ifAwaitsElse(text)
              /\ ~awaitsBody(text) /\ ~incompleteInput(text)

Waits(text) == bracketDepth(text) > 0 \/ awaitsBody(text) \/ incompleteInput(text) \/ ifAwaitsElse(text)

Send(text) == IF text = <<>> THEN sent ELSE Append(sent, text)

-----------------------------------------------------------------------------
ReaderInit ==
  /\ input \in Scripts /\ read = 0 /\ due = <<>>
  /\ pending = <<>> /\ sent = <<>> /\ running = TRUE

\* One turn of the loop, after what is held has been sent if the line does not go on with it.
TakeLine(line, text, out) ==
  \/ /\ text = <<>> /\ line = Blank                  \* nothing to do
     /\ pending' = <<>> /\ sent' = out
  \/ /\ text = <<>> /\ line.first = "op"             \* reported: the line before already ran
     /\ pending' = <<>> /\ sent' = out
  \/ /\ text = <<>> /\ line.first = "cmd"
     /\ pending' = <<>> /\ sent' = Append(out, <<line>>)
  \/ /\ text # <<>> /\ line = Blank /\ ~(bracketDepth(text) > 0)   \* a way out
     /\ pending' = <<>> /\ sent' = Append(out, text)
  \/ /\ ~(text = <<>> /\ line.first \in {"blank", "op", "cmd"})
     /\ (line = Blank => bracketDepth(text) > 0)
     /\ LET more == Append(text, line)
        IN IF Waits(more) THEN pending' = more /\ sent' = out
                          ELSE pending' = <<>> /\ sent' = Append(out, more)

\* A blank line runs nothing, and what starts with such an operator is only reported.
Runs(st) == st # <<Blank>> /\ st[1].first # "op"

\* The line that is typed next, and what is left to type after it.
nextLine == Head(input)[read + 1]
Typed ==
  IF read + 1 < Len(Head(input)) THEN read' = read + 1 /\ UNCHANGED <<input, due>>
  ELSE /\ read' = 0 /\ input' = Tail(input)
       /\ due' = IF Runs(Head(input)) THEN Append(due, Head(input)) ELSE due

ReadLine ==
  /\ running /\ input # <<>> /\ Typed
  /\ LET line == nextLine
     IN IF Held(pending) /\ line # Blank /\ ~continuesHeld(line)
        THEN TakeLine(line, <<>>, Send(pending))
        ELSE TakeLine(line, pending, sent)
  /\ UNCHANGED running

EndOfInput ==
  /\ running /\ input = <<>>
  /\ sent' = Send(pending) /\ pending' = <<>> /\ running' = FALSE
  /\ UNCHANGED <<input, read, due>>

ReaderNext == ReadLine \/ EndOfInput

ReaderSpec == ReaderInit /\ [][ReaderNext]_readerVars

-----------------------------------------------------------------------------
\* What an author may mean as one statement: a line of its own (blank, a command, or one that
\* starts with such an operator), or lines of which only the last leaves nothing open, but for
\* an if or a try that goes on with the next line. A line is blank only inside brackets.
Open(text) == bracketDepth(text) > 0 \/ awaitsBody(text) \/ incompleteInput(text)
Conditional(text) == Head(text).first \in {"if", "try"}
Statement(st) ==
  \/ Len(st) = 1 /\ (st[1] = Blank \/ st[1].first \in {"op", "cmd"})
  \/ /\ st # <<>> /\ st[1].first \notin {"blank", "op", "cmd"} /\ ~continuesHeld(st[1])
     /\ ~Open(st)
     /\ \A j \in 1 .. Len(st) - 1 :
          LET text == SubSeq(st, 1, j)
          IN /\ Open(text) \/ (Conditional(text) /\ continuesHeld(st[j + 1]))
             /\ st[j + 1] = Blank => bracketDepth(text) > 0

Line == [first : STRING, depth : Int, last : STRING, hash : Int]
Authored == \A s \in Scripts : s \in Seq(Seq(Line)) /\ \A i \in DOMAIN s : Statement(s[i])

(* Every statement runs whole and in its order, however its author lays it out: *)
(* nothing runs before its statement is read whole (an if never before the else *)
(* of the next line), at most the last one read is held, and nothing is lost at *)
(* the end of the input. (run, repl.cpp)                                        *)
InputsAsWritten ==
  /\ IsPrefix(sent, due) /\ Len(due) <= Len(sent) + 1
  /\ ~running => input = <<>> /\ sent = due
=============================================================================
