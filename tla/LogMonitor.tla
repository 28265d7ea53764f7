------------------------------ MODULE LogMonitor ------------------------------
(***************************************************************************)
(* Class LogMonitor of src/log-monitor.ts: chunks of output become lines,  *)
(* and lines findings.                                                     *)
(*                                                                         *)
(* Text is a sequence of symbols: "cr" and "lf" end lines, "x" stands for  *)
(* ordinary text, "E" for text that a rule finds wherever it stands, "S"   *)
(* for the text of a StacklessClosedChannelException and "F" for that of a *)
(* netty stack frame, which both count only as the whole of a line.  "b1"  *)
(* and "b2" are the bytes of a character of two, as it leaves the server.  *)
(***************************************************************************)
EXTENDS Naturals, Sequences, FiniteSets, SequencesExt

Symbols    == {"cr", "lf", "x", "E", "S", "F", "b1", "b2"}
Characters == Symbols \union {"bad"}
EmptyLog   == [lines |-> <<>>, findings |-> <<>>, partial |-> <<>>]

\* chunk.toString() decodes each chunk for itself: a byte without the other
\* becomes a replacement character.
Stray(chunk, i) ==
  \/ chunk[i] = "b1" /\ (i = Len(chunk) \/ chunk[i + 1] # "b2")
  \/ chunk[i] = "b2" /\ (i = 1 \/ chunk[i - 1] # "b1")
Decode(chunk) == [i \in 1..Len(chunk) |-> IF Stray(chunk, i) THEN "bad" ELSE chunk[i]]

\* /\r?\n/ at the end of the piece before a line feed.
Chomp(line) ==
  IF line # <<>> /\ Last(line) = "cr" THEN Front(line) ELSE line

IsBenignClosedChannelFrame(lines) ==
  Last(lines) = <<"F">> /\ Len(lines) > 1 /\ lines[Len(lines) - 1] = <<"S">>

\* A line that a rule finds and none of its exceptions excuses.
Reported(lines) ==
  \/ Contains(Last(lines), "E")
  \/ Last(lines) = <<"F">> /\ ~IsBenignClosedChannelFrame(lines)

AcceptLine(log, line) ==
  LET lines == Append(log.lines, line)
  IN  [log EXCEPT !.lines = lines,
                  !.findings = IF Reported(lines) THEN Append(@, Len(lines)) ELSE @]

\* split() and the loop over its lines, symbol by symbol: what follows the last
\* line feed stays in `partial`.
AcceptSymbol(log, symbol) ==
  IF symbol = "lf" THEN [AcceptLine(log, Chomp(log.partial)) EXCEPT !.partial = <<>>]
  ELSE [log EXCEPT !.partial = Append(@, symbol)]

\* The loop over a value, after each of its symbols.
Accepting(log, value) ==
  LET at[i \in 0..Len(value)] == IF i = 0 THEN log ELSE AcceptSymbol(at[i - 1], value[i])
  IN  at

\* Mutant of Accept: every chunk begins a line.
AcceptAfresh(log, chunk) ==
  Accepting([log EXCEPT !.partial = <<>>], Decode(chunk))[Len(chunk)]

Accept(log, chunk) ==
  LET value == log.partial \o Decode(chunk)
  IN  Accepting([log EXCEPT !.partial = <<>>], value)[Len(value)]

Flush(log) ==
  [(IF log.partial = <<>> THEN log ELSE AcceptLine(log, log.partial)) EXCEPT !.partial = <<>>]

\* The log after each chunk, and at the end of the output.
Monitoring(chunks) ==
  LET at[c \in 0..Len(chunks)] == IF c = 0 THEN EmptyLog ELSE Accept(at[c - 1], chunks[c])
  IN  at
Monitored(chunks) == Flush(Monitoring(chunks)[Len(chunks)])

-----------------------------------------------------------------------------
\* The lines of a text by their positions: from after a line feed up to before
\* the next, or up to the end of the text.
Feeds(text)  == {i \in 1..Len(text) : text[i] = "lf"}
Ends(text)   == Feeds(text) \union
                  (IF text # <<>> /\ Last(text) # "lf" THEN {Len(text) + 1} ELSE {})
LineOf(text, end) ==
  LET begin == CHOOSE i \in 1..end : /\ \A j \in Feeds(text) : j < end => j < i
                                     /\ i = 1 \/ i - 1 \in Feeds(text)
      piece == SubSeq(text, begin, end - 1)
  IN  IF end \in Feeds(text) THEN Chomp(piece) ELSE piece
LineNumber(text, end) == Cardinality({e \in Ends(text) : e <= end})

\* The text of the first chunks, for each number of them.
TextAfter(chunks) ==
  LET at[c \in 0..Len(chunks)] == IF c = 0 THEN <<>> ELSE at[c - 1] \o chunks[c]
  IN  at

\* No cut between two chunks divides a character.
CharactersAreWhole(chunks) ==
  LET at   == TextAfter(chunks)
      text == at[Len(chunks)]
  IN  \A c \in 1..Len(chunks) :
        LET n == Len(at[c]) IN n \in 1..(Len(text) - 1) => ~(text[n] = "b1" /\ text[n + 1] = "b2")

\* A text, but for characters that are damaged.
Alike(read, text) ==
  /\ Len(read) = Len(text)
  /\ \A i \in 1..Len(text) : read[i] = text[i] \/ (read[i] = "bad" /\ text[i] \in {"b1", "b2"})

\* However the operating system cuts the output, between "cr" and "lf" too,
\* the lines are those of the whole text, in which a cut damages no more than
\* the character it divides; and every line that a rule finds is reported at its
\* number, except a netty frame right after its exception (src/log-monitor.ts,
\* accept() and isBenignClosedChannelFrame()).
ChunkingDoesNotMatter(chunks) ==
  LET text == TextAfter(chunks)[Len(chunks)]
      log  == Monitored(chunks)
  IN  /\ Len(log.lines) = Cardinality(Ends(text))
      /\ \A end \in Ends(text) : Alike(log.lines[LineNumber(text, end)], LineOf(text, end))
      /\ CharactersAreWhole(chunks) => \A end \in Ends(text) :
           log.lines[LineNumber(text, end)] = LineOf(Decode(text), end)
      /\ \A n \in 1..Len(log.lines) :
           (\E i \in DOMAIN log.findings : log.findings[i] = n) <=>
             \/ Contains(log.lines[n], "E")
             \/ log.lines[n] = <<"F">> /\ (n = 1 \/ log.lines[n - 1] # <<"S">>)
===============================================================================
