------------------------------ MODULE OutputFilter ------------------------------
(***************************************************************************)
(* What a terminal's program prints passes through outputFilter            *)
(* (src/internal/terminal/output_filter.go) on its way to the emulator: it *)
(* takes out the sequences that set a title, which begin in one read and   *)
(* may end in a later one, and holds back what might still become one.     *)
(***************************************************************************)
EXTENDS Naturals, Sequences

CONSTANTS
  MaxBuffered,  \* maxBufferedOSCBytes
  MaxRead,      \* bound: bytes in one read
  MaxRaw        \* bound: bytes the program prints

ASSUME BufferAssumption == MaxBuffered \in Nat \ {0}

VARIABLES
  filter,   \* the outputFilter: state and sequence
  raw,      \* history: all the program printed
  written   \* history: all that was written to the emulator

filterVars == <<filter, raw, written>>

(* The bytes the code tells apart; "0" stands for the digits 0, 1 and 2, and *)
(* a byte that means nothing where it stands for any other.                  *)
Esc == "esc"
Bel == "bel"
Bytes == {Esc, Bel, "]", "\\", "0", ";"}

Idle == [state |-> "text", sequence |-> <<>>]

FilterInit == filter = Idle /\ raw = <<>> /\ written = <<>>

-----------------------------------------------------------------------------
isTitleOSC(sequence) ==
  /\ Len(sequence) > 3
  /\ SubSeq(sequence, 1, 4) = <<Esc, "]", "0", ";">>

(* A step of Filter on f, which also has the output of this read.            *)
Holding(f, state, sequence) == [f EXCEPT !.state = state, !.sequence = sequence]
Passing(f, bytes) == [f EXCEPT !.state = "text", !.sequence = <<>>, !.output = @ \o bytes]
finishOSC(f, sequence) == Passing(f, IF isTitleOSC(sequence) THEN <<>> ELSE sequence)

Text(f, value) ==
  IF value = Esc THEN Holding(f, "escape", <<Esc>>) ELSE Passing(f, <<value>>)

Escape(f, value) ==
  CASE value = Esc -> Holding(Passing(f, f.sequence), "escape", <<Esc>>)
    [] value = "]" -> Holding(f, "osc", Append(f.sequence, value))
    [] OTHER -> Passing(f, Append(f.sequence, value))

OSC(f, value) ==
  LET sequence == Append(f.sequence, value)
  IN CASE value = Bel -> finishOSC(f, sequence)
       [] value = Esc -> Holding(f, "oscEscape", sequence)
       [] OTHER -> Holding(f, "osc", sequence)

(* A plausible slip: a second ESC is taken for text of the sequence.         *)
OSCEscapeOnce(f, value) ==
  LET sequence == Append(f.sequence, value)
  IN IF value = "\\" THEN finishOSC(f, sequence) ELSE Holding(f, "osc", sequence)

OSCEscape(f, value) ==
  LET sequence == Append(f.sequence, value)
  IN CASE value = "\\" -> finishOSC(f, sequence)
       [] value = Esc -> Holding(f, "oscEscape", sequence)
       [] OTHER -> Holding(f, "osc", sequence)

(* Nothing is held back for longer than the buffer.                          *)
Bounded(f) == IF Len(f.sequence) > MaxBuffered THEN Passing(f, f.sequence) ELSE f

Byte(f, value) ==
  Bounded(CASE f.state = "text" -> Text(f, value)
            [] f.state = "escape" -> Escape(f, value)
            [] f.state = "osc" -> OSC(f, value)
            [] f.state = "oscEscape" -> OSCEscape(f, value))

(* One byte after the other; the n-th value is what the first n make of f.   *)
Running(f, input) ==
  LET run[n \in 0..Len(input)] == IF n = 0 THEN f ELSE Byte(run[n - 1], input[n])
  IN run

Filter(input) ==
  Running([state |-> filter.state, sequence |-> filter.sequence, output |-> <<>>],
          input)[Len(input)]

-----------------------------------------------------------------------------
(* readOutput: one read of the pseudo terminal.                              *)
Chunks == UNION {[1..n -> Bytes] : n \in 1..MaxRead}

readOutput(input) ==
  /\ Len(raw) + Len(input) <= MaxRaw
  /\ LET f == Filter(input)
     IN /\ filter' = [state |-> f.state, sequence |-> f.sequence]
        /\ written' = written \o f.output
  /\ raw' = raw \o input

FilterNext == \E input \in Chunks : readOutput(input)

FilterSpec == FilterInit /\ [][FilterNext]_filterVars

-----------------------------------------------------------------------------
(* The filter on the whole output at once, without states: it is cut into    *)
(* pieces, and a piece that begins at i ends at the first k that closes it.  *)

(* An operating system command that begins at i ends with a BEL that no ESC  *)
(* precedes, or with an ESC \.                                               *)
EndsCommand(bytes, i, k) ==
  \/ k >= i + 2 /\ bytes[k] = Bel /\ (k > i + 2 => bytes[k - 1] # Esc)
  \/ k > i + 2 /\ bytes[k] = "\\" /\ bytes[k - 1] = Esc

IsCommand(bytes, i) == i < Len(bytes) /\ bytes[i] = Esc /\ bytes[i + 1] = "]"

(* Any byte but an ESC is a piece, and an ESC before another one; an ESC and *)
(* what follows it; a command, or as much of it as the buffer does not hold. *)
Closes(bytes, i, k) ==
  \/ k = i /\ (bytes[i] = Esc => i < Len(bytes) /\ bytes[i + 1] = Esc)
  \/ k = i + 1 /\ bytes[k] # "]"
  \/ IsCommand(bytes, i) /\ (EndsCommand(bytes, i, k) \/ k = i + MaxBuffered)

IsTitle(bytes, i, k) == EndsCommand(bytes, i, k) /\ isTitleOSC(SubSeq(bytes, i, k))

(* What is left of the output from i on, given what is left from later       *)
(* places on, and what is held back at the end.                              *)
LeftFrom(bytes, i, left) ==
  LET closings == {k \in i..Len(bytes) : Closes(bytes, i, k)}
      end == CHOOSE k \in closings : \A other \in closings : k <= other
      rest == left[end + 1]
  IN IF closings = {} THEN [out |-> <<>>, held |-> SubSeq(bytes, i, Len(bytes))]
     ELSE IF IsTitle(bytes, i, end) THEN rest
     ELSE [out |-> SubSeq(bytes, i, end) \o rest.out, held |-> rest.held]

Left(bytes) ==
  LET left[i \in 1..Len(bytes) + 1] == LeftFrom(bytes, i, left)
  IN left

(* However the output is cut into reads, the emulator gets all of it in       *)
(* order but the complete titles, and what it lacks is at most the sequence   *)
(* under way (Filter, finishOSC and the limit in output_filter.go).           *)
TitlesOnlyRemoved ==
  LET whole == Left(raw)[1]
  IN written = whole.out /\ filter.sequence = whole.held

=============================================================================
