------------------------------ MODULE Alphabet ------------------------------
(***************************************************************************)
(* Alphabet of native_client/alphabet.cc on its way from the file to the   *)
(* client: init() reads the file at training time, Serialize() puts it     *)
(* into the exported model, Deserialize() reads it back in the client.     *)
(*                                                                         *)
(* A line is a string; Size gives its length in bytes.  The buffer is a    *)
(* sequence of fields, 16-bit numbers and strings, of which buffer_size    *)
(* bytes arrive: a model file may be cut short.                            *)
(***************************************************************************)
EXTENDS Naturals, Sequences, SequencesExt, Functions

CONSTANTS
  Files,      \* alphabet files: sequences of lines
  Size,       \* Size[line] is its length in bytes
  NoSpace,    \* -2, the label of the space when there is none
  Garbage     \* what an uninitialised space_label_ may hold

\* What a line stands for: a comment or nothing, an escaped #, or itself.
Comment(line) == line \in {"", "#", "# comment"}

Unescaped(line) == IF line = "\\#" THEN "#" ELSE line

\* The values of a uint16_t: those of two bytes.
Uint16Values == 256 * 256

\* What is assumed of the constants.  Serialize writes the number of labels and
\* the length of a label in 16 bits.
AlphabetAssumption ==
  /\ Files \subseteq Seq(DOMAIN Size)
  /\ \A f \in Files :
       /\ Len(f) < Uint16Values
       /\ \A line \in Range(f) :
            Unescaped(line) \in DOMAIN Size /\ Size[Unescaped(line)] \in 0 .. Uint16Values - 1
  /\ Garbage # {}

VARIABLES
  pc,             \* "init", "serialize", "deserialize", "ok" or "error"
  lines,          \* lines of the file not yet read
  source,         \* the alphabet of the training side
  pending,        \* labels not yet serialised
  buffer,         \* the fields written
  buffer_size,    \* the bytes that arrive
  offset,         \* position of Deserialize
  next,           \* the field there
  target          \* the alphabet of the client

vars == <<pc, lines, source, pending, buffer, buffer_size, offset, next, target>>

Put(f, x, y) == [z \in DOMAIN f \cup {x} |-> IF z = x THEN y ELSE f[z]]

Empty == [z \in {} |-> z]
-----------------------------------------------------------------------------
Init ==
  /\ pc = "init"
  /\ lines \in Files
  /\ source = [size |-> 0, space_label |-> NoSpace, label_to_str |-> Empty,
               str_to_label |-> Empty]
  /\ pending = {} /\ buffer = << >> /\ buffer_size = 0 /\ offset = 0 /\ next = 1
  /\ target = [source EXCEPT !.size = 0]

\* init: one line of the file.
ReadLine ==
  /\ pc = "init" /\ lines # << >>
  /\ LET line == Unescaped(Head(lines))
         label == source.size
     IN  source' =
           IF Comment(Head(lines)) THEN source
           ELSE [size |-> label + 1,
                 space_label |-> IF line = " " THEN label ELSE source.space_label,
                 label_to_str |-> Put(source.label_to_str, label, line),
                 str_to_label |-> Put(source.str_to_label, line, label)]
  /\ lines' = Tail(lines)
  /\ UNCHANGED <<pc, pending, buffer, buffer_size, offset, next, target>>

uint16(n) == [kind |-> "uint16", value |-> n % Uint16Values, size |-> 2]

\* Serialize: the number of pairs first.
BeginSerialize ==
  /\ pc = "init" /\ lines = << >>
  /\ pc' = "serialize"
  /\ buffer' = <<uint16(source.size)>>
  /\ pending' = DOMAIN source.label_to_str
  /\ UNCHANGED <<lines, source, buffer_size, offset, next, target>>

\* A pair; the hash map gives them in no particular order.
SerializePair(label) ==
  /\ pc = "serialize" /\ label \in pending
  /\ LET str == source.label_to_str[label]
     IN  buffer' = buffer \o <<uint16(label), uint16(Size[str]),
                               [kind |-> "string", value |-> str, size |-> Size[str]]>>
  /\ pending' = pending \ {label}
  /\ UNCHANGED <<pc, lines, source, buffer_size, offset, next, target>>

\* The bytes before the field that follows the n-th.
Offsets(fields) ==
  LET after[n \in 0 .. Len(fields)] == IF n = 0 THEN 0 ELSE after[n - 1] + fields[n].size
  IN  after

Length(fields) == Offsets(fields)[Len(fields)]

\* The client reads the metadata: a new Alphabet, whose space_label_ nobody
\* initialises, and a buffer that may have lost its end.
Load(n, space) ==
  /\ pc = "serialize" /\ pending = {}
  /\ pc' = "deserialize"
  /\ buffer_size' = n
  /\ target' = [target EXCEPT !.space_label = space]
  /\ UNCHANGED <<lines, source, pending, buffer, offset, next>>

\* Fault: the length of a value is not compared with what is left.
Fits_NoCheck(field) == field.kind = "uint16" => field.size <= buffer_size - offset

\* buffer_size - offset < sizeof(...) makes Deserialize return 1.
Fits(field) == field.size <= buffer_size - offset

Refuse ==
  /\ pc = "deserialize"
  /\ next <= 1 + 3 * target.size /\ ~Fits(buffer[next])
  /\ pc' = "error"
  /\ UNCHANGED <<lines, source, pending, buffer, buffer_size, offset, next, target>>

\* What Deserialize does with the value of a pair; its label is two fields back.
Enter(field) ==
  LET label == buffer[next - 2].value
  IN  [target EXCEPT !.label_to_str = Put(@, label, field.value),
                     !.str_to_label = Put(@, field.value, label),
                     !.space_label = IF field.value = " " THEN label ELSE @]

\* Deserialize: the next field.
ReadField ==
  /\ pc = "deserialize"
  /\ next <= 1 + 3 * target.size /\ Fits(buffer[next])
  /\ LET field == buffer[next]
     IN  /\ offset' = offset + field.size
         /\ target' = IF next = 1 THEN [target EXCEPT !.size = field.value]
                      ELSE IF field.kind = "string" THEN Enter(field) ELSE target
  /\ next' = next + 1
  /\ UNCHANGED <<pc, lines, source, pending, buffer, buffer_size>>

Done ==
  /\ pc = "deserialize" /\ next > 1 + 3 * target.size
  /\ pc' = "ok"
  /\ UNCHANGED <<lines, source, pending, buffer, buffer_size, offset, next, target>>

Next ==
  \/ ReadLine
  \/ BeginSerialize
  \/ \E label \in pending : SerializePair(label)
  \/ \E n \in 0 .. Length(buffer), space \in Garbage : Load(n, space)
  \/ Refuse
  \/ ReadField
  \/ Done

Spec == Init /\ [][Next]_vars
-----------------------------------------------------------------------------
(* Properties *)

\* Type invariant: labels are numbered without gaps on the training side.
TypeOK ==
  /\ DOMAIN source.label_to_str = 0 .. source.size - 1
  /\ \A label \in DOMAIN source.label_to_str : source.label_to_str[label] # ""
  /\ offset \in Nat /\ next \in 1 .. Len(buffer) + 1

\* Deserialize reads nothing beyond the buffer, and refuses every buffer that
\* is not complete.
CutBuffersRefused ==
  /\ pc \in {"deserialize", "ok", "error"} => offset <= buffer_size
  /\ pc = "ok" => buffer_size = Length(buffer)

\* The client's alphabet is the training side's, whatever the order of the
\* pairs: the same labels, and a label for each string they stand for; the
\* space has the label of the string " ".  Where no string has two labels, both
\* are the training side's.
RoundTrip ==
  pc = "ok" =>
    /\ target.size = source.size
    /\ target.label_to_str = source.label_to_str
    /\ DOMAIN target.str_to_label = DOMAIN source.str_to_label
    /\ \A str \in DOMAIN target.str_to_label :
         /\ target.str_to_label[str] \in DOMAIN source.label_to_str
         /\ source.label_to_str[target.str_to_label[str]] = str
    /\ " " \in DOMAIN source.str_to_label => target.space_label = target.str_to_label[" "]
    /\ IsInjective(source.label_to_str) =>
         /\ target.str_to_label = source.str_to_label
         /\ " " \in DOMAIN source.str_to_label => target.space_label = source.space_label

=============================================================================
