------------------------------ MODULE SampleDB ------------------------------
(***************************************************************************)
(* The Sample DB file of training, util/sample_collections.py: what        *)
(* DirectSDBWriter writes and SDB reads.                                   *)
(*                                                                         *)
(*   magic and schema | length of the samples, number of samples, samples  *)
(*                    | length of the index, number of samples, offsets    *)
(*                                                                         *)
(* The file is a sequence of bytes.  Its magic and schema are modelled by  *)
(* one byte, which tells whether the file has transcripts.  The lengths of *)
(* the two chunks and the first count are written only by close().         *)
(***************************************************************************)
EXTENDS Naturals, Sequences, SequencesExt

CONSTANTS
  Samples,       \* the samples a program may add: records of bytes
  BIGINT_SIZE,   \* 8 in the code
  INT_SIZE,      \* 4 in the code
  MaxSamples     \* bound: samples added

Byte == 0 .. 255

\* n with its last i bytes taken off, for i up to size.
Shifted(n, size) ==
  LET rest[i \in 0 .. size] == IF i = 0 THEN n ELSE rest[i - 1] \div 256
  IN  rest

\* n.to_bytes raises OverflowError unless size bytes are enough.
Fits(n, size) == Shifted(n, size)[size] = 0

to_bytes(n, size) == [i \in 1 .. size |-> Shifted(n, size)[size - i] % 256]

\* The number that the first i bytes stand for.
Values(bytes) ==
  LET value[i \in 0 .. Len(bytes)] == IF i = 0 THEN 0 ELSE 256 * value[i - 1] + bytes[i]
  IN  value

from_bytes(bytes) == Values(bytes)[Len(bytes)]

\* The end of the schema.
offset_samples == 1

\* What is assumed of the constants: a file without samples has a length.
SdbAssumption ==
  /\ Samples \subseteq [audio : Seq(Byte), transcript : Seq(Byte)]
  /\ BIGINT_SIZE \in Nat \ {0} /\ INT_SIZE \in Nat \ {0} /\ MaxSamples \in Nat
  /\ Fits(offset_samples + 2 * BIGINT_SIZE, BIGINT_SIZE)

VARIABLES
  labeled,       \* the writer's flag
  file,          \* the bytes of sdb_file
  pos,           \* its position
  offsets, num_samples,
  open,          \* sdb_file is not None
  raised,        \* an exception is on its way to the with statement
  added          \* the samples that were counted (history)

vars == <<labeled, file, pos, offsets, num_samples, open, raised, added>>
-----------------------------------------------------------------------------
(* Files *)

\* read() at the end of the file returns fewer bytes, or none.
read(from, n) == SubSeq(file, from + 1, IF from + n < Len(file) THEN from + n ELSE Len(file))

read_int(from) == from_bytes(read(from, INT_SIZE))

read_big_int(from) == from_bytes(read(from, BIGINT_SIZE))

\* f with bytes written at from; a gap that a seek left reads as zeros.
write(f, from, bytes) ==
  [i \in 1 .. IF from + Len(bytes) > Len(f) THEN from + Len(bytes) ELSE Len(f) |->
     IF i > from /\ i <= from + Len(bytes) THEN bytes[i - from]
     ELSE IF i <= Len(f) THEN f[i] ELSE 0]
-----------------------------------------------------------------------------
(* DirectSDBWriter *)

Columns(s) ==
  LET speech == to_bytes(Len(s.audio), INT_SIZE) \o s.audio
  IN  IF labeled
      THEN speech \o (to_bytes(Len(s.transcript), INT_SIZE) \o s.transcript)
      ELSE speech

Entry(s) == to_bytes(Len(Columns(s)), INT_SIZE) \o Columns(s)

\* add's own to_bytes raises for no length of the entry, of which this is the
\* largest; bound: the file's length is a big int.
Storable(s) ==
  /\ Fits(Len(Columns(s)), INT_SIZE)
  /\ Fits(pos + Len(Entry(s)), BIGINT_SIZE)

Init ==
  /\ labeled \in BOOLEAN
  /\ file = <<IF labeled THEN 1 ELSE 0>>
  /\ pos = offset_samples + 2 * BIGINT_SIZE
  /\ offsets = << >> /\ num_samples = 0
  /\ open = TRUE /\ raised = FALSE
  /\ added = << >>

\* add
Add(s) ==
  /\ open /\ ~raised /\ Len(offsets) < MaxSamples /\ Storable(s)
  /\ offsets' = Append(offsets, pos)
  /\ file' = write(file, pos, Entry(s))
  /\ pos' = pos + Len(Entry(s))
  /\ num_samples' = num_samples + 1
  /\ added' = Append(added, s)
  /\ UNCHANGED <<labeled, open, raised>>

\* add, interrupted once it has noted the offset: before or after the write,
\* but before it counts the sample.
InterruptedAdd(s) ==
  /\ open /\ ~raised /\ Len(offsets) < MaxSamples /\ Storable(s)
  /\ offsets' = Append(offsets, pos)
  /\ \/ UNCHANGED <<file, pos>>
     \/ /\ file' = write(file, pos, Entry(s))
        /\ pos' = pos + Len(Entry(s))
  /\ raised' = TRUE
  /\ UNCHANGED <<labeled, num_samples, open, added>>

\* An exception outside, or in the conversions at the start of add.
Raise ==
  /\ open /\ ~raised
  /\ raised' = TRUE
  /\ UNCHANGED <<labeled, file, pos, offsets, num_samples, open, added>>

\* close, up to the index: the length and the number of the samples.
Header(offset_index) ==
  write(write(file, offset_samples,
              to_bytes(offset_index - offset_samples - BIGINT_SIZE, BIGINT_SIZE)),
        offset_samples + BIGINT_SIZE, to_bytes(num_samples, BIGINT_SIZE))

\* The loop over the offsets: f after i of them.
Indexed(f, offset_index) ==
  LET after[i \in 0 .. Len(offsets)] ==
        IF i = 0 THEN f
        ELSE write(after[i - 1], offset_index + (1 + i) * BIGINT_SIZE,
                   to_bytes(offsets[i], BIGINT_SIZE))
  IN  after

\* Fault: the index counts its offsets.
Counted_AllOffsets(offset_index) ==
  write(Header(offset_index), offset_index + BIGINT_SIZE, to_bytes(Len(offsets), BIGINT_SIZE))

\* Then the number once more, in front of the offsets.
Counted(offset_index) ==
  write(Header(offset_index), offset_index + BIGINT_SIZE, to_bytes(num_samples, BIGINT_SIZE))

\* The file that close() leaves; the length of the index comes last.
Index(offset_index) ==
  write(Indexed(Counted(offset_index), offset_index)[Len(offsets)], offset_index,
        to_bytes((1 + Len(offsets)) * BIGINT_SIZE, BIGINT_SIZE))

\* close, called by the with statement with or without an exception.
Close ==
  /\ open
  /\ file' = Index(pos)
  /\ open' = FALSE
  /\ UNCHANGED <<labeled, pos, offsets, num_samples, raised, added>>

Next ==
  \/ \E s \in Samples : Add(s) \/ InterruptedAdd(s)
  \/ Raise
  \/ Close

Spec == Init /\ [][Next]_vars
-----------------------------------------------------------------------------
(* SDB *)

\* The offsets the constructor finds.
ReadOffsets(reverse) ==
  LET sample_chunk_len == read_big_int(offset_samples)
      index == offset_samples + BIGINT_SIZE + sample_chunk_len + BIGINT_SIZE
      count == read_big_int(index)
      found == [i \in 1 .. count |-> read_big_int(index + i * BIGINT_SIZE)]
  IN  IF reverse THEN Reverse(found) ELSE found

\* The columns of the entry at an offset; the schema has one or two.
ReadRow(offset) ==
  LET speech == offset + INT_SIZE
      n == read_int(speech)
      text == speech + INT_SIZE + n
      m == read_int(text)
  IN  [audio |-> read(speech + INT_SIZE, n),
       transcript |-> IF file[1] = 1 THEN read(text + INT_SIZE, m) ELSE << >>]

\* Iterating over the collection.
ReadAll(reverse) ==
  LET found == ReadOffsets(reverse) IN [i \in DOMAIN found |-> ReadRow(found[i])]
-----------------------------------------------------------------------------
(* Properties *)

\* Type invariant of the writer.
TypeOK ==
  /\ labeled \in BOOLEAN /\ open \in BOOLEAN /\ raised \in BOOLEAN
  /\ file \in Seq(Byte) /\ pos \in Nat
  /\ offsets \in Seq(Nat) /\ num_samples \in Nat
  /\ added \in Seq(Samples)

\* What was added is what is read, in the order of the reader, also when an
\* exception ended the with statement in the middle of an add: close() leaves
\* a file that holds the samples counted before and no other.
ReadsWhatWasAdded ==
  ~open =>
    LET written == [i \in DOMAIN added |->
                      [added[i] EXCEPT !.transcript = IF labeled THEN @ ELSE << >>]]
    IN  ReadAll(FALSE) = written /\ ReadAll(TRUE) = Reverse(written)

=============================================================================
