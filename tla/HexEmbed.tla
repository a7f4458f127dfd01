------------------------------ MODULE HexEmbed ------------------------------
(***************************************************************************)
(* The four programs of hexembed that print a file as an initialiser of a  *)
(* C array.  Two read it from a stream, two map it into memory; the length *)
(* is asked for first, and the file may change until it is read.           *)
(*                                                                         *)
(* A file is [length, data]: the length that was asked for, and the bytes  *)
(* that are there when they are read.  The output is the standard output:  *)
(* a sequence of pairs of digits and of <<"\n">>, and of the messages that *)
(* the programs write to it as well.                                       *)
(***************************************************************************)
EXTENDS Naturals, Sequences, SequencesExt

hexmap == <<"0", "1", "2", "3", "4", "5", "6", "7", "8", "9", "a", "b", "c", "d", "e", "f">>

LineBreak == 8
EndOfLine == <<"\n">>

\* Mutation of HighNibble: masked as the low one.
HighNibbleLow(byte) == byte % 16

HighNibble(byte) == byte \div 16
LowNibble(byte)  == byte % 16

\* hexStr: two characters for each byte.
hexStr(data) ==
  [k \in 1 .. 2 * Len(data) |->
     LET byte == data[(k + 1) \div 2]
     IN  hexmap[1 + IF k % 2 = 1 THEN HighNibble(byte) ELSE LowNibble(byte)]]

\* hex: the two characters of one byte.
hex(byte) == <<hexmap[1 + HighNibble(byte)], hexmap[1 + LowNibble(byte)]>>

\* One turn of the loop that prints.
Printed(digits, i) == IF i % LineBreak = LineBreak - 1 THEN <<digits, EndOfLine>> ELSE <<digits>>

PrintAll(data) ==
  LET hexstr == hexStr(data)
  IN  FlattenSeq([k \in DOMAIN data |-> Printed(<<hexstr[2 * k - 1], hexstr[2 * k]>>, k - 1)])

PrintEach(data) == FlattenSeq([k \in DOMAIN data |-> Printed(hex(data[k]), k - 1)])

Exit(status, out) == [status |-> status, out |-> out]

\* Messages, each on a line of its own.
HasRead(n) == <<"-I- read", n, "bytes">>
MmapFailed == <<"failed to mmap input file", ":", "Invalid argument">>

\* The stream's buffer has the length that was asked for.  The program says
\* how much it has read before it prints it; a read that falls short prints
\* nothing, and the program succeeds all the same.
FromStream(file) ==
  IF Len(file.data) < file.length THEN Exit("EXIT_SUCCESS", <<>>)
  ELSE Exit("EXIT_SUCCESS", <<HasRead(file.length)>> \o PrintAll(SubSeq(file.data, 1, file.length)))

\* Nothing cannot be mapped.  Of the page that holds the end of the file,
\* what lies behind it reads as zero; a page wholly behind it cannot be read.
Unmappable(file) == file.length = 0
Unreadable(file) == file.length > 0 /\ file.data = <<>>
Mapped(file) == [k \in 1 .. file.length |-> IF k <= Len(file.data) THEN file.data[k] ELSE 0]

\* What both programs that map the file make of the text for its bytes.
FromMap(file, text) ==
  CASE Unmappable(file) -> Exit("EXIT_FAILURE", <<MmapFailed>>)
    [] Unreadable(file) -> Exit("SIGBUS", <<>>)
    [] OTHER -> Exit("EXIT_SUCCESS", text)

hexembed_base(file)       == FromStream(file)
hexembed_fs(file)         == FromStream(file)
hexembed_mmap(file)       == FromMap(file, PrintAll(Mapped(file)))
hexembed_mmap_savem(file) == FromMap(file, PrintEach(Mapped(file)))

-----------------------------------------------------------------------------
(* What the programs promise.                                              *)

Worth(digit) == CHOOSE d \in 0 .. 15 : hexmap[d + 1] = digit

\* Messages have three parts, a pair of digits two.
Messages(out) == SelectSeq(out, LAMBDA o : Len(o) = 3)
Initialisers(out) == SelectSeq(out, LAMBDA o : Len(o) # 3)

\* The bytes that the initialisers stand for.
Decoded(initialisers) ==
  LET pairs == SelectSeq(initialisers, LAMBDA o : Len(o) = 2)
  IN  [k \in DOMAIN pairs |-> 16 * Worth(pairs[k][1]) + Worth(pairs[k][2])]

\* The initialisers in the output, of which no line holds more than eight,
\* are the bytes of the file; a file that shrank is left out by the programs
\* that read a stream and ends in zeros with those that map it.  What the
\* latter print of a file they have mapped is nothing but initialisers; the
\* programs that read a stream say first how much they read, on the same
\* output, which is no C as it stands.
Embeds(program, file, r) ==
  LET shown  == Initialisers(r.out)
      bytes  == Decoded(shown)
      mapped == program \in {"hexembed_mmap", "hexembed_mmap_savem"}
      shrank == Len(file.data) < file.length
  IN  /\ r.out = Messages(r.out) \o shown
      /\ Messages(r.out) = CASE mapped /\ file.length = 0 -> <<MmapFailed>>
                             [] ~mapped /\ ~shrank -> <<HasRead(file.length)>>
                             [] OTHER -> <<>>
      /\ \A k \in DOMAIN shown : shown[k] = EndOfLine <=> k % (LineBreak + 1) = 0
      /\ r.status = "EXIT_FAILURE" <=> mapped /\ file.length = 0
      /\ r.status = "SIGBUS" => mapped /\ file.length > 0 /\ bytes = <<>>
      /\ ~shrank => bytes = SubSeq(file.data, 1, file.length)
      /\ shrank => IF mapped THEN file.data # <<>> => IsPrefix(file.data, bytes) /\ Len(bytes) = file.length
                             ELSE bytes = <<>>
=============================================================================
