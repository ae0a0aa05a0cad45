------------------------------ MODULE Compress ------------------------------
(***************************************************************************)
(* compress(1): the LZW coder and decoder of Source/archive/compress/      *)
(* zopen.c, and the files that compress() and decompress() in compress.c   *)
(* create and remove around it.                                            *)
(*                                                                         *)
(* A character is one of 0..CLEAR-1 and a byte has BYTE bits.  In the code *)
(* CLEAR is 256, BYTE 8, INIT_BITS 9, and MINBITS, the least limit zread() *)
(* accepts, 12.  The hash table is a function from a prefix and a character*)
(* to a code.  Left out: the magic number, stdin and stdout, whether the   *)
(* output existed, attributes of files.                                    *)
(***************************************************************************)
EXTENDS Integers, SequencesExt

CONSTANTS
    CLEAR, BYTE, INIT_BITS, MINBITS, CHECK_GAP,
    Char,         \* the characters of the input: a subset of 0..CLEAR-1
    Bits,         \* the values of -b
    MaxInput      \* bound: length of the input

FIRST == CLEAR + 1
MAXCODE(n) == 2 ^ n - 1
Maxmaxcode(b) == 2 ^ b

VARIABLES
    input,    \* what was read of the file to compress
    infile,   \* it exists
    maxbits,  \* -b
    z,        \* the coder, its field out being the bits of the compressed file
    d,        \* the decoder, its field in being what it has not read
    output,   \* what was decompressed
    written,  \* history: the characters whose codes are in the file
    pc        \* "compress", "kept" (compress() failed or left the file alone),
              \* "open" (to decompress), "decompress", "done", "invalid"

vars == <<input, infile, maxbits, z, d, output, written, pc>>

Start == [n_bits |-> INIT_BITS, maxcode |-> MAXCODE(INIT_BITS), free_ent |-> FIRST,
          clear_flg |-> FALSE]
None == -1

Init ==
    /\ input = <<>>
    /\ infile = TRUE
    /\ maxbits \in Bits
    /\ z = [ratio |-> 0, checkpoint |-> CHECK_GAP, in_count |-> 1, bytes_out |-> 3,
            ent |-> None, table |-> <<>>, buf |-> <<>>, out |-> <<>>] @@ Start
    /\ d = [oldcode |-> None, finchar |-> None, gbuf |-> <<>>, roffset |-> 0,
            prefix |-> <<>>, suffix |-> <<>>, in |-> <<>>] @@ Start
    /\ output = <<>>
    /\ written = 0
    /\ pc = "compress"

(* Both sides lengthen the codes when the table outgrows them.             *)
Wider(s) ==
    [s EXCEPT !.n_bits = @ + 1,
              !.maxcode = IF s.n_bits + 1 = maxbits THEN Maxmaxcode(maxbits)
                          ELSE MAXCODE(s.n_bits + 1)]
Reset(s) ==
    [s EXCEPT !.n_bits = INIT_BITS, !.maxcode = MAXCODE(INIT_BITS), !.clear_flg = FALSE]

-----------------------------------------------------------------------------
(* output(): codes are written from the lowest bit, BYTE codes to a buffer.*)
BitsOf(c, n) == [k \in 1..n |-> (c \div 2 ^ (k - 1)) % 2]
Padded(bits, n) == bits \o [k \in 1..n - Len(bits) |-> 0]
Bytes(n) == (n + BYTE - 1) \div BYTE

(* When codes change their length, the whole buffer is written, as the     *)
(* reader finds out about it only when it has read that.                   *)
Flush(s) ==
    IF s.buf = <<>> THEN s
    ELSE [s EXCEPT !.out = @ \o Padded(s.buf, BYTE * s.n_bits),
                   !.bytes_out = @ + s.n_bits, !.buf = <<>>]

Output(s, code) ==
    LET t == [s EXCEPT !.buf = @ \o BitsOf(code, s.n_bits)]
        u == IF Len(t.buf) = BYTE * t.n_bits THEN Flush(t) ELSE t
    IN  IF u.free_ent <= u.maxcode /\ ~u.clear_flg THEN u
        ELSE IF u.clear_flg THEN Reset(Flush(u)) ELSE Wider(Flush(u))

(* cl_block(): when the ratio has not improved, the table is cleared.      *)
Cl_block(s) ==
    LET rat == (256 * s.in_count) \div s.bytes_out
        t == [s EXCEPT !.checkpoint = s.in_count + CHECK_GAP]
    IN  IF rat > s.ratio THEN [t EXCEPT !.ratio = rat]
        ELSE Output([t EXCEPT !.ratio = 0, !.table = <<>>, !.free_ent = FIRST,
                              !.clear_flg = TRUE], CLEAR)

(* zwrite(), for one character.                                            *)
Coded(s, c) ==
    LET t == [s EXCEPT !.in_count = @ + 1]
        u == [Output(t, t.ent) EXCEPT !.ent = c]
    IN  IF s.ent = None THEN [s EXCEPT !.ent = c]
        ELSE IF <<s.ent, c>> \in DOMAIN s.table THEN [t EXCEPT !.ent = s.table[<<s.ent, c>>]]
        ELSE IF u.free_ent < Maxmaxcode(maxbits)
             THEN [u EXCEPT !.table = @ @@ (<<s.ent, c>> :> u.free_ent), !.free_ent = @ + 1]
        ELSE IF u.in_count >= u.checkpoint THEN Cl_block(u) ELSE u

Zwrite ==
    /\ pc = "compress"
    /\ Len(input) < MaxInput
    /\ \E c \in Char :
           /\ input' = Append(input, c)
           /\ z' = Coded(z, c)
           /\ written' = IF Coded(z, c).out # z.out THEN Len(input) ELSE written
    /\ UNCHANGED <<infile, maxbits, d, output, pc>>

(* An error, noticed at once or when the file is closed: it is removed.    *)
CompressFails ==
    /\ pc = "compress"
    /\ pc' = "kept"
    /\ z' = [z EXCEPT !.out = <<>>]
    /\ UNCHANGED <<input, infile, maxbits, d, output, written>>

(* zclose(), and the decision of compress() which file to remove.  zclose()*)
(* has the last codes and the rest of the buffer written if zmode is 'w',  *)
(* but nothing ever sets zmode.                                            *)
Zclose ==
    LET grows == Bytes(Len(z.out)) + 3 >= Len(input)
    IN  /\ pc = "compress"
        /\ \E force \in BOOLEAN :
              IF grows /\ ~force
              THEN pc' = "kept" /\ z' = [z EXCEPT !.out = <<>>] /\ UNCHANGED infile
              ELSE pc' = "open" /\ infile' = FALSE /\ UNCHANGED z
        /\ UNCHANGED <<input, maxbits, d, output, written>>

-----------------------------------------------------------------------------
(* zread() wants a header, which zwrite() wrote with the first character.  *)
Zopen ==
    /\ pc = "open"
    /\ pc' = IF input = <<>> \/ maxbits < MINBITS THEN "invalid" ELSE "decompress"
    /\ d' = [d EXCEPT !.in = z.out]
    /\ UNCHANGED <<input, infile, maxbits, z, output, written>>

(* getcode(): its buffer, filled when it is used up or codes change their  *)
(* length.  Mutant: only when it is used up.                               *)
Size(s) == Len(s.gbuf) - (s.n_bits - 1)
MustReadLate(s) == s.roffset >= Size(s)
MustRead(s) == s.clear_flg \/ s.roffset >= Size(s) \/ s.free_ent > s.maxcode
Filled(s) ==
    LET t == IF s.free_ent > s.maxcode THEN Wider(s) ELSE s
        u == IF s.clear_flg THEN Reset(t) ELSE t
        n == IF Len(u.in) < BYTE * u.n_bits THEN Len(u.in) ELSE BYTE * u.n_bits
    IN  IF ~MustRead(s) THEN s
        ELSE [u EXCEPT !.gbuf = SubSeq(u.in, 1, n), !.in = SubSeq(u.in, n + 1, Len(u.in)),
                       !.roffset = 0]
Code(s) ==
    FoldRight(LAMBDA bit, c : 2 * c + bit, SubSeq(s.gbuf, s.roffset + 1, s.roffset + s.n_bits), 0)

(* The string of a code.                                                   *)
RECURSIVE Expand(_, _)
Expand(s, code) ==
    IF code < CLEAR THEN <<code>> ELSE Append(Expand(s, s.prefix[code]), s.suffix[code])

BadStream(s, code) == code > s.free_ent \/ (code = s.free_ent /\ s.oldcode = None)

(* A code that is not in the table is the one the coder has just entered.  *)
String(s, code) ==
    IF code < s.free_ent THEN Expand(s, code) ELSE Append(Expand(s, s.oldcode), s.finchar)

(* The string's first character ends the entry of the code before.         *)
EntryChar(string) == Head(string)
Entered(s, code, string) ==
    LET t == [s EXCEPT !.finchar = Head(string), !.oldcode = code]
    IN  IF s.free_ent < Maxmaxcode(maxbits) /\ s.oldcode # None
        THEN [t EXCEPT !.prefix = @ @@ (s.free_ent :> s.oldcode),
                       !.suffix = @ @@ (s.free_ent :> EntryChar(string)),
                       !.free_ent = @ + 1]
        ELSE t

Zread ==
    LET s == Filled(d)
        code == Code(s)
        next == [s EXCEPT !.roffset = @ + s.n_bits]
    IN  /\ pc = "decompress"
        /\ \/ /\ s.gbuf = <<>>
              /\ pc' = IF output = <<>> THEN "invalid" ELSE "done"
              /\ d' = s
              /\ UNCHANGED output
           \/ /\ s.gbuf # <<>> /\ code = CLEAR
              /\ d' = [next EXCEPT !.clear_flg = TRUE, !.free_ent = FIRST, !.oldcode = None,
                                   !.prefix = <<>>, !.suffix = <<>>]
              /\ UNCHANGED <<output, pc>>
           \/ /\ s.gbuf # <<>> /\ code # CLEAR
              /\ BadStream(s, code)
              /\ pc' = "invalid"
              /\ UNCHANGED <<d, output>>
           \/ /\ s.gbuf # <<>> /\ code # CLEAR
              /\ ~BadStream(s, code)
              /\ output' = output \o String(s, code)
              /\ d' = Entered(next, code, String(s, code))
              /\ UNCHANGED pc
        /\ UNCHANGED <<input, infile, maxbits, z, written>>

Next == Zwrite \/ CompressFails \/ Zclose \/ Zopen \/ Zread

Spec == Init /\ [][Next]_vars

-----------------------------------------------------------------------------
(* What is decompressed are the characters whose codes were written, where-*)
(* ever codes change their length and the table is full or cleared, and    *)
(* that is never found invalid.                                            *)
RoundTrip ==
    /\ IsPrefix(output, input)
    /\ pc = "done" => output = SubSeq(input, 1, written)
    /\ pc = "invalid" => maxbits < MINBITS \/ written = 0

(* "uncompress restores the compressed files to their original form"       *)
(* (compress.1:69): a file that was removed can be had back.               *)
FileRestored == pc \in {"done", "invalid"} => infile \/ output = input
=============================================================================
