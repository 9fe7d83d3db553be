------------------------------ MODULE MipsElf ------------------------------
(***************************************************************************)
(* The ELF loader, src/src/c/mips_elf.c, and the command that runs what it *)
(* extracts, cmd_elf_run of src/src/c/cli.c.                               *)
(*                                                                         *)
(* A file is what its headers parse to: whether magic and class are right, *)
(* the entry point, and the program headers that lie inside the file (none *)
(* when e_phoff is 0).  The loop over them stops at the first that does    *)
(* not.  A segment's contents are those of its bytes that the file has: a  *)
(* truncated file has fewer than p_filesz.  Addresses and sizes of segments*)
(* are counted in instructions; sizes that are no multiple of four and     *)
(* little-endian data, which are copied unchanged, are left out.           *)
(***************************************************************************)
EXTENDS MipsVM

CONSTANTS
  ElfFiles,     \* the files the command is started with
  ZeroInstr     \* what a word of zeros decodes to

NoFile == [valid |-> FALSE, entry |-> 0, segments |-> << >>]

Segment == [load : BOOLEAN, vaddr : Nat, filesz : Nat, memsz : Nat, contents : Seq(Instrs)]

ASSUME ElfAssumption ==
  /\ ZeroInstr \in Instrs
  /\ ElfFiles \subseteq [valid : {TRUE}, entry : Word, segments : Seq(Segment)]
                 \union [valid : {FALSE}, entry : Word, segments : {<< >>}]
  /\ \A f \in ElfFiles : \A k \in 1 .. Len(f.segments) :
       LET s == f.segments[k]
       IN  /\ 4 * s.vaddr < W /\ 4 * s.filesz < W /\ 4 * s.memsz < W
           /\ Len(s.contents) <= s.filesz

VARIABLE elf    \* the file cmd_elf_run was given, NoFile in other commands

-----------------------------------------------------------------------------
Cells == 0 .. CodeMax \div 4 - 1

(* How far into the segment a cell lies, or any of its wrapped addresses.  *)
Into(s, a) == (a - s.vaddr) % (W \div 4)

Copied(s, a)  == s.load /\ s.filesz > 0 /\ Into(s, a) < Len(s.contents)

(* Mutant of Zeroed: zero-filling begins at the segment's first byte.      *)
ZeroedFromStart(s, a) == s.load /\ s.filesz > 0 /\ Into(s, a) < s.memsz

Zeroed(s, a) ==
  /\ s.load /\ s.filesz > 0
  /\ Into(s, a) >= s.filesz /\ Into(s, a) < s.memsz

Written(s, a) == Copied(s, a) \/ Zeroed(s, a)

(* One round of the loop: the segment over what earlier ones left.  A cell *)
(* nothing was written to is missing from the domain.                      *)
Laid(image, s) ==
  [a \in DOMAIN image \union {c \in Cells : Written(s, c)} |->
     IF Zeroed(s, a) THEN ZeroInstr
     ELSE IF Copied(s, a) THEN s.contents[Into(s, a) + 1] ELSE image[a]]

Image(f) ==
  LET laid[k \in 0 .. Len(f.segments)] ==
        IF k = 0 THEN << >> ELSE Laid(laid[k - 1], f.segments[k])
  IN  laid[Len(f.segments)]

OutLen(image) == CHOOSE n \in 0 .. CodeMax \div 4 :
                   /\ DOMAIN image \subseteq 0 .. n - 1
                   /\ n > 0 => n - 1 \in DOMAIN image

(* cmd_elf_run's buffer is uninitialised: gaps between segments hold       *)
(* whatever was on the stack.                                              *)
Flattened(image) ==
  {c \in [1 .. OutLen(image) -> StrayInstrs \union {image[a] : a \in DOMAIN image}] :
     \A k \in 1 .. OutLen(image) :
       IF k - 1 \in DOMAIN image THEN c[k] = image[k - 1] ELSE c[k] \in StrayInstrs}

(* The command: files mips_elf_load refuses, those with nothing inside the *)
(* buffer among them, end it; others are run from their entry point, and   *)
(* the machine gets no other host call.                                    *)
Loadable(f) == f.valid /\ DOMAIN Image(f) # {}

RunElf ==
  /\ alive /\ ~Looping /\ loads = 0 /\ calls = 0 /\ elf = NoFile
  /\ \E f \in ElfFiles :
       /\ Loadable(f)
       /\ elf' = f
       /\ code' \in Flattened(Image(f))
       /\ pc' = f.entry
  /\ running' = TRUE
  /\ regs' = [regs EXCEPT ![SP] = StackBytes]
  /\ loads' = MaxLoads /\ calls' = MaxCalls
  /\ UNCHANGED <<hi, lo, stack, heap_used, halted, error, alive>>

-----------------------------------------------------------------------------
(* What a program header asks for, without the loops: its first p_filesz   *)
(* addresses hold the file's contents and the ones up to p_memsz zeros.    *)
(* Segments that reach beyond 2^32, and the part of p_filesz behind the end*)
(* of a truncated file, ask for nothing.                                   *)
Plain(s) ==
  LET size == IF s.filesz >= s.memsz THEN s.filesz ELSE s.memsz
  IN  4 * (s.vaddr + size) <= W

Asked(s, a) ==
  LET in == a - s.vaddr
  IN  IF ~s.load \/ s.filesz = 0 \/ in < 0 THEN {}
      ELSE IF in < Len(s.contents) THEN {s.contents[in + 1]}
      ELSE IF s.filesz <= in /\ in < s.memsz THEN {ZeroInstr} ELSE {}

(* Where the file says what stands at an address of the buffer, the code   *)
(* run has that: what the last segment that has bytes or zeros for the     *)
(* address says, whatever segments overlap, are truncated, end behind the  *)
(* buffer or are listed out of order; and the code ends with the last such *)
(* address.  Nothing is said of the addresses between: the buffer is       *)
(* uninitialised there (cli.c:601), and for a segment with p_filesz = 0,   *)
(* which the loader skips and zeroes nothing for.                          *)
ImageExact ==
  elf # NoFile /\ (\A k \in 1 .. Len(elf.segments) : Plain(elf.segments[k])) =>
    LET Defining(a) == {k \in 1 .. Len(elf.segments) : Asked(elf.segments[k], a) # {}}
    IN  /\ \A a \in Cells :
             Defining(a) # {} =>
               /\ a < Len(code)
               /\ \E k \in Defining(a) :
                    /\ code[a + 1] \in Asked(elf.segments[k], a)
                    /\ \A l \in Defining(a) : l <= k
        /\ Defining(Len(code) - 1) # {}
=============================================================================
