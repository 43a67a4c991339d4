-------------------------------- MODULE ElfHash --------------------------------
(***************************************************************************)
(* elf_hash() of ldso/symbol_resolution.c, character by character, with    *)
(* words of WIDTH bits where the code has 32.                              *)
(***************************************************************************)
EXTENDS Integers, Sequences, Bitwise

CONSTANTS
  WIDTH,   \* 32 in the code; a character is far narrower
  Names    \* the names to hash, as sequences of bytes

ASSUME WidthAssumption == WIDTH \in Nat /\ WIDTH >= 12
ASSUME NamesAssumption == Names \subseteq Seq(1 .. 255)

VARIABLES
  name,   \* the name; read only
  pos,    \* how many characters have been hashed
  h

vars == <<name, pos, h>>

-----------------------------------------------------------------------------

Word(x) == x % 2^WIDTH

(* "char" is signed on x86-64.  *)
Char(c) == IF c < 128 THEN c ELSE c - 256

AndNot(x, y) == x ^^ (x & y)

TopNibble(x) == x \div 2^(WIDTH - 4)

(* Mutant: the bits are not cleared.  *)
Step_KeepBits(x, c) ==
  LET a == Word(16 * x + Char(c))
  IN  IF TopNibble(a) # 0 THEN a ^^ (a \div 2^(WIDTH - 8)) ELSE a

(* One iteration: g is all of h, not its four highest bits.  *)
Step(x, c) ==
  LET a == Word(16 * x + Char(c))
      g == a
  IN  AndNot(IF TopNibble(a) # 0 THEN a ^^ (g \div 2^(WIDTH - 8)) ELSE a, g)

Init ==
  /\ name \in Names
  /\ pos = 0
  /\ h = 0

HashChar ==
  /\ pos < Len(name)
  /\ h' = Step(h, name[pos + 1])
  /\ pos' = pos + 1
  /\ UNCHANGED name

Next == HashChar

Spec == Init /\ [][Next]_vars

-----------------------------------------------------------------------------

TypeOK ==
  /\ name \in Seq(1 .. 255)
  /\ pos \in 0 .. Len(name)
  /\ h \in 0 .. (2^WIDTH - 1)

(* Every ASCII character resets the hash, whatever came before it, bytes of   *)
(* other encodings included: all names that end in one are in one bucket,    *)
(* which is what hash_lookup() of SymbolResolution searches.                  *)
AsciiForgets == TypeOK /\ (pos > 0 /\ name[pos] < 128 => h = 0)

=============================================================================
