-------------------------------- MODULE Printf --------------------------------
(***************************************************************************)
(* vsprintf() and number() of libc/printf.c: one format, one turn of the   *)
(* loop over its characters per step.  Types have few bits; the properties *)
(* compare the text with what the C standard says of the conversion that   *)
(* the format was written for.                                             *)
(***************************************************************************)
EXTENDS Integers, Sequences, SequencesExt, FiniteSetsExt

CONSTANTS
  LONG, INT, SHORT,   \* bits of the types: 64, 32 and 16
  Specs, Tails,       \* conversions, and what follows them in the format
  Longs, Ints, Strs, Chars,  \* arguments of each type
  Stars               \* arguments for "*"

NUL == "NUL"

VARIABLES
  spec, tail,   \* what the format was written for; read only
  fmt,          \* its characters; read only
  at,           \* the character that is looked at
  out,          \* the text so far
  used          \* the arguments taken so far, with their types

vars == <<spec, tail, fmt, at, out, used>>

-----------------------------------------------------------------------------
(* Numbers.  *)

Signed(n, bits) == IF n % 2 ^ bits >= 2 ^ (bits - 1) THEN (n % 2 ^ bits) - 2 ^ bits ELSE n % 2 ^ bits

Of(c, n) == [k \in 1 .. Max({0, n}) |-> c]

When(c, s) == IF c THEN s ELSE <<>>

DigitChars == [small |-> <<"0","1","2","3","4","5","6","7","8","9","a","b","c","d","e","f">>,
               large |-> <<"0","1","2","3","4","5","6","7","8","9","A","B","C","D","E","F">>]

(* The loop over __do_div(), read backwards.  *)
Digits(n, base, case) ==
  LET digits[k \in Nat] == IF k < base THEN <<DigitChars[case][k + 1]>>
                           ELSE Append(digits[k \div base], DigitChars[case][(k % base) + 1])
  IN  digits[n]

(* Mutant: no room is set aside for the sign of a positive number.  *)
Sign_NoRoom(num, flags, signed) ==
  IF ~signed THEN [text |-> <<>>, room |-> 0]
  ELSE IF num < 0 THEN [text |-> <<"-">>, room |-> 1]
  ELSE [text |-> When("+" \in flags, <<"+">>) \o When(" " \in flags \ {"+"}, <<" ">>), room |-> 0]

Sign(num, flags, signed) ==
  IF ~signed THEN [text |-> <<>>, room |-> 0]
  ELSE IF num < 0 THEN [text |-> <<"-">>, room |-> 1]
  ELSE IF "+" \in flags THEN [text |-> <<"+">>, room |-> 1]
  ELSE IF " " \in flags THEN [text |-> <<" ">>, room |-> 1]
  ELSE [text |-> <<>>, room |-> 0]

(* num is a long; it is negated where it is signed, and divided as unsigned. *)
number(num, base, size, precision, flags, signed, case) ==
  LET sign    == Sign(num, flags, signed)
      special == IF "#" \notin flags THEN <<>>
                 ELSE IF base = 16 THEN <<"0", IF case = "small" THEN "x" ELSE "X">>
                 ELSE IF base = 8 THEN <<"0">> ELSE <<>>
      abs     == IF signed /\ num < 0 THEN -num ELSE num
      digits  == Digits(abs % 2 ^ LONG, base, case)
      prec    == Max({precision, Len(digits)})
      left    == size - sign.room - Len(special) - prec
      left_justified == "-" \in flags
      zeropad        == "0" \in flags /\ ~left_justified
  IN  When(~zeropad /\ ~left_justified, Of(" ", left))
        \o sign.text \o special
        \o When(zeropad, Of("0", left))
        \o Of("0", prec - Len(digits)) \o digits
        \o When(left_justified, Of(" ", left))

-----------------------------------------------------------------------------
(* The conversion at character a of the format, which is "%".  *)

Digit == {"0", "1", "2", "3", "4", "5", "6", "7", "8", "9"}
Flag  == {"-", "+", " ", "#", "0"}

CharAt(k) == IF k <= Len(fmt) THEN fmt[k] ELSE NUL

(* The first character from k on that is not in S.  *)
Behind(k, S) == Min({j \in k .. Len(fmt) + 1 : CharAt(j) \notin S})

DigitValue(c) == (CHOOSE k \in 1 .. 16 : DigitChars.small[k] = c) - 1

skip_atoi(k) ==
  FoldLeft(LAMBDA n, c : 10 * n + DigitValue(c), 0, SubSeq(fmt, k, Behind(k, Digit) - 1))

(* A number, or one that an argument gives, or -1: where it ends and what   *)
(* it can be.                                                              *)
Count(k) ==
  IF CharAt(k) \in Digit THEN [end |-> Behind(k, Digit), vals |-> {skip_atoi(k)}, star |-> FALSE]
  ELSE IF CharAt(k) = "*" THEN [end |-> k + 1, vals |-> Stars, star |-> TRUE]
  ELSE [end |-> k, vals |-> {-1}, star |-> FALSE]

Precision(k) ==
  IF CharAt(k) = "." THEN Count(k + 1) ELSE [end |-> k, vals |-> {-1}, star |-> FALSE]

(* Arguments of a conversion: their type, and the values they can have.  *)
ArgType(conv, qual) ==
  CASE conv \in {"d", "u", "x", "X", "o"} -> IF qual = "l" THEN "long" ELSE "int"
    [] conv = "c" -> "int"
    [] conv = "p" -> "pointer"
    [] conv = "s" -> "string"
    [] conv = "n" -> "count"
    [] OTHER -> "none"

ArgValues(conv, type) ==
  CASE conv = "c" -> Chars
    [] type \in {"long", "pointer"} -> Longs
    [] type = "int"    -> Ints
    [] type = "string" -> Strs
    [] type = "count"  -> {Len(out)}
    [] OTHER           -> {0}

(* num: a long, from the argument v.  *)
Promoted(v, conv, qual) ==
  IF qual = "l" THEN v
  ELSE IF qual = "h" THEN IF conv = "d" THEN Signed(v, SHORT) ELSE v % 2 ^ SHORT
  ELSE IF conv = "d" THEN v ELSE v % 2 ^ INT

(* "i" is "d".  *)
Named(c) == IF c = "i" THEN "d" ELSE c

Base(conv) == IF conv = "o" THEN 8 ELSE IF conv \in {"x", "X"} THEN 16 ELSE 10

strnlen(s, n) == IF n = -1 THEN Len(s) ELSE Min({n, Len(s)})

Padded(text, width, flags) ==
  LET blanks == Of(" ", width - Len(text))
  IN  IF "-" \in flags THEN text \o blanks ELSE blanks \o text

(* The text of a conversion of v.  *)
Text(conv, qual, flags, width, prec, v) ==
  CASE conv = "c" -> Padded(<<v>>, width, flags)
    [] conv = "s" -> Padded(SubSeq(v, 1, strnlen(v, prec)), width, flags)
    [] conv = "p" ->
         number(v, 16, IF width = -1 THEN LONG \div 4 ELSE width, prec,
                IF width = -1 THEN flags \cup {"0"} ELSE flags, FALSE, "large")
    [] conv = "n" -> <<>>
    [] conv = "%" -> <<"%">>
    [] conv \in {"d", "u", "x", "X", "o"} ->
         number(Promoted(v, conv, qual), Base(conv), width, prec, flags,
                conv = "d", IF conv = "x" THEN "small" ELSE "large")
    [] conv = NUL -> <<"%">>
    [] OTHER      -> <<"%", conv>>

(* Mutant: the terminator is passed over with the conversion.  *)
EndOf_Past(conv, k) == k + 1

(* Where the next turn begins: on the terminator if the format ends here.  *)
EndOf(conv, k) == IF conv = NUL THEN k ELSE k + 1

Convert ==
  /\ CharAt(at) = "%"
  /\ LET w     == Count(Behind(at + 1, Flag))
         p     == Precision(w.end)
         q     == IF CharAt(p.end) \in {"h", "l", "L"} THEN CharAt(p.end) ELSE ""
         last  == IF q = "" THEN p.end ELSE p.end + 1
         conv  == Named(CharAt(last))
         flags == {fmt[k] : k \in at + 1 .. Behind(at + 1, Flag) - 1}
         type  == ArgType(conv, q)
         star(c, n) == When(c.star, <<[type |-> "int", val |-> n]>>)
     IN  \E width \in w.vals, n \in p.vals, v \in ArgValues(conv, type) :
           LET left == w.star /\ width < 0
               prec == IF CharAt(w.end) = "." THEN Max({n, 0}) ELSE -1
           IN  /\ out' = out \o Text(conv, q, IF left THEN flags \cup {"-"} ELSE flags,
                                     IF left THEN -width ELSE width, prec, v)
               /\ used' = used \o star(w, width) \o star(p, n)
                            \o When(type # "none", <<[type |-> type, val |-> v]>>)
         /\ at' = EndOf(conv, last)
  /\ UNCHANGED <<spec, tail, fmt>>

Literal ==
  /\ CharAt(at) \notin {"%", NUL}
  /\ out' = Append(out, fmt[at])
  /\ at' = at + 1
  /\ UNCHANGED <<spec, tail, fmt, used>>

(* A conversion, written down.  *)
Written(s) == <<"%">> \o s.flags \o s.width \o s.prec \o s.qual \o s.conv

Init ==
  /\ spec \in Specs
  /\ tail \in Tails
  /\ fmt = Written(spec) \o tail
  /\ at = 1
  /\ out = <<>>
  /\ used = <<>>

Next == Literal \/ Convert

Spec == Init /\ [][Next]_vars

-----------------------------------------------------------------------------
(* Properties *)

(* The scan never passes the terminator of the format.  *)
TypeOK ==
  /\ at \in 1 .. Len(fmt) + 1
  /\ \A k \in DOMAIN used : used[k].type \in {"int", "long", "pointer", "string", "count"}

(* What C says of a conversion with these arguments (ISO C17 7.21.6.1).  *)
Conv == IF spec.conv = <<>> THEN NUL ELSE Named(spec.conv[1])
Qual == IF spec.qual = <<>> THEN "" ELSE spec.qual[1]

WidthStar == spec.width = <<"*">>
PrecStar  == spec.prec = <<".", "*">>

Read(digits) == FoldLeft(LAMBDA n, c : 10 * n + DigitValue(c), 0, digits)

(* The types of its arguments, in order.  *)
Types ==
  When(WidthStar, <<"int">>) \o When(PrecStar, <<"int">>)
    \o When(ArgType(Conv, Qual) # "none", <<ArgType(Conv, Qual)>>)

CWidth == IF WidthStar THEN used[1].val ELSE Read(spec.width)
CPrec  == IF PrecStar THEN used[IF WidthStar THEN 2 ELSE 1].val ELSE Read(Tail(spec.prec))
HasPrec == spec.prec # <<>> /\ CPrec >= 0
CFlags == ToSet(spec.flags) \cup IF CWidth < 0 THEN {"-"} ELSE {}

Val == used[Len(used)].val

(* The value of a number of the type that the conversion and "h", "l" say.  *)
CBits == IF Qual = "l" THEN LONG ELSE IF Qual = "h" THEN SHORT ELSE INT
CValue == IF Conv = "d" THEN Signed(Val, CBits) ELSE Val % 2 ^ CBits

(* Digits of which this is the value, without leading zeros.  *)
IsNumeral(digits, n) ==
  LET base == Base(Conv)
      chars == DigitChars[IF Conv = "x" THEN "small" ELSE "large"]
      Value(c) == (CHOOSE k \in 1 .. 16 : chars[k] = c) - 1
  IN  /\ \A k \in DOMAIN digits : \E d \in 1 .. base : digits[k] = chars[d]
      /\ FoldLeft(LAMBDA m, c : base * m + Value(c), 0, digits) = n
      /\ digits # <<>> /\ (n # 0 => digits[1] # "0")

CSign ==
  IF Conv # "d" THEN <<>>
  ELSE IF CValue < 0 THEN <<"-">>
  ELSE IF "+" \in CFlags THEN <<"+">> ELSE IF " " \in CFlags THEN <<" ">> ELSE <<>>

CPrefix ==
  IF "#" \notin CFlags THEN <<>>
  ELSE IF Conv \in {"x", "X"} THEN <<"0", Conv>> ELSE IF Conv = "o" THEN <<"0">> ELSE <<>>

Abs(n) == IF n < 0 THEN -n ELSE n

(* The parts of a number: blanks, sign, prefix, zeros, digits, blanks.  The *)
(* zeros are those of the precision, or fill the field.                    *)
IsNumber(text) ==
  \E b, z, e \in 0 .. Len(text) :
    LET front  == Of(" ", b) \o CSign \o CPrefix \o Of("0", z)
        digits == SubSeq(text, Len(front) + 1, Len(text) - e)
        fill   == Abs(CWidth) - Len(CSign \o CPrefix)
    IN  /\ text = front \o digits \o Of(" ", e)
        /\ IsNumeral(digits, Abs(CValue))
        /\ LET zeros == Max({0, IF HasPrec THEN CPrec - Len(digits)
                                ELSE IF "0" \in CFlags \ {"-"} /\ "-" \notin CFlags
                                THEN fill - Len(digits) ELSE 0})
               blanks == Max({0, fill - zeros - Len(digits)})
           IN  /\ z = zeros
               /\ b = IF "-" \in CFlags THEN 0 ELSE blanks
               /\ e = IF "-" \in CFlags THEN blanks ELSE 0

(* Where this printf() is known to differ: "0" with a precision, "#" or no  *)
(* digits with the value 0, "#" with octal zeros, a precision below 0 for   *)
(* a string.                                                               *)
Differs ==
  \/ Conv \in {"d", "u", "x", "X", "o"} /\
       \/ HasPrec /\ "0" \in CFlags
       \/ CValue = 0 /\ ("#" \in CFlags \/ (HasPrec /\ CPrec = 0))
       \/ Conv = "o" /\ "#" \in CFlags /\ HasPrec
  \/ Conv = "s" /\ PrecStar /\ CPrec < 0

IsText(text) ==
  CASE Conv \in {"d", "u", "x", "X", "o"} -> IsNumber(text)
    [] Conv = "c" -> text = Padded(<<Val>>, Abs(CWidth), CFlags)
    [] Conv = "s" -> text = Padded(SubSeq(Val, 1, IF HasPrec THEN Min({CPrec, Len(Val)}) ELSE Len(Val)),
                                   Abs(CWidth), CFlags)
    [] Conv = "n" -> text = <<>> /\ Val = 0
    [] Conv = "%" -> text = <<"%">>
    [] OTHER      -> TRUE

Done == at = Len(fmt) + 1

(* The text of a conversion is the one that C gives it, and the arguments   *)
(* are taken in the types and the order that C gives them, for every mix of *)
(* flags, width, precision and length: number() counts the room that is    *)
(* left down in five places.                                               *)
TextAsInC ==
  Done /\ ~Differs =>
    /\ [k \in DOMAIN used |-> used[k].type] = Types
    /\ Len(out) >= Len(tail) /\ IsText(SubSeq(out, 1, Len(out) - Len(tail)))
    /\ SubSeq(out, Len(out) - Len(tail) + 1, Len(out)) = tail
=============================================================================
