------------------------------ MODULE PathSearch ------------------------------
(***************************************************************************)
(* How search paths are read: get_env_value() of display_auxv.c, strdup()  *)
(* of utility.c, strtok() of libc/string.c with its one static position,   *)
(* concatenate() and test() of dependency.c, byte by byte where a string   *)
(* is cut in place.  First LD_PRELOAD is cut where it is in the            *)
(* environment, then each library is looked for in the directories of its  *)
(* DT_RPATHs, of LD_LIBRARY_PATH, and of the paths behind it.              *)
(***************************************************************************)
EXTENDS Integers, Sequences, SequencesExt, FiniteSetsExt

CONSTANTS
  Char,                    \* the characters of strings
  Envs,                    \* environments: sequences of strings
  PRELOAD, LIBRARY_PATH,   \* the names of the two variables
  Before, After,           \* the paths searched before and behind LD_LIBRARY_PATH
  Libs,                    \* the libraries, in the order they are looked for
  Existing,                \* sets of file names that open() succeeds for
  USABLE,                  \* bytes in the smallest block of malloc(): 24
  Garbage,                 \* what such a block may hold, and NULs behind it
  HEAD,                    \* bytes in the head of the chunk behind a block: 8
  Heads,                   \* what it may hold
  Null

NUL    == "NUL"
Delims == {":", ";", " "}

ASSUME PathAssumption ==
  /\ NUL \notin Char /\ Null \notin Nat /\ Null \notin Seq(Char)
  /\ Envs \subseteq Seq(Seq(Char))
  /\ PRELOAD \in Seq(Char) /\ LIBRARY_PATH \in Seq(Char)
  /\ ~IsPrefix(PRELOAD, LIBRARY_PATH) /\ ~IsPrefix(LIBRARY_PATH, PRELOAD)
  /\ Before \in Seq(Seq(Char)) /\ After \in Seq(Seq(Char))
  /\ Libs \in Seq(Seq(Char)) /\ Libs # <<>>
  /\ USABLE \in Nat /\ Garbage \subseteq Seq(Char \cup {NUL})
  /\ \A g \in Garbage : Len(g) <= USABLE
  /\ HEAD \in Nat \ {0} /\ Heads \subseteq Seq(Char \cup {NUL})
  /\ \A h \in Heads : Len(h) = HEAD /\ h[HEAD] = NUL   \* no chunk has 2^56 bytes

VARIABLES
  given,    \* the environment as the kernel gave it, and
  env,      \* as it is now: what the program will see
  exists,   \* the files; read only
  pc,       \* "preload", "tokens", "next", "env", "try", "exit" or "done"
  i,        \* the entry of env that is compared
  buf,      \* the bytes that are being cut, from 0 on, with the head behind them
  tok,      \* where the token of this turn begins
  save,     \* string.c's pos: where the next one begins, or Null
  entries,  \* the entries of the table that LD_PRELOAD gave
  step,     \* the path that is searched
  found     \* the files found, one for each library so far

vars == <<given, env, exists, pc, i, buf, tok, save, entries, step, found>>

-----------------------------------------------------------------------------
(* Strings.  *)

Bytes(s) == [k \in 0 .. Len(s) |-> IF k < Len(s) THEN s[k + 1] ELSE NUL]

(* The first place from p on where the byte is in S; behind the buffer if  *)
(* there is none.                                                          *)
Stop(b, p, S) == Min({k \in DOMAIN b : k >= p /\ b[k] \in S} \cup {Cardinality(DOMAIN b)})

Text(b, p) == [k \in 1 .. Stop(b, p, {NUL}) - p |-> b[p + k - 1]]

(* strncmp() = 0 for the first n bytes, n > 0: it is the bytes where it    *)
(* stops that are compared.                                                *)
SameFirst(s, t, n) ==
  LET Differ(k) == Bytes(s)[k] = NUL \/ Bytes(t)[k] = NUL \/ Bytes(s)[k] # Bytes(t)[k]
      k == Min({k \in 0 .. n - 1 : Differ(k)} \cup {n - 1})
  IN  Bytes(s)[k] = Bytes(t)[k]

(* Mutant: as much room as the string is long.  *)
strdup_short(s, g) ==
  [k \in 0 .. Max({Len(s), USABLE}) - 1 |->
     IF k < Len(s) THEN s[k + 1] ELSE IF k >= Len(g) THEN NUL ELSE g[k + 1]]

(* calloc(len, 2) clears 2 * len bytes: none for the empty string, whose   *)
(* block holds what it held before.                                        *)
strdup(s, g) ==
  [k \in 0 .. Max({2 * Len(s), USABLE}) - 1 |->
     IF k < Len(s) THEN s[k + 1] ELSE IF k < 2 * Len(s) \/ k >= Len(g) THEN NUL ELSE g[k + 1]]

(* A block is in front of the head of the chunk behind it.  *)
Placed(b, h) ==
  LET n == Cardinality(DOMAIN b)
  IN  [k \in 0 .. n + HEAD - 1 |-> IF k < n THEN b[k] ELSE h[k - n + 1]]

(* Mutant: separators before a token are passed over.  *)
strtok_r_skip(b, p) ==
  LET stop == Stop(b, p, Delims \cup {NUL})
      next == Min({k \in DOMAIN b : k > stop /\ b[k] \notin Delims})
  IN  IF b[stop] = NUL THEN [buf |-> b, save |-> Null]
      ELSE [buf |-> [b EXCEPT ![stop] = NUL], save |-> next]

(* The token at p is ended; the one behind it may be empty.  *)
strtok_r(b, p) ==
  LET stop == Stop(b, p, Delims \cup {NUL})
  IN  IF b[stop] = NUL THEN [buf |-> b, save |-> Null]
      ELSE [buf |-> [b EXCEPT ![stop] = NUL], save |-> stop + 1]

(* The byte in front of a block of malloc(), the highest one of its head,   *)
(* is 0: of an empty directory concatenate() looks at that one.            *)
LastByte(s) == IF s = <<>> THEN NUL ELSE Last(s)

concatenate(path, name) ==
  path \o (IF LastByte(path) # "/" THEN <<"/">> ELSE <<>>) \o name

-----------------------------------------------------------------------------
(* The environment.  *)

(* get_env_value(): a prefix is enough.  *)
Named(entry, var) == Len(var) < Len(entry) /\ SameFirst(entry, var, Len(var))

(* What is behind the name and one more character.  *)
ValueOf(entry, var) == SubSeq(entry, Len(var) + 2, Len(entry))

Cut(b, p) ==
  /\ tok' = p
  /\ buf' = strtok_r(b, p).buf
  /\ save' = strtok_r(b, p).save

Init ==
  /\ given \in Envs
  /\ env = given
  /\ exists \in Existing
  /\ pc = "preload"
  /\ i = 1
  /\ buf = Bytes(<<>>)
  /\ tok = 0
  /\ save = Null
  /\ entries = <<>>
  /\ step = 1
  /\ found = <<>>

(* One entry is compared with the name.  *)
PassEntry(var) ==
  /\ i <= Len(env) /\ ~Named(env[i], var)
  /\ i' = i + 1
  /\ UNCHANGED <<given, env, exists, pc, buf, tok, save, entries, step, found>>

PreloadEntry == pc = "preload" /\ PassEntry(PRELOAD)

NoPreload ==
  /\ pc = "preload" /\ i > Len(env)
  /\ pc' = "next"
  /\ UNCHANGED <<given, env, exists, i, buf, tok, save, entries, step, found>>

(* The first token ends in the environment itself.  *)
CutPreload ==
  /\ pc = "preload" /\ i <= Len(env) /\ Named(env[i], PRELOAD)
  /\ LET value == ValueOf(env[i], PRELOAD)
     IN  /\ Cut(Bytes(value), 0)
         /\ env' = [env EXCEPT ![i] =
                      SubSeq(@, 1, Len(PRELOAD) + 1) \o Text(strtok_r(Bytes(value), 0).buf, 0)]
  /\ pc' = "tokens"
  /\ UNCHANGED <<given, exists, i, entries, step, found>>

(* One turn of the loop over the tokens of LD_PRELOAD.  *)
PreloadToken ==
  /\ pc = "tokens"
  /\ entries' = Append(entries, Text(buf, tok))
  /\ IF save = Null
     THEN pc' = "next" /\ UNCHANGED <<buf, tok, save>>
     ELSE Cut(buf, save) /\ UNCHANGED pc
  /\ UNCHANGED <<given, env, exists, i, step, found>>

-----------------------------------------------------------------------------
(* The search for a library.  *)

(* test(): a copy of the path is cut.  *)
StartPath(path) ==
  /\ \E g \in Garbage, h \in Heads : Cut(Placed(strdup(path, g), h), 0)
  /\ pc' = "try"
  /\ UNCHANGED env

(* Mutant: the path is cut where it is.  *)
TestVariable_InPlace(path) ==
  /\ Cut(Bytes(path), 0)
  /\ pc' = "try"
  /\ env' = [env EXCEPT ![i] = SubSeq(@, 1, Len(LIBRARY_PATH) + 1) \o Text(strtok_r(Bytes(path), 0).buf, 0)]

TestVariable(path) == StartPath(path)

NextPath ==
  /\ pc = "next"
  /\ CASE step <= Len(Before) -> StartPath(Before[step]) /\ UNCHANGED i
       [] step = Len(Before) + 1 ->
            pc' = "env" /\ i' = 1 /\ UNCHANGED <<env, buf, tok, save>>
       [] step \in Len(Before) + 2 .. Len(Before) + 1 + Len(After) ->
            StartPath(After[step - Len(Before) - 1]) /\ UNCHANGED i
       [] OTHER -> pc' = "exit" /\ UNCHANGED <<env, i, buf, tok, save>>
  /\ UNCHANGED <<given, exists, entries, step, found>>

LibraryPathEntry == pc = "env" /\ PassEntry(LIBRARY_PATH)

NoLibraryPath ==
  /\ pc = "env" /\ i > Len(env)
  /\ pc' = "next"
  /\ step' = step + 1
  /\ UNCHANGED <<given, env, exists, i, buf, tok, save, entries, found>>

FindLibraryPath ==
  /\ pc = "env" /\ i <= Len(env) /\ Named(env[i], LIBRARY_PATH)
  /\ TestVariable(ValueOf(env[i], LIBRARY_PATH))
  /\ UNCHANGED <<given, exists, i, entries, step, found>>

Candidate == concatenate(Text(buf, tok), Libs[Len(found) + 1])

(* A hit leaves strtok()'s position behind, in a copy that nobody frees.   *)
Hit ==
  /\ pc = "try" /\ Candidate \in exists
  /\ found' = Append(found, Candidate)
  /\ step' = 1
  /\ pc' = IF Len(found) + 1 = Len(Libs) THEN "done" ELSE "next"
  /\ UNCHANGED <<given, env, exists, i, buf, tok, save, entries>>

(* Mutant: "continue" before the next token.  *)
Miss_Again ==
  /\ pc = "try" /\ Candidate \notin exists
  /\ IF save = Null
     THEN step' = step + 1 /\ pc' = "next" /\ UNCHANGED <<buf, tok, save>>
     ELSE UNCHANGED <<buf, tok, save, step, pc>>
  /\ UNCHANGED <<given, env, exists, i, entries, found>>

Miss ==
  /\ pc = "try" /\ Candidate \notin exists
  /\ IF save = Null
     THEN step' = step + 1 /\ pc' = "next" /\ UNCHANGED <<buf, tok, save>>
     ELSE Cut(buf, save) /\ UNCHANGED <<step, pc>>
  /\ UNCHANGED <<given, env, exists, i, entries, found>>

Next ==
  \/ PreloadEntry \/ NoPreload \/ CutPreload \/ PreloadToken
  \/ NextPath \/ LibraryPathEntry \/ NoLibraryPath \/ FindLibraryPath
  \/ Hit \/ Miss

(* One thread: nothing keeps it from going on.  *)
Spec == Init /\ [][Next]_vars /\ WF_vars(Next)

-----------------------------------------------------------------------------
(* Properties *)

TypeOK ==
  /\ pc \in {"preload", "tokens", "next", "env", "try", "exit", "done"}
  /\ i \in 1 .. Len(env) + 1
  /\ tok \in DOMAIN buf
  /\ save \in DOMAIN buf \cup {Null}
  /\ step \in 1 .. Len(Before) + Len(After) + 2
  /\ Len(env) = Len(given) /\ Len(found) <= Len(Libs)

(* The path that test() has copied.  *)
Copied ==
  CASE step <= Len(Before) -> Before[step]
    [] step = Len(Before) + 1 -> ValueOf(env[i], LIBRARY_PATH)
    [] OTHER -> After[step - Len(Before) - 1]

(* From p on, the string ends before the last n bytes.  *)
EndsBefore(p, n) == \E k \in DOMAIN buf : k >= p /\ buf[k] = NUL /\ k + n \in DOMAIN buf

(* Every string that strlen(), strtok() and strcat() walk along ends in the *)
(* block it is in, so that strtok() writes to no head of malloc(): strdup() *)
(* copies no terminator and relies on calloc().  The copy of an empty path *)
(* is left out, whose block nothing clears: of that one, walks and cuts    *)
(* may go on into the head behind the block, which is where they end.      *)
Terminated ==
  /\ TypeOK
  /\ \A p \in {tok, save} \ {Null} :
       /\ pc \in {"tokens", "try"} => EndsBefore(p, 0)
       /\ pc = "try" /\ Copied # <<>> => EndsBefore(p, HEAD)

(* Where fields of s end: before it begins, at each separator, behind it.   *)
Bounds(s) == {k \in DOMAIN s : s[k] \in Delims} \cup {0, Len(s) + 1}

Rank(s, k) == Cardinality({m \in Bounds(s) : m < k})

(* The parts of s between separators, empty ones too.  *)
Fields(s) ==
  LET Bound(j) == CHOOSE k \in Bounds(s) : Rank(s, k) = j
  IN  [j \in 1 .. Cardinality(Bounds(s)) - 1 |-> SubSeq(s, Bound(j - 1) + 1, Bound(j) - 1)]

(* getenv(): the value of the entry "var=value".  *)
Holders(var) == {k \in DOMAIN given : IsPrefix(var \o <<"=">>, given[k])}

Getenv(var) == IF Holders(var) = {} THEN Null ELSE ValueOf(given[Min(Holders(var))], var)

(* No name of another variable begins with var.  *)
Unmistakable(var) ==
  \A k \in DOMAIN given :
    IsStrictPrefix(var, given[k]) => k \in Holders(var)

(* LD_PRELOAD gives one entry for each of its fields, in order.            *)
PreloadIsFields ==
  pc \notin {"preload", "tokens"} /\ Unmistakable(PRELOAD) =>
    entries = IF Getenv(PRELOAD) = Null THEN <<>> ELSE Fields(Getenv(PRELOAD))

(* The paths that are searched; Null is one without a field.  *)
Paths == Before \o <<Getenv(LIBRARY_PATH)>> \o After

(* A place to look: a field of a path.  They are searched in this order.  *)
Places ==
  UNION {{<<k, j>> : j \in DOMAIN Fields(Paths[k])} : k \in {n \in DOMAIN Paths : Paths[n] # Null}}

Precedes(p, q) == p[1] < q[1] \/ (p[1] = q[1] /\ p[2] < q[2])

(* The file to try there: an empty field is the root directory.           *)
File(p, name) ==
  LET dir == Fields(Paths[p[1]])[p[2]]
  IN  IF dir = <<>> \/ Last(dir) # "/" THEN dir \o <<"/">> \o name ELSE dir \o name

(* Each library is the first existing file of its paths in order, and the   *)
(* process only gives up when there is none (Hits of Dependency): whatever *)
(* an earlier search or LD_PRELOAD left in strtok()'s position and in the  *)
(* environment.  Not when a path is empty, which is copied into a block    *)
(* that nothing clears.                                                    *)
FirstHitWins ==
  Unmistakable(LIBRARY_PATH) /\ (\A k \in DOMAIN Paths : Paths[k] # <<>>) =>
    /\ \A n \in DOMAIN found : \E p \in Places :
         /\ found[n] = File(p, Libs[n]) /\ found[n] \in exists
         /\ \A q \in Places : Precedes(q, p) => File(q, Libs[n]) \notin exists
    /\ pc = "exit" => \A p \in Places : File(p, Libs[Len(found) + 1]) \notin exists

(* The environment reaches the program as it was, but for an entry with     *)
(* LD_PRELOAD's name, which ends at the first separator of its value.      *)
EnvironmentKept ==
  \A k \in DOMAIN env :
    \/ env[k] = given[k]
    \/ /\ Named(given[k], PRELOAD)
       /\ env[k] = SubSeq(given[k], 1, Len(PRELOAD) + 1) \o Fields(ValueOf(given[k], PRELOAD))[1]

(* The search ends, with separators at either end of a path or in a row.    *)
SearchEnds == <>(pc \in {"done", "exit"})
=============================================================================
