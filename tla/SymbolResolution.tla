--------------------------- MODULE SymbolResolution ---------------------------
(***************************************************************************)
(* ldso/symbol_resolution.c: which object of a list of link_maps a symbol  *)
(* is found in.                                                            *)
(*                                                                         *)
(* An object is described by what its file says: whether it can be opened  *)
(* (the vdso has no file), whether it has DT_GNU_HASH and DT_HASH, the     *)
(* symbols it defines, and those that bucket 0 of its DT_HASH chains.      *)
(***************************************************************************)
EXTENDS Naturals, Sequences

CONSTANT Symbol   \* names; "" is that of symbol 0

ASSUME SymbolAssumption == "" \in Symbol

SymbolTable == [opens   : BOOLEAN,
                zero    : BOOLEAN,                   \* l_addr is 0: the executable
                gnu     : BOOLEAN,
                sysv    : BOOLEAN,
                defs    : SUBSET (Symbol \ {""}),
                bucket0 : SUBSET (Symbol \ {""})]

(* gnu_hash_lookup(): get_section() exits when the file cannot be opened,    *)
(* the vdso's included, although get_elf_ehdr() knows its header in memory.  *)
(* A missing table is only noticed at l_addr 0; elsewhere the ELF header is  *)
(* taken for the table, and "% hashtab[2]" divides by its zero padding.      *)
GnuHashLookup(o, name) ==
  IF ~o.opens THEN "exit"
  ELSE IF ~o.gnu THEN IF o.zero THEN "none" ELSE "trap"
  ELSE IF name \in o.defs THEN "hit" ELSE "none"

(* hash_lookup(): elf_hash() is 0 for every name of ASCII characters, so     *)
(* only bucket 0 is searched; a symbol of it that is undefined gives l_addr, *)
(* which is a hit unless it is 0.  Without DT_HASH nothing is found: the     *)
(* table is NULL at l_addr 0 and the padding of the ELF header elsewhere.    *)
HashLookup(o, name) ==
  IF o.sysv /\ name \in o.bucket0 /\ (name \in o.defs \/ ~o.zero) THEN "hit" ELSE "none"

(* One object of link_map_lookup().  *)
Probe(o, name) ==
  IF GnuHashLookup(o, name) # "none" THEN GnuHashLookup(o, name) ELSE HashLookup(o, name)

Stops(objs, name) == {m \in DOMAIN objs : Probe(objs[m], name) # "none"}

(* link_map_lookup(map, name): the first object from map on that stops the   *)
(* search, and how; _exit(1) at the end of the list.                         *)
LinkMapLookup(objs, name) ==
  LET first == CHOOSE m \in Stops(objs, name) : \A l \in Stops(objs, name) : m <= l
  IN  IF Stops(objs, name) = {} THEN [res |-> "exit", at |-> 0]
      ELSE [res |-> Probe(objs[first], name), at |-> first]

(* What a loader owes its user: the first object of the list that defines    *)
(* the symbol, 0 if none does.                                               *)
FirstDefiner(objs, name) ==
  LET defs == {m \in DOMAIN objs : name \in objs[m].defs}
  IN  IF defs = {} THEN 0 ELSE CHOOSE m \in defs : \A l \in defs : m <= l

=============================================================================
