-------------------------------- MODULE MCLibdl --------------------------------
(* An executable, ld.so, a library, the vdso or not, and two files to open. *)
EXTENDS Libdl, TLC

MCSymbol == {"", "f", "g", "h"}
MCFile == {"exe", "ld.so", "lib", "a", "b", "vdso", "none"}

Table(z, d) ==
  [opens |-> TRUE, zero |-> z, gnu |-> TRUE, sysv |-> FALSE, defs |-> d, bucket0 |-> {}]

NoTable == [Table(FALSE, {}) EXCEPT !.opens = FALSE, !.gnu = FALSE]

MCInfo ==
  [exe   |-> [exists |-> TRUE,  table |-> Table(TRUE, {}),     plt |-> <<"f", "g">>, dyn |-> <<>>, first |-> 20, span |-> 2],
   lib   |-> [exists |-> TRUE,  table |-> Table(FALSE, {"f"}), plt |-> <<>>,     dyn |-> <<>>, first |-> 0, span |-> 3],
   a     |-> [exists |-> TRUE,  table |-> Table(FALSE, {"g"}), plt |-> <<"f">>,  dyn |-> <<>>, first |-> 0, span |-> 3],
   b     |-> [exists |-> TRUE,  table |-> Table(FALSE, {"h"}), plt |-> <<>>,     dyn |-> <<"g">>, first |-> 0, span |-> 2],
   vdso  |-> [exists |-> FALSE, table |-> NoTable,             plt |-> <<>>,     dyn |-> <<>>, first |-> 0, span |-> 0],
   none  |-> [exists |-> FALSE, table |-> NoTable,             plt |-> <<>>,     dyn |-> <<>>, first |-> 0, span |-> 0]]
  @@ ("ld.so" :> [exists |-> FALSE, table |-> Table(FALSE, {}), plt |-> <<>>,    dyn |-> <<>>, first |-> 0, span |-> 6])

E0(n, a) == [name |-> n, addr |-> a]
Common == <<E0("exe", 0), E0("ld.so", 100)>>

MCStartups ==
  {Common, Common \o <<E0("lib", 30)>>, Common \o <<E0("vdso", 200)>>,
   Common \o <<E0("lib", 30), E0("vdso", 200)>>}

\* What startup leaves of an ordinary program.
MCStartupsUsual == {Common \o <<E0("lib", 30), E0("vdso", 200)>>}

F(b, n, g) == [bind |-> b, noload |-> n, global |-> g]

MCRequests ==
  ({"a", "b"} \X {F("lazy", FALSE, FALSE), F("now", FALSE, TRUE), F("lazy", TRUE, TRUE), F("none", FALSE, TRUE)})
  \union {<<"none", F("now", FALSE, FALSE)>>}

=============================================================================
