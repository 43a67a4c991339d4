# MyLDSO in TLA+

A verification development of the dynamic linker in `src/ldso` and of the C library in
`src/libc` that it is linked with: what the linker does between the moment the kernel starts
it and the moment the program ends, and what its allocator, string functions and `printf`
promise it, as TLA+ modules that TLC checks on small instances and, where a theorem says so,
TLAPS proves for every instance.
The modules are translated from the C source; `PROJECT.json` maps each definition to the
lines it stands for.

## 1. The system

`ld.so` is one thread. It runs once, before the program, and is re-entered by the program
through the PLT (`__reloc`) and through `libdl.h`. Its only data that lives on is the list
of `link_map`s, the mapped pages and the words that relocations patch.

| Part | State | Operations | Called by |
|---|---|---|---|
| Dependency search, `ldso/dependency.c` | the table of object names `res[]`, `nb_dep` | `build_dependency_table`, `fill_dependency`, `get_lib_absolute_path`, `test`, `concatenate`, `is_in` | `ldso_main`; `get_lib_absolute_path` also by `dlopen` |
| Loader, `ldso/loader.c` | the list of `link_map`s (`l_addr`, `l_ld`, `l_prev`, `l_next`), the pages of the process, `position`, `offset` | `build_link_map`, `load_program`, `allocate_map` | `ldso_main`, `dlopen` |
| Symbol resolution, `ldso/symbol_resolution.c` | none | `gnu_hash_lookup`, `hash_lookup`, `link_map_lookup` | relocations, `dlsym` |
| Relocations, `ldso/relocations.c`, `reloc.S` | the words of `.got` and `.got.plt` | `resolve_relocations`, `relocation_lazy`, `relocation_lookup`, `runtime_relocations`, `__reloc` | `ldso_main`, `dlopen`; the program's first calls |
| Library interface, `ldso/libdl.c` | the list and the pages | `dlopen`, `dlsym`, `dlclose`, `dlinfo`, `dladdr` | the program |
| Start, `ldso/ldso.c` | `envp`, `vdso`, `r_debug` | `ldso_main`, `handle_options`, `jmp_to_usercode` | the kernel |
| ELF access, `ldso/elf_manipulation.c` | none | `get_section`, `get_program_header`, ... | all of the above |
| malloc, `libc/malloc.c` | `_gm_` (bins, trees, `dv`, `top`, segments, accounts) and the words of the heap, `mparams` | `dlmalloc`, `dlcalloc`, `dlrealloc`, `dlmemalign`, `dlfree`, ... | all, and the program |
| Strings, `libc/string.c` | `pos`, the position of `strtok` | `strtok_r`, `strncmp`, `strcat`, ... | all |
| printf, `libc/printf.c` | none | `vsprintf`, `number` | all |
| System calls and start code, `libc/{stdio,unistd,libc_start_main}.c` | none | thin wrappers | all |
| `readelf/`, `ldd/` | caches of string tables | printing | a user |

Startup is a pipeline: environment and auxiliary vector → table of names → list of loaded
objects → relocated objects → jump to the program. After that the program's calls interleave
`dlopen`, `dlclose` and first calls through lazily bound slots in any order.

What is hard here is not concurrency, nor crashes: nothing is persisted and there is one
thread. It is

- *tables that are read while they grow* (`fill_dependency`), cyclic dependencies, an
  unchecked table size;
- *addresses that are guessed*, and mapped with `MAP_FIXED`: the next object is placed from
  the end of the file contents of the last, `dlopen` from the address of an earlier object;
- *several binders* (eager, `.rela.dyn`, first call, `dlopen`) that search from different
  places at different times and should agree;
- *long legal sequences* of `dlopen` and `dlclose` over a list that RTLD_LOCAL libraries are
  not in, although they point into it;
- *searches that end the process* with `_exit(1)`, a division by zero or a wild jump;
- *strings that are cut where they are*, through one static position, in the environment that
  the program gets, and blocks whose terminator is there because `calloc` cleared it;
- *an allocator* that keeps its truth three times (boundary tags, bins, accounts) while the
  kernel may refuse any `mmap`, `mremap` or `munmap`.

Properties that make each part correct: the table is closed, duplicate-free, in breadth-first
order and found in finitely many steps; loaded images stay intact, protected and listed;
every slot that can be used is bound to the first definition of the list or leads to the
binder; the list stays well formed and does not lead to closed libraries; a library is the
first file of its search path; blocks are disjoint, large enough, aligned, and none is lost.
`PROJECT.json` lists the hazards line by line, with the properties aimed at each.

## 2. Modules

```
Closure   <--implements--  Dependency  <-- MCDependency      Dependency_proofs --+
                           Loader      <-- MCLoader          Loader_proofs ------+
SymbolResolution <--+----  HashTables  <-- MCHashTables      HashTables_proofs --+
                    +----  Relocations <-- MCRelocations     Relocations_proofs -+--> LeastElement
                    |         '--implements--> Binding                           |
                    +----  Libdl       <-- MCLibdl           Libdl_proofs -------+
                           PathSearch  <-- MCPathSearch      PathSearch_proofs --+
                           ElfHash     <-- MCElfHash
                           Printf      <-- MCPrintf

Chunks <-- SysAlloc <-- Malloc <-- MCMalloc
                          '--implements--> Allocator
TreeBin <-- MCTreeBin      TreeBin_proofs --> LeastElement  (the set `trees` of Chunks)
```

### Dependency (abstract: Closure)

One action per step of the two nested loops: `Preload` (LD_PRELOAD tokens), `StartPass` (the
`do` of `build_dependency_table`), `OpenEntry` (an entry's headers, or `exit(1)`),
`ResolveNeeded` (one DT_NEEDED, through `LibPath` and `Added`), `EndEntry`, `Repeat`,
`Finish` (the vdso). `sys` is the file system and environment, chosen in `Init` and never
changed. Table entries are what `strcmp` compares, so two names of one file are two entries;
`Concat` is what `concatenate` returns. `NotFound` stands for the `_exit(1)` of
`get_lib_absolute_path`.

*Closure* says what any search strategy owes: discover one object at a time, each needed by
one discovered before, finish only when nothing is missing from the set, give up only when a
needed object cannot be had. `ImplementsClosure` is the refinement, fairness included.

`InterpreterOnce` holds of a system where nothing but the name "ld.so" leads to a copy of ld.so
(`NoAlias`): neither the program, nor LD_PRELOAD, nor a DT_NEEDED with another name is one of the
paths under which the search finds ld.so (`Copies`). Whoever needs "/lib/ld.so" by its path loads it
a second time, since names are compared as strings.

### Loader

`page` is the set of mapped pages with owner and writability, `byte` the bytes that hold file
contents. `MapObject` is `allocate_map` with MAP_FIXED (it takes pages away from whoever has
them), `LoadSegment` is `read` + `mprotect` of one PT_LOAD, `PassHeader` the other headers,
`FinishObject` and `LinkKernelObject` the linking. `ALIGN`, `MapSize` and `NextAddr` are the
code's arithmetic. `offset` is truncated modulo `INT_MOD` as the C `int` is; libraries at a
multiple of it make the code reuse a `link_map`, a state the model reaches and the properties
exclude by `NoWrap`. The kernel's part (`KernelPages`, `ReadLen`: a `read` stops at a page
that is not writable) is external.

`ImagesIntact` and `SegmentPermissions` only claim something of headers that `Fits`
describes: loadable segments in ascending order and page-disjoint, the header after them inside
the last pages, a .bss of less than three pages behind the contents. `Fits` is the layout that
`loader.c` silently relies on; the run contains headers on both sides of each of its
conditions, and `ExitsOnlyOnMisfit` says the process only stops for a layout outside of it.

### SymbolResolution

Lookups as operators on a sequence of objects. An object is what its file says: whether it
can be opened (the vdso cannot: `get_section` → `xopen` → `exit(1)`), its hash tables, its
definitions. `GnuHashLookup` has the test for a missing table after `l_addr` is added: the
test works for the executable, at 0, and a library's ELF header is taken for a table whose
`hashtab[2]` is 0, a division by zero ("trap"). `HashLookup` searches bucket 0 only, because
`elf_hash` clears its own result for every ASCII name. The next two modules justify both.

### HashTables (abstract: the operator Probe of SymbolResolution)

The search of one object, step by step: `Filter` (the tests of the tables and the bloom
filter), `FindBucket`, `Compare` (one iteration of the loop of `gnu_hash_lookup`),
`SysvBucket` and `SysvWalk` (`hash_lookup`). `n` is the symbol that `sym` points to, `v` the
value that `hashval` points to; the code moves them separately. `Bucket`, `HashVal`, `Word`
and `Chain` are the tables as linkers write them, external to this code. The loop does not
stop at the end bit of a chain and runs on to the end of `.dynsym`: more symbols are compared
than belong to the bucket, but none is found wrongly. Hashes are arbitrary functions of names.

### ElfHash

`elf_hash` one character at a time, in words of 16 bits with `&`, `^` and truncation.
`g = h` takes the whole word where the gABI takes its four highest bits, so `h &= ~g` leaves
0 behind every ASCII character; `char` is signed, and a byte above 127 may leave other bits,
until the next ASCII character. The width is a parameter: nothing in the argument depends on
it being 32, as long as a character is narrower than the word without its top nibble.

### Relocations (abstract: Binding)

The loop of `ldso_main` over the list (which leaves the last object out), the two relocation
sections of each object, one iteration of `relocation_lookup` per step with its separate
counters `i` and `rela`, then the program: `FirstCall` is the way through `__reloc` and
`runtime_relocations`, `WildCall` a call through a word nobody relocated.

*Binding* says what both lazy and eager binding owe: each place is given its definition (the
first in list order), at most once; with eager binding all called places are bound before the
program starts and none is bound or fails after; the process only stops for a place whose
symbol nothing defines. The refinement gives definitions to the places of a `Regular` program,
as linkers make it today: DT_GNU_HASH, a .got.plt, a .rela.plt of functions only, the vdso at the
end of the list. Of any other, in which a lookup may trap or exit for reasons that Binding does not
know, it only says that the program is refused or runs.

### Libdl

The list after startup, and `dlopen`, `dlclose`, `dlsym` and first calls as one action each,
since nothing interleaves with a call. `l_next`, `l_prev`, `l_addr` are the fields of the
`link_map`s, `mem` the pages and their owners, `slot` the PLT words. `DlsymWild` is a `dlsym`
on an image that is not there; a `dlsym` on one that is changes nothing. `_dlclose` unmaps
`p_vaddr` without `l_addr`, which `Unmapped` reproduces: harmless for libraries, fatal for the
handle of `dlopen(NULL)`.

`dlopen` loads six pages behind the object before the tail, whatever the size of that object.
`Room` is an address space in which that is enough: libraries take at most six pages, the pages
that the libraries to come may take behind one of the last two objects of startup (`Shelf`) hold no
object of startup, and neither do the low pages that `dlclose` unmaps. With a vdso behind the
last library, and the vdso's and ld.so's pages far away where the kernel put them, it says that
the last library of startup is small. The run has startups inside and outside of `Room`.

### PathSearch

What Dependency takes as given, `concatenate`, `test` and `get_env_value`: how a path becomes
directories. Strings are sequences of
one-character strings; where the code cuts one in place, `buf` is the block byte by byte, `tok`
the start of the token and `save` the static `pos` of `string.c`. `CutPreload` and `PreloadToken`
are the loop over LD_PRELOAD, which is cut in `env` itself; `PreloadEntry` and
`LibraryPathEntry` are the turns of `get_env_value`; `NextPath` chooses what
`get_lib_absolute_path` searches next; `Hit` and `Miss` are the turns of `test`. `strdup` gives a
block as `calloc(len, 2)` leaves it: cleared where it is used, except for the empty string, whose
block holds any member of `Garbage`, which may fill it without a NUL. Behind the block is the head of
the next chunk (`Placed`): `HEAD` bytes of `Heads`, of which the last is NUL, since no chunk has 2^56
bytes. `Before` and `After` are the paths searched before and
behind LD_LIBRARY_PATH (".", DT_RPATH; DT_RUNPATH, /lib/, /usr/lib/); that a match in "." makes
the caller use the bare name is in Dependency. Any path may be empty, as `DT_RPATH ""` is.

`Terminated` is about the missing terminator of `strdup`: what is cut or walked along ends inside of
its block, so that no `strtok` writes into a head of `malloc`. It leaves out the copy of an
empty path, which may hold no NUL at all: that one is walked, and cut, up to the head behind the
block, where it ends. The run has both.

`FirstHitWins` compares the search with a specification that knows no `strtok`: the places to look
(`Places`) are the fields of each path, a field is what lies between one separator and the next
(`Fields`, by the ranks of the separators), and a library is at the first place where its file
exists. It holds when no other variable's name begins with LD_LIBRARY_PATH
(`Unmistakable`) and no path of the search is empty; the run contains environments outside of both
conditions, in which the code does search something else. `EnvironmentKept` says where
LD_PRELOAD is cut: at the end of its first field. `PathAssumption` says of the two names
that neither is a prefix of the other: an entry with both would be cut by the one before it is
read by the other.

### Printf

One turn of `vsprintf`'s loop per step: `Literal` copies a character, `Convert` reads flags,
width, precision and length, takes its arguments and writes the text. Arguments come from small
sets, and `used` records the type each `va_arg` had. `number` is the five loops that count
`size` down. The widths of `long`, `int` and `short` are parameters.

`TextAsInC` states the standard's rules (field, sign, prefix, zeros, numeral) as a predicate on
the text, and compares the types of the arguments with those of the conversion that the format
was written for. `Differs` names where this `printf` departs from C: the flag 0 is not ignored
with a precision; `#` is not ignored, and no digits are not written, for the value 0; `#` adds a
zero that a precision has already given an octal number; a precision below 0 is taken for 0 by `%s`.

### Chunks, SysAlloc, Malloc (abstract: Allocator)

malloc.c as libc builds it (`include/malloc-internal.h`: no locks, no `sbrk`, so every byte comes
from `mmap`; no mspaces, no footers). The unit is a word. `gm` holds `head` (the words in which a
chunk's size and bits are) and `foot` (`prev_foot` of the chunk behind a free one), the small
bins as sequences, the trees as a set, `dv`, `top`, the segments in the order of their list, and
the accounts.

- *Chunks*: sizes and boundary tags, the bins, `init_top`, and `do_check_malloc_state()` with
  everything it calls, of which `HeapSound` is made.
- *SysAlloc*: what asks the kernel: `mmap_alloc`, `mmap_resize`, `sys_alloc` with its three places
  for new space, `add_segment`, `prepend_alloc`, `release_unused_segments`, `sys_trim`. `mmap`
  may fail or choose any free place, `munmap` and `mremap` may fail.
- *Malloc*: the public functions, each an action with a client that owns blocks (`live`).

The allocator starts uninitialized: `mparams` and the flags of `gm` are 0 until the first function
that calls `ensure_initialization` (`Params`, `ParamsOf`). `malloc_set_footprint_limit` does not, so
that as the first call it aligns with a granularity of 0 and sets no limit. `asked` is a history
variable: the limit the client asked for last, rounded up as the code means to, or none if it
asked before the initialization. `LimitHolds` compares it with the footprint, however that grows: a
direct mapping, a new segment, one that is appended or prepended to. It leaves out what the code does not
do: a limit of 0, one asked for before the initialization, and `mmap_resize` (`ResizesMapping`).

Each operator takes a heap and returns the set of heaps it may leave, so that a function that
calls others is their composition, failure included. Where the code aborts on a corrupted heap
(RTCHECK) the model has no branch: a client that gives back what it owns never gets there, which
`HeapSound` shows, since it includes `ok_address` and the tags that those tests compare.

*Allocator* says what a program relies on: a block is disjoint from all others, inside of mapped
pages, as large and aligned as asked, keeps its place until it is freed or moved, and nothing
else moves it. `KeepsPromise` is the refinement.

Sums wrap at `SIZE_T`, and requests of 1007 of 1024 words reach the wraparound tests. Near
MAX_REQUEST the padding in `mmap_resize` wraps to a size of 0, which `mremap` refuses. Left out:
contents of blocks, statistics (`mallinfo`, which counts the fenceposts of segments), and the
truncation to `unsigned int` in `compute_tree_index` (sizes from 2^40 on).

### TreeBin

Chunks takes the large bins for a set with a best fit. TreeBin has them node by node:
`insert_large_chunk`, `unlink_large_chunk`, `tmalloc_large` and `tmalloc_small`, with rings,
parents, the shifts of a size and the bit map. `TreesSound` is `do_check_treebin()` and
`bin_find()` for every chunk; `PicksBestFit` is the comment at `malloc.c:4428` for all requests,
large and small. Powers of two are a recursive function, and the width of a word, the number of bins
and TREEBIN_SHIFT are parameters (`WidthAssumption`: every bin begins at a size that a word can
hold). `PointerAssumption` says that the addresses of chunks, of bins and null differ.

## 3. Runs

A module's `TypeOK` is checked by itself or as the first conjunct of one of its properties
(`ListMirrorsTable`, `RelocatedBeforeUse`, `NoDanglingBinding`, `AsciiForgets`, `HeapSound`,
`TreesSound`, `Terminated`).

| Run | Question | Bounds |
|---|---|---|
| `dependency` | Is the table closed, ordered, duplicate-free, bounded, and found? | 3 libraries + ld.so; 6 graphs (chain, cycle, self-cycle, diamond, an absent library, one library needed by name and by path), 7 placements over cwd, RPATH, LD_LIBRARY_PATH, RUNPATH, `/lib/`, `/usr/lib/` or nowhere, LD_PRELOAD with a duplicate, vdso or not; MAX_DEP small enough to be reached |
| `loader` | Do guessed addresses keep every image, permission and link? | pages of 4 bytes, up to three libraries, 12 header layouts, `int` of 36, so that the third library may lie at a multiple of it |
| `relocations` | Do all binders bind to the first definition, leaving nothing unrelocated, and what makes a process crash or trap? | ordinary programs: 5 objects, 2 symbols, every distribution of definitions, COPY, RELATIVE, GLOB_DAT, unknown types, lazy and eager; and odd ones: every mixture of hash tables, .got.plt or not, vdso or not, a .rela.plt with types that ld.so does not know |
| `libdl` | Does the list survive any sequence of opens and closes? | 4 startup lists, 2 libraries to open, 8 kinds of call, 3 successful opens |
| `hash_tables` | Does the search of one object find what it has, inside its tables? | up to one undefined and three defined symbols of 5, in every order a linker can give them; two names of one hash, two that differ in the lowest bit; 1 or 3 buckets, 1 or 2 words of 4 bits; either table missing; the vdso |
| `elf_hash` | Is the hash of a name really 0? | names of up to 4 of 7 byte values, 16-bit words |
| `path_search` | Is a library the first file of its path, and what is left of the environment? | environments of up to 3 of 11 entries (separators in a row and at the ends, empty values, names that are prefixes), 2 libraries, 6 sets of files, 4 contents of a block that is not cleared (one without a NUL), 2 heads behind it |
| `printf` | Is the text the one of the C standard? | 11 mixes of flags, 4 widths, 4 precisions, 3 lengths, 13 conversions, with and without text behind; 9-bit `long`, 6-bit `int`, 3-bit `short`; arguments at the ends of their ranges |
| `malloc` | Do boundary tags, bins, accounts and pages agree, and is the promise kept? | 4 pages of 16 words, SIZE_T 1024, large chunks from 6 words, 2 blocks at a time, requests of 1, 23 and 1007 words and 7 from `calloc`, alignments, trims, a footprint limit of 20 words (two pages), set before the first allocation or later, a granularity of two pages that may become one, every failure of the kernel |
| `tree_bin` | Do the tries of the large bins find a best fit? | 5 chunks, 6 bins, 9 sizes at the bounds of the bins, requests of 4 to 63 |
| `libdl_global`, `malloc_aligned` | Documented behaviour that the code does not have | the smallest ordinary program; the client of `malloc` with `realloc` of aligned mapped blocks |

Three opens suffice for `libdl` because a close disturbs at most three link_maps: the closed
one, the one before and the one after. An address in `loader` depends only on the object before, so
that two libraries show it, and the third one wraps. The theorems of section 4 hold for every
number of either. Two symbols and two libraries give each lookup a hit before, at and after an
object. A file of `hash_tables` with three defined symbols in three buckets has a chain with a
successor, a chain that ends the table and an empty bucket; the theorem covers the rest.
Three characters make `elf_hash` carry into the top nibble of 16 bits, and a fourth follows.
The graphs of `dependency` include each way in which a name can be met again: twice
in one object, in two objects, in the object itself, in a cycle. Four pages hold two segments
with a gap that a third joins, or a segment and a block of its own; two blocks at a time leave
room for the states in which a chunk has free neighbours on both sides, since remainders, `dv`
and `top` are chunks too. Five chunks make a tree of two levels with a ring, and a leaf two
levels below the node it replaces. Every branch of Malloc and SysAlloc is taken but two: with
`MIN_LARGE` of 6 there is one smallbin, so none holds a larger chunk for a small request, and no
segment that is released is all of `dv`. A format of one conversion with text behind it is enough for
`printf`, whose only state between conversions is the position, the text and the arguments.

The parts are composed by what they assume of each other: Relocations and Libdl use the
operator `Probe` that HashTables implements, SymbolResolution's bucket 0 is ElfHash, the set of
large chunks in Malloc is TreeBin's, and Dependency's hits are those of PathSearch.

Deadlock is checked in `dependency` and `loader` only through liveness (`ImplementsClosure`,
whose abstract search is fair, and `Terminates`): a process that
has ended, or a program that makes no further call, is a legal end (`CHECK_DEADLOCK FALSE`).
The same holds of `path_search` and `printf`, which end when the search or the format does, and
of `malloc`, whose client may own all it can.

*Fairness.* `ld.so` is a thread that nothing blocks, so its own steps are weakly fair
(`WF_vars(Next)` in Dependency, Loader and PathSearch, `WF_vars(LdsoStep)` in Relocations). The program's
calls are not: it need never call anything. Libdl, Malloc and TreeBin have no fairness, and no
liveness property.

### Disagreements between code and documents

1. `RTLD_GLOBAL` makes symbols visible "as if the object were linked directly into the
   program" (`libdl.h:10-12`); the object is linked behind the vdso, where every lookup ends
   with `exit(1)`: run `libdl_global`.
2. `realloc` "Returns a pointer to a chunk of size n" (`malloc.c:874`). Of a block that
   `memalign` placed inside of a mapping of its own, `mmap_resize` (`malloc.c:3864`) returns one
   that is short by the offset: run `malloc_aligned`. In the run `malloc` the client does not
   resize such blocks (`MoveAligned` is FALSE).

Others were met while modelling. The models reproduce them; no run is spent on them:

- Closing a library opened without RTLD_GLOBAL resets `l_next` of the tail it was opened behind
  (`libdl.c:96`), and cuts off libraries opened with RTLD_GLOBAL since. `ClosedUnreachable` and
  `WalksEnd` hold all the same.
- "DT_GNU_HASH - DT_HASH" (`Readme.md:9`): a library with only DT_HASH leads to a division by
  zero, one of the causes in `StopHasCause`.
- "X86_64 relocations" (`Readme.md:12`): R_X86_64_RELATIVE is looked up by the name "" and
  ends the process, as a refusal of the abstract Binding.
- `elf_hash` is annotated with the address of the gABI's hash function
  (`symbol_resolution.c:90`), and is another function (`AsciiForgets`). Symbols that only
  DT_HASH has are found in bucket 0 alone.
- `RTLD_NOW` is "Immediate function call binding" (`libdl.h:6`); `libdl.c:42-43` handles it as
  RTLD_LAZY (`Stubs` of Libdl).
- The footprint limit (`malloc.c:1002-1007`): `mmap_resize` grows past it without a test,
  `malloc_set_footprint_limit(0)` sets none, and neither does any call before the allocator
  is initialized (`malloc.c:5352-5361`), where the granularity is still 0. `LimitHolds` leaves these
  three cases out.
- A segment whose end lies 16 bytes before a superseded `top` is never released
  (`release_unused_segments` looks at one chunk only, `malloc.c:4252-4259`).
- An empty path, of LD_LIBRARY_PATH, DT_RPATH or DT_RUNPATH, makes `test` search what an
  uninitialized block holds (`utility.c:10`). If 24 bytes without a NUL are left in it,
  `strlen` and `strtok` go on into the head of the next chunk, and `strtok` may cut that. A variable whose name begins with LD_LIBRARY_PATH is taken for it (`display_auxv.c:24`).

## 4. Proofs

TLAPS checks the theorems of eight modules; they assume only the named ASSUMEs of the modules
they extend, which TLC evaluates in the runs. TLC finds each inductive
invariant below true on the instance of its module's run.

*LeastElement*: non-empty sets of naturals have a least element, and bounded ones a greatest.
The proofs use it where one would use induction, through four lemmas: where a link leads to elements
of lower rank, the recursion along it defines a function (`RecursionExists`), and a loop along it
returns (`LoopExists`), at a state of its loop invariant where it does not go on (`LoopRule`); and a
set with 0, and with n + 1 for each n in it, holds all the naturals (`SetInduction`).

### Dependency

For every file system, graph and search path. `SizeAssumption` says that the strings a process
can hold are finitely many, as its address space is; without it `Resolvable` need not have a size
to compare with.

- `TypeCorrect` (`Spec => []TypeOK`) by `TypeInv`, which adds to TypeOK that the entries before
  the end are names the search can open (the vdso comes last), and that `table[i]` is there
  while it is scanned.
- `TableIsClosed` (ClosedWhenDone). ClosedWhenDone is not inductive: it says
  nothing before the end. `ClosureInv` adds what the scan has achieved so far: all the needs
  of the entries before `i`, and the first `k - 1` of entry `i`, are in the table. It stays true
  because the table only grows (`TableGrows`, `StaysIn`), and at `Finish`, when `i` is behind the
  last entry, it is ClosedWhenDone. That the table grows under the loop does not matter, since
  new entries are appended behind `i`.
- `TableIsBreadthFirst` (BreadthFirst) by `OrderInv`. An entry is explained by the first entry that
  needs it. Entries are appended for the entry `c` that is being read, so that whatever the table
  holds behind the roots is explained by an entry up to `c` (`Frontier`), and the new entry by
  `c` itself: had an earlier one needed it, it would be in the table already. The hard case is the
  pass that starts again from the first entry, where `c` falls back to 1: then nothing may be
  appended for an early entry any more, and nothing is, because the pass before has left a
  closed table (`AllClosed`), or the table holds only the roots.
- `TableSizeIsBounded` (TableFits) and `OneInterpreter` (InterpreterOnce) follow from OrderInv: what
  the search appends is new (`NoRepeat`), hence an injection into `Resolvable`, and is what some
  entry needs, hence no copy of ld.so beside entry 2.
- `SearchComputesClosure`: Init and every step of Dependency are an initial state and a step, or a
  stutter, of Closure. OrderInv is what the mapping needs: that an opened entry exists, that an
  appended one is a successor of one that was found, that nothing is missing at `Finish`.

### HashTables

For every file, hash function and size of the tables:

- `SearchIsProbe` (ImplementsProbe): what the search comes to is the outcome of
  SymbolResolution, and what it hits is the symbol. `SearchInv` adds where the name
  can still be: no symbol of the name is before the one that is compared (`CompareKeeps`), the walk of DT_HASH has left none behind
  (`VisitKeeps`), and `hash_lookup` is only reached when the file does not define the name in
  DT_GNU_HASH, because the filter passes every defined name (`FilterPasses`) and its bucket
  is not empty (`InItsBucket`, `BucketIsFirst`). So Relocations and Libdl, which use Probe,
  lose nothing by it.
- `StaysInTables` (ReadsInTable) from the same invariant.

### Loader

For every size of a page and of an `int`, and every table of objects:

- `ListIsTable` (ListMirrorsTable) by `ListInv`. While an object is being loaded its link_map is the
  last one and has its `l_prev`, but nothing leads to it. `Counts` bounds the number of link_maps:
  as many as entries, one less for each entry that took another's when `offset` was 0, so that
  a list with one for each entry (`NoWrap`) is one where this never happened.
- `GoodObjectsLoad` (ExitsOnlyOnMisfit) by `LoadInv`, which is about the object being loaded alone:
  its segments before header `j` hold what the file does, with their permission; those behind it
  are mapped and writable, so that `read` is not cut short. It is kept because no two segments share
  a page (`SegmentsApart`) and the mapping covers each of them (`MappingFacts`), which is where the
  four conditions of `Fits` are used.
- `ImagesStayIntact` (ImagesIntact) and `PermissionsStay` (SegmentPermissions) by `ImagesInv`, which
  relates every object loaded before to one address, `Limit`: the next load address, or that of
  the object being loaded. All images end at or before it, and it begins a page, so neither
  MAP_FIXED, `read` nor `mprotect` above it touches them. `NextAddr` keeps this up only when the .bss
  of an object reaches less than three pages behind its contents, and when `position` is the end
  of the highest segment, hence the last conjunct of `LoadingInv`.

### Relocations

For every program, lazy or eager. The invariant `RelocInv` relates the loop's three counters to
the slots (`Progress`): objects before `obj` are done, those behind untouched, and in the section
that is being looked up, `rela` has kept up with `i` unless it stands at a COPY, with everything
before it relocated and everything from it on untouched. `Codes` says which slots can hold a stub
or `l_addr + addend`.

- `NothingLeftBehind` (RelocatedBeforeUse): when the program runs, Progress says that all objects but
  the last are done.
- `StopsForACause` (StopHasCause). It is a conjunct of RelocInv; a lookup that traps does so at the
  first object that has no DT_GNU_HASH (`TrapCause`), a wild call by the contraposition of "done"
  (`WildCause`).
- `BindsAsPromised`: Init and every step are an initial state and a step, or a stutter, of Binding.
  In a regular program a lookup finds the first definition or reaches the vdso (`RegularLookup`);
  each iteration of `relocation_lookup` and each first call binds one place, fails for one, or is not
  seen. Progress is needed for "at most once" and for the start of an eager program, when no
  called place is left.

### Libdl

For every startup list, set of files, and number of opens:

- `StartupStaysLinked`, `NoEndlessWalk`, `ClosedIsGone` (StartupPrefix, WalksEnd,
  ClosedUnreachable). None is inductive alone. `ListInv` is: types and forward pointers always
  (`ListType`), and, while the process runs, `ListShape`: startup's link_maps are linked in order,
  every later one has an `l_prev` at or behind the end of startup's, and link_maps in use lead
  only to link_maps in use, which lead back. The delicate point is a closed RTLD_LOCAL
  library: it writes to a link_map it was not linked from, which is allowed because a link_map
  in use that leads to it would have to be its `l_prev`. Closing the executable's handle would
  break the invariant; the proof shows that its pages are unmapped, so the call does not return.
- `NoSlotDangles` (NoDanglingBinding, with the rest of TypeOK) by `BindInv`: slots of link_maps in use
  lead to the binder or to `Bindable`, startup's objects if the vdso is the last of them. The list
  from the head begins with startup's link_maps in order (`ListStartsWith`), and the vdso ends every
  search in it (`LookupFacts`), so the lookup of a first call never gets behind. Without a vdso it
  does, and a slot may be bound to a library that is closed later.
- `StartupStaysIntact` (StartupIntact) and `CrashesForACause` (CrashHasCause) by `PlaceInv`: a library
  is six pages times at most its number behind one of the last two objects of startup
  (`OnShelf`), whatever was opened and closed before it; hence its image is on a shelf, which `Room`
  keeps free. Objects of startup stay intact, and so does each opened library that no other
  shares its address with (`Alone`); a `dlsym` that faults had a library that is not alone, or that
  was never loaded.
- `TailIsLast`: the recursive walk to the end of the list is well defined
  (`WalkExists`), ends at a link_map without `l_next`, and never leaves the link_maps in use
  (`WalkStaysIn`). The list that a lookup searches is a recursion of the same kind (`ListExists`).

### PathSearch

For every environment, path, set of libraries and content of blocks that nothing clears. Strings
are over a set `Char` of which NUL is no member. `SearchInv` is `StringInv` (the token and the
position of `strtok` are in the block, with a NUL at or behind each) and `KeptInv`.

- `StringsEnd` (Terminated): `strtok_r` writes a NUL at a byte that is not behind the terminator
  and goes on at the next one, which is still followed by it (`TokenFacts`, `CutKeepsEnds`);
  the copy of a string that is not empty is terminated inside of its block, because `calloc`
  cleared twice its length (`CopyIs`, `CopyEnds`); that of an empty one at the latest in the head behind it.
  `BlockInv` keeps the terminator of the block in front of the head while the copy is cut, and adds that
  LD_LIBRARY_PATH's turn is the one behind `Before`, so that it is known which path was copied.
- `OnlyPreloadIsCut` (EnvironmentKept): the loop that finds LD_PRELOAD stops at the first entry with
  its name, and what the first `strtok` leaves of the entry is the name and the first field of the
  value (`CutEntry`). Later cuts are of copies, or behind that field.
- `PreloadIsRead` (PreloadIsFields) by `PreloadInv`: the token is the field that begins at `tok`
  (`TokenIs`), as many entries were made as separators lie before it (`FieldsRead`), and what is
  behind `strtok`'s position is still what the string holds there (`Holds`), or there is none.
  `TokenCut` says so of one call of `strtok_r`; `FieldAt` gives a separator's field its number.
  That `get_env_value`, which tests for a prefix with `strncmp`, and `getenv` find the same
  entry is `NamedFacts` and `GetenvFacts`.
- `FirstFileIsFound` (FirstHitWins) by `SearchedInv`: the library is at none of the places of the paths
  before `step`, nor of the fields before the token in the path that is searched. It needs of LD_PRELOAD's cut
  that the entry it shortened still begins with that name, so that it is not taken for the other
  variable, and that LD_LIBRARY_PATH's entry is as it was given (`LibraryPathKept`).

### TreeBin

For every width of a word, number of bins, set of chunks and their sizes. Neither property is
inductive: a search finds its chunk only if each chunk is where its size leads, and no single
`insert_large_chunk` or `unlink_large_chunk` shows that. `Well` is

- `Typed` and `Indexed`: the record types; each node has the index of its size, and the bit map
  the bits of the bins that are not empty;
- `Rings`: `fd` and `bk` are inverse and lead to chunks of one size, and every set that is closed
  under `bk` holds a tree node, so that no ring is cut off;
- `Heads`: one tree node for each size;
- `Links`: parents and children point to each other, the root's parent is its bin;
- `Levels`: for some `lev`, the number of bits of a size that the place of a node leaves open, the child on
  side b of a node has one less, the same leading bits, and b for the next one.

`TreesStaySound` (TreesSound) is `WellIsSound`; `BestFitIsPicked` (PicksBestFit) is
`WellPicksBestFit`: along the path of the request, the deepest right subtree that was passed
holds the next larger sizes, and its leftmost path a least one (`LeftmostFinds`). Sizes grow with the
bins. Each of the code's loops is a recursion down a chain whose levels fall, which `LoopRule`
treats with a loop invariant. `InsertKeeps` has the three ends of an insertion: an empty bin, a free child,
a ring. `UnlinkedKeeps` has a removal: whatever its case (a chunk that is no tree node, one whose ring goes
on, a leaf, a node whose place is taken by the rightmost leaf below it, the root), it
is one chunk taken out of its ring and one node of the tree replaced by another or by none
(`Unlinked`, `Replaces`), and the cases only differ in who replaces it.

### Only model-checked

- Liveness (`Terminates`, `SearchEnds`, and the fairness half of ImplementsClosure and
  ImplementsBinding): out of TLAPS' reach.
- `AsciiForgets`: `&` and `^` are recursive operators of a module that theorems cannot use.
- `TextAsInC`: numerals are recursive functions of their values, and what a format's text is for
  every value is an induction over data.
- The allocator (`HeapSound`, `InuseIsOwned`, `FootprintIsMapped`, `LimitHolds`,
  `GrowsOnlyWhenFull`, `KeepsPromise`): not attempted. Its operators return sets of heaps and call
  each other several levels deep, so that an inductive invariant has to be carried through each of
  them, as a lemma of its own, before an action can be treated.

## 5. Not modelled

- *readelf and ldd*: one pass over the headers of a file that prints each of them. The two static
  caches of `string_table.c` are filled before they are read in the fixed order of `main`.
- *Printing the auxiliary vector and the environment* (`display_auxv.c` but for `get_env_value`).
- *Wrappers of system calls and start code* (`stdio.c`, `unistd.c`, `crt0.S`,
  `libc_start_main.c`): no state, no branch that another part depends on. `printf`'s buffer of
  1024 bytes is not bounded by the code; the length of names is abstracted.
- `dladdr`, `dlinfo`, LD_TRACE_LOADED_OBJECTS and `r_debug` read the state of the linker and do
  not change it. `malloc` never fails in the models of the linker, and the link_maps that
  `dlclose` does not free are not counted.
- *malloc*: what its configuration leaves out (locks, mspaces, footers, `sbrk`), statistics, the
  contents of blocks, and a client that writes outside of its blocks.

## 6. Plan

1. *Done*: Dependency, Loader, SymbolResolution, HashTables, ElfHash, Relocations, Libdl,
   PathSearch, Printf, Chunks, SysAlloc, Malloc, TreeBin, the abstract Closure, Binding and
   Allocator; the theorems of section 4.
2. *Proofs* for the allocator: the arithmetic of `request2size` and `granularity_align` for every
   width first, then `LimitHolds`, then the boundary tags of `HeapSound`, operator by operator.
3. *RelocStub*: the registers and the stack of `__reloc`, refining the FirstCall of Relocations.
4. *Startup*: Dependency, Loader and Relocations composed with the environment,
   LD_TRACE_LOADED_OBJECTS and `r_debug`, ending in an initial state of Libdl.
