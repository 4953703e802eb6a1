# A verification of SGScript

TLA+ models of SGScript 1.4.1 (a scripting language and its engine in C),
model-checked with TLC, and theorems about them checked with TLAPS. Paths are
relative to the repository, whose C code is itself in a directory `src/` (so
`src/src/sgs_std.c` below is the file `src/sgs_std.c` of SGScript, and
`src/ext/sgspproc.c` its `ext/sgspproc.c`); the short names `sgs_std.c`,
`sgs_proc.c` and so on are files of `src/src/`, `docs` is
`src/docs/sgscript.docs.txt`.

1. The system and its parts
2. Modules, and how they correspond to the code
3. Runs: what is checked, with which bounds and fairness
4. What is proved
5. Disagreements between the code and what is said of it
6. What is not modelled

## 1. The system and its parts

A host program creates an *engine* (`sgs_ShCtx`, shared state) with one or more
*contexts* (`sgs_Context`, each with its variable stack and its stack frames).
Text goes through the tokenizer, the parser and the bytecode generator; the
virtual machine runs the bytecode, calls C functions of the standard libraries
and of the extensions, and manages memory. Everything of one engine runs in one
operating-system thread: there is no preemption, but there are many ways in which
code called in the middle of an operation changes what the operation is working
on.

| Component | State | Operations | What is hard | What makes it correct | Modelled |
|---|---|---|---|---|---|
| Cooperative threads and coroutines (`sgs_std.c` 2700-2940, `sgs_ctx.c` 380-560, 1100-1180, `sgs_proc.c` 3249-3400) | contexts, their lists of subthreads, counts, timers, end events, frames | `thread_create`, `subthread_create`, `co_create`, `co_resume`, `yield`, `abort`, `end_on`, `process_threads` | scripts run by the walk of a list edit that list; contexts are freed by counts while C code has pointers to them | counts exact, nothing dangling, each thread handled once per pass, timers exact, aborted code does not run, waiting threads get their turn | `Threads` |
| Object memory (`sgs_proc.c` 60-420, 4870-5010, 5600-5650, `sgs_ctx.c` 100-380) | objects and contexts with counts, colours, the list of contexts, the pool of freed blocks | assign, create, release, `sgs_GCExecute`, context destruction, `sgs_DestroyEngine` | destructors nested in destructors, in sweeps and in engine destruction; contexts freed by a sweep | counts exact, no use after free, reachable objects intact, cycles collected, everything freed at the end | `ObjectHeap` |
| Parallel threads (`ext/sgspproc.c`) | a thread record, a map of serialized items, a mutex, the worker's own engine | `has`, `get`, `set`, `set_if`, `start`, `wait`, `state`, the destructor | real concurrency, partly outside of the mutex | the map is linearizable, nothing is freed while used, waits end | `ParallelThreads` |
| Hash table (`sgs_util.c` 200-620) and its iterator (`sgs_std.c` 1176-1210) | index of pairs, items, removed marks, memory sizes | set, unset, get, rehash, reserve; iterate | displacement on insertion, moved items on removal, marks kept over rehashes | it is a dictionary, whatever the sequence of calls | `HashTable` |
| Calls (`sgs_proc.c` 341-455, 2640-2760, 3249-3300, `sgs_ctx.c` 490-560) | the variable stack, `stack_off`, the frames | call, return, metamethod, native call, yield, resume, abort | one C loop runs many frames; offsets under errors, missing and superfluous values, pausing | every activation has registers of its own; the stack is restored by every call | `Calls` |
| Bytecode generator and interpreter loop (`sgs_bcg.c`, `sgs_proc.c` 1520-3300) | registers, operands, jump lists, closures; the instruction pointer | compile; execute | register reuse, jumps patched later, deferred statements, closures, `sync` and `race` | the code does what the tree means | `Compiler`, `Interpreter` |
| Parser (`sgs_fnt.c`) | the token list, the tree | parse | precedence by splitting a flat list at weights | the tree is the one of the grammar; no token is lost | `Parser` |
| Tokenizer and number parsing (`sgs_tok.c`, `sgs_util.c` 650-870) | a cursor in the text, the token list | `TokenGen`, `TokenString`, `sgs_util_strtonum` | operators split from runs of characters, escapes, comments, bases and exponents | tokens are what was written, on the right line, and can be written back | `Tokenizer` |
| Bytecode files (`sgs_srlz.c` 2597-3110) | a buffer and a read position | write a function, load it, tell a file from a source | lengths read before what they measure, the other byte order | what is loaded is what was written; a damaged file is refused | `Bytecode` |
| Serializer (`sgs_srlz.c` 1-2596) | argument positions, a table of values, a buffer | serialize and unserialize in modes 1, 2 and 3 (SGSON), a whole engine at once | shared and cyclic references, positions of both sides in step, values that cannot be written | a round trip gives an equal graph, or an equal tree | `Serializer`, `SerializerText` |
| JSON (`ext/sgsjson.c`) | none | `json_encode`, `json_decode` | escapes, nesting, what is refused | a round trip gives an equal tree | `Json` |
| Dicts and maps (`sgs_std.c` 1020-1720, 3050-3470) | an object around a hash table | index reads and writes, constructors, conversions, clones, filters, `map_process`, listers, merges | script functions that change the object of the walk; keys converted in some operations | every function means what it means on a list of items | `Collections` |
| Regular expressions (`sgs_regex.c`) | instructions; the matcher's stacks of states, counts and captures | compile, match, replace | backtracking undoes what three stacks hold | the match is the one the pattern means | `Regex` |
| Arrays (`sgs_std.c` 40-1010, 1567-1628, 4703-4830, quicksort in `sgs_util.c`) | a block of cells, a size | all methods, sorting, searching, iterating | cells moved without their references; callbacks in the middle of a call; a sort with an inconsistent comparison | a sequence; counts follow the items; the sort stays inside | `Arrays` |
| String table, errors and `pcall`, other standard libraries, platform layer, sockets, profiler, debugger, other extensions, bindings | | | | | section 6 |

The components call one another in C. Threads, objects and calls share the
contexts, of which each model keeps the fields its operations use: `Calls` the
stack of one context, `Threads` the frames and lists of all, `ObjectHeap` the
references and counts. `PROJECT.json` lists every component with its status, and
under `hazards` the places where this code can go wrong in a way that a test would
hardly reach, with the properties that watch them.

## 2. Modules

| Module | Models | Abstract specification or reference | Proofs |
|---|---|---|---|
| `Threads` | cooperative threads and coroutines | | `ThreadsProofs`, `ThreadListsProofs`, `ThreadWalksProofs` |
| `ObjectHeap` | object memory | | `HeapReleaseProofs`, `ObjectHeapProofs` |
| `ParallelThreads` | `ppthread` objects | `SharedMap` | `ParallelThreadsProofs` |
| `HashTable` | `sgs_VHTable` and its iterator | `Dictionary` | `HashTableProofs` |
| `Calls` | the stack of a context | `Activations` | `CallsProofs` |
| `Collections` | dicts, maps and the library functions on them | lists of items | |
| `Values`, `Compiler`, `Bytecode`, `Interpreter` | scalars, `sgs_bcg.c`, bytecode files, `vm_exec` | `Meaning` | |
| `Tokenizer` | `sgs_tok.c`, numbers of `sgs_util.c` | the lexemes of a text | |
| `Syntax`, `Parser` | `sgs_fnt.c` | the grammar in `Syntax` | |
| `ValueGraph`, `Serializer` | what scripts make; `sgs_srlz.c`, mode 2 and whole engines | the graph itself | |
| `SerializerText`, `Json` | `sgs_srlz.c`, modes 1 and 3; `sgsjson.c` | the tree of values | |
| `Regex` | `sgs_regex.c` | `PatternMeaning` | |
| `Arrays` | the array type, `sgs_quicksort` | `ItemList` | |
| `MCThreads`, `MCObjectHeap`, `MCHashTable`, `MCCalls`, `MCInterpreter`, `MCSerializer`, `MCRegex`, `MCParser`, `MCArrays` | values and inputs for TLC | | |

Some modules have a constant `Ops`: what the scripts of an instance do. A use that
the code does not survive is left out of an instance by leaving it out of `Ops`;
the guard in the module that does so is commented, and section 5 says what fails
without it. A definition that is commented *Mutant of Xyz* is a plausible bug in
`Xyz`, kept next to it; it takes part in no specification, and shows that the
property named with it in `PROJECT.json` notices the bug.

### Threads

State: `ctx`, a record for each context (`sgs_Context`: whether it is allocated,
its frames, `parent`, `subthreads`, `st_next`, `refcount`, `st_timeout`,
`tm_accum`, whether `_E` holds the event), `signaled`, and `cstack`, the C call
stack. The C stack is state because the interesting interleavings are nested
calls: `sgs_ProcessSubthreads` calls a script, which calls `thread_create`, which
calls a script. Every action is one step of the innermost activation.

* `CreateSubthread` and `StartReturn` are `sgs_CreateSubthread` before and after
  the first run of the new thread, `CoCreate`, `CoResume`, `CoResumeAborted`,
  `ResumeReturn` the coroutine calls, `Abort`, `EndOn`, `TakeRef`, `DropRef`,
  `Yield`, `Return` what scripts do.
* `ProcessThreads`, `PassVisit`, `PassReturn`, `PassAbort`, `PassWait`,
  `PassResume`, `PassNoResume`, `PassResumed`, `PassRemove`, `PassAdvance` are
  the program points of `sgs_ProcessSubthreads`. Its cursor `pst` is the address
  of a link (`Cursor`), as in C: what it points at is read again when it is used.
* `Released` is `sgsCTX_Release` with `sgsCTX_FreeState` and
  `sgsSTD_ThreadsFree`: the subthreads of a freed context lose their parent and
  one reference, and are freed in turn (`Doomed`).
* `waited`, `asked`, `todo`, `seen` are auxiliary: no guard reads them.

A script is any sequence of the operations in `Ops`. The values that scripts hold
in variables are counted (`held`), not placed.

### ObjectHeap

State: objects (`obj`), contexts (`context`), the list of contexts (`states`), the
pool of freed blocks, the array interface object, the collector's colour and flag,
and `calls`, the C calls under way. A release whose count goes to zero pushes a
call, so a destructor is a sequence of steps which other destructors interrupt.

* Scripts: `Assign` (write a value to a place), `NewObject`, `Fork` (a coroutine),
  `Adopt` (a subthread), `Collect`, `Destroy` (the host).
* `DropField`, `FreeObject`, `Destructed`: `sgs_ObjDestroy`, or the destructor
  called by a sweep. `DropSlot`, `LeaveOwner`, `ContextCleared`, `DestroyContext`,
  `DestroyLast`, `LastDestroyed`: `sgsCTX_FreeState` and what it calls, and the end
  of the last context. `Mark`, `SweepDestruct`, `SweepFree`, `SweepEnds`:
  `sgsVM_VarGCMark` of all that is reachable, and the sweep in its two loops.
  `Round`, `ClearOne`, `ClearNext`, `Pick`, `Down`: `sgs_DestroyEngine`.
* `Search` and `Pooled` are the search by halves and the insertion of the pool,
  `Obtained` the allocation from it.

Deviations: the meta-object of an object is one of its references; the sweep's
list order is nondeterministic, which includes every order the list can have;
destructors of the standard types run no script. When a context leaves its owner,
`sgsSTD_ThreadsFree` would go on to free an owner whose count is not above zero
(`sgs_std.c:2903`): `LeaveOwner` has no such branch, and the lemma `OwnersAreHeld`
of `ObjectHeapProofs` shows that it is never taken.

### ParallelThreads and SharedMap

State: the thread record (`thr`, with its mutex), the data of each key (`items`),
whether the worker's engine exists, what the operating system knows of the worker
(`os`), and for each of the two threads where it is and its local variables
(`call`). Steps are split wherever the other thread could see the difference: the
old buffer is freed by `Replace` before `Store` writes the new one, `Prepend` reads
the list which `Link` writes, `Spawn` runs before `Assign`. `Wait` and `Join` are
`pprocCI_ppthread_I_wait`; `Release`, `Reap` and `DestroyThread` the destructor;
`Boot`, `CodeEnds`, `CloseEngine`, `LockEnd`, `SetDone`, `Leave` the worker.
The mutex, and the operating system's threads, are modelled from how the code uses
them.

`SharedMap` is what two threads may rely on: each operation happens at one moment
between its call and its return. The refinement mapping takes a `set` to have
happened when the old buffer is freed (`Contents`), since from then on the holder
of the mutex is committed to the new value.

### HashTable and Dictionary

State: `pairs` (the index), `items`, `var_mem`, `num_rem` and one iterator. `Add`,
`Overwrite` and `Unset` are `sgs_vht_set` and `sgs_vht_unset` in one step (nothing
runs in between). A call is an operator on the table as one value (`Added`,
`Overwritten`, `Dropped` on `Table`), so that `Collections` can make many of them in
one; their loops are the functions in `PairId`, `NextPrime`, `Rehash` (one pair of the
old index: `Replaced`) and `Insert` (one slot of the probe: `Visited`). `Hash` and
`Same` (what `equal_variables` finds equal) are constants, so that an instance can
choose collisions. `Dictionary` is the abstract table; it also
sees which call was made (`last`), so that a `set` that does nothing is not taken
for a stutter.

### Collections

A dict and a map are objects of two kinds around one table. Each library function is
an operator on such objects, written with the table's own operations and walking
over the table by its items, as the C code does: `Constructed` and `MakeFrom`, `Clone`,
`StringForm`, `get_keys` and `get_values`, `Filter`, `map_process`, `Merged`. A function
of the script that is called between two items is a record of what it does (`does`:
nothing, set, unset) and when.

### Calls and Activations

State: the variable stack of one context, `off` (`stack_off`), the frames, the
abort flag of the last call, and what the last run gave to the host. `VmCall` is
`vm_call` with `sgsVM_PushStackFrame`, `Leave` its end, `PostCall` is
`vm_postcall`, `ReturnN` and `Return1` the two return instructions, `Clean`,
`Transposed` and `Resized` the stack operations. `Yield`, `Resume`, `Abort` and
`AbortPaused` leave and enter chains of frames. `Activations` is what a script may
rely on: functions with registers of their own, and a `yield` that looks like a call
which returns what the resume was given. Deviation: the resume of an aborted context
leaves the context's values on its stack, where no later code reads them; `Resume`
drops them.

### Values, Compiler, Interpreter and Meaning

`Compiler` translates a syntax tree as `sgs_bcg.c` does: where each variable is
kept, which registers an expression uses, which jumps are patched when. `Interpreter`
runs the result, one action for the instructions of a kind. `Meaning` evaluates the
tree directly, except that a setter is given the value and the value is not stored besides:
there it says what the docs say. Native functions answer, and threads waited for end, as the
environment likes, so one program takes all its paths. `Bytecode` writes a function to
a file and loads it, and what `Interpreter` runs has been through both (`Compiled`).
`MCInterpreter` has the programs: expressions in every position, all loops with all ways out of them, and
programs for each other feature.

Left out of the programs, because the code does something else than any
meaning would say (section 5): literals that read the variable they are assigned to,
variable lists that mix local and global variables, `x++` on a variable of a function
that is not assigned elsewhere, an inline `if` whose branches are parenthesised
temporaries, numeric loops over a parameter or a captured index, globals of classes
without a value, recursion of closures with captured locals, and side effects in the
target of `op=`. Left out for size: reals, division, strings in arithmetic and in
order comparisons.

### Tokenizer

A text is a sequence of characters. `Gen` reads token after token (`ReadToken`): `SkipComment`,
identifiers, numbers, strings with their escapes, symbols and runs of operator
characters, which are tried as one operator, then split. Numbers have the digits of
their base, wrap at the width of a word, and a real is a pair of digits and an
exponent. `TokenString` writes tokens back, with its rule for spaces.

### Parser and Syntax

`Parser` has one operator for each function of `sgs_fnt.c`; `Level` and what it
uses are `level_exp`, which splits the flat list of an expression at the operator of
largest weight. `Syntax` has the reference: a grammar by levels of precedence, and
the tokens that a tree stands for.

### ValueGraph and Serializer

`ValueGraph` grows a graph of containers, meta-objects, closures with shared variables
and suspended threads with their stacks. In every state `Serializer` encodes each
object, and the whole engine, decodes the result, and the two graphs are compared:
equal up to the identity of objects, with the counts of threads exact. Deviations: the
interface object that every array has as its meta-object is left out, and `_G` is a
dict; a decoding that fails gives back the heap it began with, while the code leaves
the threads it has linked by then under their parents (`sgs_srlz.c:1439-1442`). No
property looks at the heap after a failure.

### SerializerText and Json

Mode 1 is a program for a stack machine, mode 3 and JSON are texts of lexemes, in which
a string knows which characters were written without an escape. None keeps the
identity of objects: what is decoded is compared with the tree below the object.
Which graphs a mode can say at all is `Sayable`.

### Regex and PatternMeaning

`Compile` is the compiler, one step for each token, with its joining of characters
and its shifted jumps; the actions are the instructions of the matcher with its stack
of states, its stack of iteration counts and its captures. `PatternMeaning` computes
from the tree of the pattern the list of matches in order of preference.

### Arrays and ItemList

State: the cells of the block, the size, the reference counts of the items, and the
call in progress when it calls back into the script: `sgs_quicksort` is a sequence of
steps (`Partition`, `Scan`, `Place`, `InsertItem` and so on), each of which
compares two items, and between which the comparison of the script may write to the
array. `ItemList` says the same of a plain sequence.

## 3. Runs

With two workers every run ends within four minutes.

| Run | Module | Distinct states | Checks |
|---|---|---|---|
| `threads` | `MCThreads` | 154,092 | `TypeOK`, `RefsExact`, `ListsMatchParents`, `NoDangling`, `OncePerPass`, `AbortedNeverRuns` |
| `threads_timers` | `MCThreads` | 62,993 | `TimersExact`, `EndOnStops`, `WaitEnds` |
| `heap` | `MCObjectHeap` | 235,846 | `RcExact`, `NoDangling`, `ReachableIntact`, `PoolSound`, `CollectsCycles`, `DestroyEnds` |
| `parallel` | `ParallelThreads` | 75,146 | `NoUseAfterFree`, `Linearizable`, `JoinReturns` |
| `hash` | `MCHashTable` | 30,057 | `TableSound`, `ReadsItems`, `Implements` |
| `calls` | `MCCalls` | 116,980 | `HeightKept`, `SuspendedCleanly`, `NativeToldOfAbort`, `Implements` |
| `language` | `MCInterpreter` | 69,360 | `SameMeaning`, `RegistersInside`, `Terminates` |
| `parse` | `MCParser` | 251,947 | `SameTree`, `KeepsTokens` |
| `serialize` | `MCSerializer` | 74,646 | `Recreates`, `Accepts`, `RestoresAll` |
| `regex` | `MCRegex` | 163,249 | `SameMatch`, `SameReplaced`, `MatchEnds` |
| `arrays` | `MCArrays` | 161,602 | `SortInside`, `Implements`, `CountsMatch`, `CallEnds` |
| `threads_self_reference` | `MCThreads` | | `CreatedThreadIsLive` is violated: section 5, Threads |

### Bounds

* `threads`: the root and three contexts, one script variable for each, five
  activations on the C stack (`MaxDepth`), accumulated time up to 3. Three contexts
  are what a list with a first, a middle and a last thread needs, and also a thread
  with a subthread next to another. Five activations hold the main script, a pass, a
  pass of a subthread and a script that creates or resumes another. Timers are left
  to the other run: timeouts are 0. The contexts are symmetric. (Two of the failures
  of section 5 need seven and ten activations; the theorems of section 4 hold for
  every depth.)
* `threads_timers`: two contexts, so that the liveness properties can be checked,
  and timeouts 0 and 2 with passes of 1: a thread waits for no pass, or for two.
  Scripts resume threads by hand between the passes. No symmetry here, which would
  not be sound for liveness.
* `heap`: two ordinary objects, the array interface and the globals, two contexts. `Stored`
  says what scripts store where (`Holds`): anything in one field of `a` and in the
  globals, a context in the other field of `a`, an ordinary object or a context in `b`.
  So there are cycles of one and of two, a chain of two, a cycle through a context, and
  garbage in a cycle that holds a thread, which only a sweep can free. The pool
  holds two blocks, of which two have the same size, one is smaller and one is too
  large for it.
* `parallel`: one object with its two threads, which is all that an object can have;
  two keys and two values, so that operations of the same and of different items meet.
* `hash`: four keys whose first slots collide in each of the index sizes 4, 5, 7
  and 11, four items, and the constant 16 of the growth rules scaled to 1 (`Slack`)
  so that growing and shrinking happen within reach. Displacement, reuse of a mark,
  shrinking and an index of 11 slots are all reached. `VIEW Unlabelled` leaves out
  the auxiliary variable `last`: two states that differ in it alone have the same
  successors. (So it is in `arrays`.) The library functions on dicts and maps are
  applied to the table of every state without an open iterator, as a dict and as a map,
  with all choices of which items a filter takes, and with script functions that
  set or unset each key at each call; one key stands for null, whose string is the
  string of another.
* `calls`: four calls in one run of the context, a depth limit of four frames, so that
  the call at the limit fails; scripts with and without `this`, with missing and
  superfluous arguments and results, a native function, `yield` and `abort`.
* `language`: programs that say one thing each; a conditional answers both ways, and
  `false` after four questions; loops of at most six rounds. `ShortConsts` is 12
  instead of 256, so that long constant operands are met. Each program is written to a
  file and loaded, and its file is also loaded in the other byte order, of which
  `ReadsElsewhere` says all but the integers among the constants and the size in the
  variable information (the code does not convert those); the files of
  declaration trees, which hold every kind of field, are also cut at each byte.
  The setters of the programs store the value in the property itself too, so that it does
  not matter that the interpreter stores it once more; programs whose setters store it
  elsewhere (`SetterPrograms`) are left out, since `SameMeaning` fails for them (section 5).
* `parse`: expressions of four pieces (an operand, a bracket, an operator with its
  operand), and twenty programs with every statement, each also with one token
  removed, inserted or replaced (`MaxEdits`). Texts of two lexemes out of thirty, with
  each kind of blank and comment between them, and the programs' own texts;
  identifiers of at most 12 characters (`IdentLimit`, 255 in the code) and integers of
  16 bits (`WordSize`).
* `serialize`: graphs of at most five items over four objects, two captured variables
  and three threads, with a C function, a pointer, and strings that text must escape: enough for sharing, for cycles through each kind of value and for
  a thread with a parent and a subthread.
* `regex`: all patterns of up to four tokens and 36 longer ones, all texts of up to
  three letters.
* `arrays`: up to three items, and longer arrays that are only sorted; insertion sort
  from partitions of one or two items on instead of the build's constant. The host's
  `sgs_ArrayRemove` is called for the first item only: with `"remove_all"` in `Calls`,
  which also calls it for all, `Implements` fails (section 5).

Where a run says `CHECK_DEADLOCK FALSE` there is a last state: the engine is destroyed,
a program, match or sort has ended, or a graph or text is as large as the bound allows.

### Fairness

* `Threads!FairSpec`: the C code keeps running (weak fairness of `Continue`); a
  script in control yields or returns some time (strong fairness for each context,
  as control leaves and comes back); the main script calls `process_threads` again
  and again, as every host's main loop does. Nothing is assumed of the other
  operations of scripts. `EndOnStops` and `WaitEnds` need all three: a script that
  loops for ever stops the whole engine, by design of cooperative threads.
* `ObjectHeap!FairSpec`: a C call that is under way continues.
* `ParallelThreads!FairSpec`: the operating system schedules both threads, and the
  worker's code ends. Without the last `wait` may rightly wait for ever.
* `Interpreter!Spec`, `Regex!Spec` (weak fairness of `Next`) and `Arrays!Spec` (of
  `Step`, the steps of a call in progress): `vm_exec`, `srx_MatchExt` and the loops of
  the array calls are loops without waiting; they go on while there is a next
  instruction or a next item.

### What the runs show

* `threads`: for scripts that do not do what section 5 describes, the reference
  counts of contexts are exactly their owners at every step of every nested call,
  the lists agree with the parents, no activation on the C stack holds a freed
  context, and the walk of the list handles each thread once, although scripts
  create, resume, abort and release threads of that list and of its parents'
  meanwhile.
* `threads_timers`: the timeout of a waiting thread is what it asked for less the
  time counted since, however often it was resumed by hand; a thread whose end
  event is signaled is stopped, and one that waits is run.
* `heap`: the counts are exact in the middle of destructors, sweeps and engine
  destruction, and nothing is used after it is freed; a collection leaves what its
  marking found and no other object, and no thread that only garbage held; the engine
  can always be destroyed.
* `parallel`: the shared map is linearizable, and the thread record outlives the
  worker, provided that the owner waits before it lets go of the object.
* `hash`: any sequence of calls implements a dictionary; the library functions on dicts
  and maps do to the list of items what their names say, except where section 5 says
  what they do when a script function changes the object meanwhile.
* `calls`: whatever is called, yielded, resumed or aborted, each function finds its
  registers, and its caller finds the results in the right ones and nothing else
  changed.
* `language`: compiled programs do what their trees mean on all paths, within their
  registers and constants, and end; a bytecode file is loaded as what was written, one
  of the other byte order with the same instructions, names and counts, and a file that
  is cut is refused.
* `parse`: grouping by splitting at weights is grouping by precedence; no statement
  loses, moves or repeats a token; a text is read as the tokens that were meant, on
  their lines, and what is written back is read as the same tokens.
* `serialize`: except for the shapes named in section 5, what is decoded is the graph
  that was encoded, and exactly the graphs without unserializable parts are accepted;
  the text formats recreate the tree of values.
* `regex`: except for the repeats named in section 5, the first match, its groups and
  all replacements are those that the pattern means.
* `arrays`: whatever the callbacks write, the sort stays inside the array and its
  stack of ranges stays logarithmic; every call does to the sequence what it should,
  and every reference moves along.

## 4. What is proved

All theorems are for every value of the constants that the named assumptions of
the modules allow (numbers are numbers, the root is a context, sets of objects are
finite, ...); TLC evaluates those assumptions in the runs.

**Threads.** `ThreadsProofs`: `StackRests` (the C stack rests on the main script of
the root), `TypeCorrect` and `AbortIsRespected`, for all uses of the library.
`ThreadWalksProofs`: `EveryWalkIsSound` is the inductive invariant `LInv`, which is
the stack invariant and `Sound`, a conjunction of `Tree` (parents and lists form a
forest), `Counted` (references have owners), `Timed` (timeouts), `Runs` (what runs is
on the stack) and `Calls` (what each activation of a walk relies on: its cursor is a
link of its list, what it has not handled is behind the cursor). From it follow
`ListsHold`, `RefsHold`, `NothingDangles`, `EachThreadOnce` and `TimersHold`. None of
the properties is inductive alone: that a walk handles each thread once depends on
what all walks above it on the C stack can do to its list, for any depth. Assumed is
`Tame`: the scripts do none of `prepend`, `reenter`, `self_ref`, `drop_owner`. Each
of the four makes the properties fail in the code (section 5), so the assumption is
what the code needs, not what the proof needs.

**Object memory.** `ObjectHeapProofs` with the lemmas and half of the steps in
`HeapReleaseProofs`: `HeapInvariant` is the inductive invariant `HeapInv`: freed
blocks refer to nothing and nothing refers to them (`Clean`), counts are references
plus what calls under way hold (`Counted`), the list of contexts (`Enlisted`), which C
call can be under way on top of which (`Shape`), what each of them needs (`Fits`), that
during a sweep the marked objects refer to marked ones only (`Coloured`) and where
the rounds of `sgs_DestroyEngine` are (`TopFits`, `Gone`). From it: `HeapTypes`
(with `CountsNatural`: no count becomes negative), `ExactCounts`, `NothingDangles`,
`ReachableStays`, `PoolStaysSound`. `CyclesCollected` also needs `Owned`: a context
whose count is zero has been cleared and, while the engine is up, is about to be
destroyed (`HeldInvariant`). So at the end of a sweep, when no context is being
destroyed, every thread but the root's has references, and they are in what is left.
Threads that refer to one another in a cycle stay: every context is an entry point. `RcExact` is not inductive: a release that takes a count to zero
leaves a block without references that a destructor on the stack is about to free,
and a sweep frees blocks that still have references from other garbage. The proof
holds for everything the scripts of the model do, with any number of objects, contexts
and fields and any pool. The two recursive functions on the way, the closure under
references (`Reach`) and the binary search of the pool, are proved to be what they
should by well-founded descent (the least natural number for which a statement fails).

**Parallel threads.** `ParallelThreadsProofs`: `WorkerAccounted` (who holds the mutex,
what state the worker is in, whether the object may be freed), `MutualExclusion`,
`ObjectOutlivesWorker`, and `MapIsLinearizable`: the refinement of `SharedMap`, one
lemma for each step. Under `"release_early" \notin Ops`, without which TLC finds the
use after free.

**Calls.** `CallsProofs`: what `fstk_clean`, `stk_transpose`, `stk_resize_expected`
and the preparation of a frame return; `FramesAlwaysFit`: the frames divide the stack
without gaps (`Layout`), each waits for the one above in a call of its own kind
(`Chained`), only the innermost runs (`Innermost`), the abort flag is the last call's
(`Told`). From it `HeightAlwaysKept` and `NativeAlwaysTold` for all uses, and
`AlwaysSuspendedCleanly` if no metamethod yields, which the code does not enforce
(section 5).

**Hash table.** `HashTableProofs`: `TableIsIndexed` is the inductive invariant
`WellFormed`: the index holds each item once, at a slot that the probe of the item's
hash comes to before it comes to an empty one (`Indexes`), no key has two items, and
the marks are counted. `TableSound` alone is not inductive: it does not say where a
pair is, so it cannot tell that a lookup finds it. From `WellFormed`: `TableAlwaysSound`,
`IteratorReadsTable`, and `TableIsDictionary`, the refinement of `Dictionary`, one
lemma for each call (`OverwrittenIs`, `AddedIs`, `DroppedIs`). The argument of an
insertion is `Carrying`: between two slots of its probe, the index and the item that is
carried hold all items, and the carried item's own probe comes to the next slot; two
probes that meet go on together (`ReachedOn`), and one of them finds a free slot since
there are more steps than items (`SomeFree`, the pigeonhole principle). A removal finds
the pair of the item that it moves because a mark does not end a probe
(`ReachedKept`). A rehash is a table of odd size, which a probe visits in full:
`NextPrimeIs` shows that `sgs_next_prime` ends, by Euclid's argument. Two conditions are
assumed, and section 5 says what fails without each: `Plain`, a key is equal to
itself alone (not so a NaN, or two zeros, which are equal but hash differently), and
`Sturdy`, the first index has an odd number of slots or at most four, as those of
dicts and maps have. `IteratorReadsTable` needs that `"getdata"` is not in `Ops`.

**Only model-checked.** Liveness (`EndOnStops`, `WaitEnds`, `DestroyEnds`, `JoinReturns`,
`Terminates`, `MatchEnds`, `CallEnds`) is out of the prover's reach.
`Interpreter`, `Serializer`, `Regex`, `MCParser` and `Arrays` rest on recursive operators
over trees, patterns and graphs, about which the prover cannot reason. The refinement
of `Activations` by `Calls` is not proved, nor is the part of `ReadsItems` that is about
the library functions of `Collections` (`LibraryMeans`); its other part is
`IteratorReadsTable`.

## 5. Disagreements

Found while modelling. One has a run of its own, which is named where it is;
*(TLC)* marks what TLC shows when the named use is put into `Ops` or the named case
into the inputs; *(run)* what was confirmed by running the interpreter; the rest was
read from the code.

**Threads.** A thread that stores `_T` in a variable and clears it during its first
run is freed while it runs, since nothing counts it yet (`sgs_std.c:2779`; the run
`threads_self_reference`). A thread that calls `thread_create` puts the new thread in front of the list that is being
walked, under the address that the walk holds (`"prepend"`, `sgs_std.c:2867`, TLC). A
script run for the first time may free the owner of the thread it runs in
(`"drop_owner"`, `sgs_std.c:2779-2797`, TLC, 14 steps with seven activations). A script
below a walk that calls `process_threads` on the same list, after an abort, has a thread
freed under the outer walk (`"reenter"`, `sgs_std.c:2867`, TLC, 24 steps with ten
activations). A coroutine's `was_aborted` is false after its resume
(`sgs_proc.c:3290`, docs 752). Every context is an entry point of the collector, so
what an unreachable suspended coroutine refers to is never collected.

**Object memory.** A coroutine stored in the array interface is still alive when all
contexts are cleared, and the assertion that a round of `sgs_DestroyEngine` frees one
fails (TLC, `"extend_array"`).

**Parallel threads.** With `"release_early"` the destructor may see `DONE` before the
worker's last unlock, and free the mutex under it (TLC). With `"rejoin"` a thread is
joined twice, which is undefined in POSIX.

**Hash table.** A NaN key is not equal to itself, so a removal that has to move its
item does not find it, and an assertion fails (TLC). The probe moves by two slots, so
an index of even size is half usable: the seventeenth key with an even hash finds no
slot in one of 32 (`sgs_util.c:565`, TLC). An iterator read before its first advance
reads in front of the items (`"getdata"`, TLC). The keys 0.0 and -0.0 are equal but
have different hashes (`sgs_util.c:156,217`), so each is found or not by chance of the
slots.

**Calls.** A `yield` in a metamethod is accepted (`sgs_ctx.c:526-543`) although docs 4833
rules it out, and the value of the operator is then lost (`"yield_in_operator"`, TLC).
`o + 1` and `o < 1` with `__add` and `__compare` damage memory
(`sgs_proc.c:1973-1976`, 2143-2149, run). A recursive call of a closure replaces the
cells of the outer call (`sgs_proc.c:371`). `pcall` leaves a stale message context
(`sgs_std.c:2993`). The values of a `yield` stay on the stack of the coroutine.

**Bytecode generator.** An inline `if` in parentheses writes register 255
(`sgs_bcg.c:1376`), and its third branch is read into the register of the second
(1378, 1384). `t = [t, 2]` builds the array in `t` before it reads `t` (1687-1707), so it
contains itself. `x++` in a function, on a variable not assigned elsewhere, reads the
global and then uses a local without a register (1254). A list `(x, g)` of a local and a
global writes the global's value into `x`. Numeric loops over a parameter shift the
later parameters (229-248). `defer return;` recurses without end (1112); `return x`
returns what a deferred statement made of `x` (2557-2588, docs 700). Globals of classes
without a value use a constant as a register (3088). `new f()`, where `f` is a closure,
does not call it. `sync` and `race` evaluate their arguments at every resume. Setters:
`__set_x` is called *and* the value is stored, so that `__get_x` is not called later
(`sgs_std.c:2496-2528`, docs 4742; the programs `SetterPrograms`, TLC).

**Parser.** `thread;`, `x = thread;` and `new;` read through a null pointer
(`sgs_fnt.c:392`, 676, run). `a ++ b`, `a @ b` and `1 ? 2` are accepted; `++!a` is, `++-a` is
not. `new o.f()` is refused, though docs 614 has it. Text after the braces of a multi-set
is dropped without a message. `f(a,)` is refused while `(a,)` is not. Keywords are
accepted as operands (`x = if`).

**Bytecode files.** A file of the other byte order is loaded, but `bc_read_var` does not turn
integers, reals and pointers round (2738-2765), and the size inside the variable
information stays foreign (2967-2983); `SameMeaning` claims nothing of these. The check of a string's length counts the four
bytes of the length itself (2664-2675), the header of a function is checked for 10 bytes
and takes 11 (2877, 2915). A load that fails after the constants leaks them (2990-3008).
(all `sgs_srlz.c`)

**Tokenizer.** `/*/` is a whole comment; a comment without an end is reported but is not an
error (run). Four or more operator characters in a row are an error even where they can
be separated (`=-++`), and the character behind them is lost. `2e3` without a sign is
read as the tokens 2.0 and 3. An octal escape above 255 makes two characters with a
shift by 4. `TokenString` does not know `??`, `??=` and `@`, writes strings without
quotes and `1 .x` as `1.x`; nothing calls it. Lines are 16 bits (the wrap is left out).

**Dicts and maps.** A read of a dict turns the key null into "null" and finds it
(`sgs_proc.c:1647-1677`), a write refuses null (`sgs_std.c:1158`), and `dict(null, 4)`
accepts it (run). `map_process` with a function that removes the key it is called for
stores that key again, at the end, processes it twice, and skips the item that was
moved into its place (`sgs_std.c:1709-1718`, run). A filter whose function changes the
number of items ends with "failed to advance iterator" and a partial result (run).

**Serializer.** In mode 1 the answer for an object inside another is overwritten by a later
success, so that what cannot be written is dropped silently. JSON: control characters
are written without an escape and refused when read; `{"a":}` is accepted; maps come
back as dicts. A captured variable reached from its own value is registered twice
(`sgs_srlz.c:379-389`), so that later positions are wrong; a closure with an
unserializable variable empties the argument stack too far; unserializing a suspended
thread replaces the cells of its function (`sgs_proc.c:353-375`); an object whose
meta-object answers `__setindex` loses its items; the meta-object of a closure is lost;
`sgs_UnserializeAll` swaps the counts of contexts with their contents
(`sgs_srlz.c:2582-2592`, against the comment in 1239). Dictionary keys `null`, `true`, `false`
are written bare in SGSON and refused when read (1700-1722, 2377-2408).

**Regular expressions.** In `a|aa` the jump over the alternative skips the end of the
match, and an assertion fails (`sgs_regex.c:1218`). Repeats in repeats, and alternatives
in repeated groups, take the wrong count. In `ab(c)*` the repeat starts one instruction
late. `(a*)*` does not end. Unclosed groups are accepted. A replacement drops a character
after an empty match; `^` matches at every restart. (all run)

**Arrays.** Writing `first` and `last` leaks the old item (`sgs_std.c:670-706`; the excess
that `CountsMatch` allows). A comparison or callback that resizes the array is followed
by a use after free (`sgs_std.c:367`, 1585-1606, run); the model's callbacks write items
but do not resize. `find` with a negative start reads in front of the block;
`random` of an empty array divides by zero; `sgs_ArrayRemove` of all skips the item after
a removed one (4822, docs 2893; `"remove_all"` in `Calls`, TLC). `ItemList` promises what
the docs say.

## 6. What is not modelled

Within the modules: pooled events, the engine's hooks, failing calls inside threads and
yields below a C function (`Threads`); strings, functions and closures as values, values
held by the host and the registry (`ObjectHeap`); hooks that run scripts under the
mutex and failures of thread creation (`ParallelThreads`); reals, division, bit
operations and strings in arithmetic (`Values`); limits on registers, constants and jumps
(`Compiler`); truncated and damaged data of modes 1 and 2, the hooks of host types
(`Serializer`); native object properties (`Interpreter`); line numbers beyond 16 bits and
letters outside ASCII (`Tokenizer`); events, dumps, arrays as arguments of merges
(`Collections`); callbacks that resize (`Arrays`).
The depth of the C stack is bounded by the machine and not by the code.

Not modelled: the string table; message handlers and `pcall`; the standard libraries
except arrays, dicts, maps, threads, serialization and regular expressions; memory
buffers and UTF-8; the platform layer, sockets, profiler, debug server, vector mathematics,
the bindings and the command-line tools. The next things worth modelling are `pcall` with
nested handlers on top of `Calls`, the string table on top of `Dictionary` (a string is
interned exactly while it is alive), and properties of native objects.
