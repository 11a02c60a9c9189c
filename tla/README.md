# Formal models of zsr

`zsr` collects figures about a Linux system (cpu, memory, disks, processes,
users, ...) and prints a report of them once, a number of times, or for ever.
It is one C program with one thread: `main` walks a list of registered *report
modules*, each of which collects records with a reader of the library `libzsr`
and turns them into text. These TLA+ modules model that program. TLC checks
them on small instances; the `*Proofs` modules hold theorems about them that
TLAPS checks for every value of their constants.

## Inventory of the system

| part | source | state it keeps | operations | what makes it correct |
|---|---|---|---|---|
| reporting loop | `zsr/tool_zsr.c` | `opt_count`, `is_loop`, `i` | register, parse, check, collect, print, free | the reports asked for are made, then the program ends; or it goes on for ever |
| option parsing | `zsr/tool_zsr.c:129-169` | `enable` of each module, `opt_count`, getopt's index | one step per option | what is enabled and asked for is what the command line says |
| module registry | `zsr/framework.c` | the list `MOD_LIST_HEAD` of `module_t` blocks | `register_mod_fileds`, walk, `FREE_MOD_LIST_HEAD` | nothing is used after it was freed |
| report modules | `zsr/module/mod_*.c` | `record_list`, the 1 MiB text buffer `record` | `collect_record`, `record_to_str`, `free_record_list` | what is printed is what was read; rates are against the round before; memory is accounted for |
| lists | `include/zsr/list.h` | `next`, `prev` of every node | 14 calls, traversal macros | lists stay doubly linked rings, each call does what its comment says |
| readers | `libzsr/*.c` | none but what the caller passes | read a source, append rows | rows show the entries they are made of; blocks and descriptors; behaviour when a source is missing |
| process statistics | `libzsr/proc.c` | none | scan `/proc`, compute rates | every process that stays has one row; a rate is of one process |
| cpu and io statistics | `libzsr/cpu.c`, `libzsr/io.c` | `NUM_OF_CPU` and the line buffer of `io.c` | compute rates from two samples | differences are sound at wrap-around, reset and interval 0 |
| helpers, log | `libzsr/common.c`, `libzsr/log.c` | `G_LOG_CONFIG` | `is_digit`, `print_log` | names are told from numbers; the log file keeps to its limit |

**Interactions.** Everything is a direct call. `main` calls the callbacks of
every registered module in every round, enabled or not (`tool_zsr.c:26-29`);
the callbacks call one reader each and, for cpu, io and proc, a computation on
the new records and on the last ones kept. All share the process's descriptors
and its heap, and that is where they affect one another: a descriptor that one
reader keeps is missing to the others.

**What is hard.** There are no threads. The difficulty is in long runs: what is
kept, lost or reused from one round to the next; sources that are missing or
empty in some rounds; descriptors that run out; a process exit deep inside one
reader; memory freed by walks over what they free; a system that goes on while
`/proc` is scanned and between the samples a rate is computed from; and the
option loop, which looks at `argv` behind `getopt_long`'s back.
`PROJECT.json` lists each hazard at its line with the properties that cover it.

## The modules

| module | role |
|---|---|
| `ReportLoop` | abstract: what the command line promises of a run |
| `ReportModules` | the fourteen report modules and what their readers promise, as data |
| `Reporter` | the program: `main`, the registry, the callbacks, heap and descriptors; implements `ReportLoop` |
| `Options` | `main`'s option loop with `getopt_long` under it |
| `Readers` | the readers from the inside: entries, rows, blocks, descriptors, messages; keeps the promises of `ReportModules` |
| `Logger`, `Uptime` | `log.c` and `set_uptime`, which `Readers` is built on |
| `Rates` | the cpu and io rates, against a kernel that goes on |
| `ProcStat` | `get_all_proc` against a running system, and `compute_proc_cpu_stat` |
| `ProcFiles` | `store_single_pid_info`: one process's files, read while it may end, and the splitting of its stat line |
| `ListSpec` | abstract: what the comments of `list.h` say of each call, on sequences |
| `ListHead` | `list.h`: pointer operations on `next` and `prev`; implements `ListSpec` |
| `MC...` | instances of the modules above for TLC |
| `ReporterProofs` | types, the loop, the refinement of `ReportLoop`, memory safety; then histories, baselines, the accounting of memory, what is printed, descriptors and aborts |
| `ListWalkProofs` | lemmas: walks along pointers, sequences of nodes, induction on sets of numbers |
| `ListHeadProofs` | the refinement of `ListSpec` and what follows from it (extends `ListWalkProofs`) |
| `OptionsProofs`, `ReadersProofs`, `RatesProofs`, `ProcStatProofs`, `ProcFilesProofs` | theorems about the module each is named for |

How they fit together: `Reporter` composes the loop, the registry and the
callbacks of the modules; its constant `Info` is the registry, a sequence of
descriptions taken from `ReportModules`. A description says of a reader how
many rows it may deliver, how many it may lose, whether it keeps its
descriptor, whether the process exits when its source cannot be opened, whether
it may crash, and whether it may link in rows it has freed; `Reporter` knows of
a reader no more than that. `Readers` models the readers themselves, and its
property `KeepsPromise` says that they stay within those descriptions. Only one
end of the process is not in them: an exit for want of a log file, which takes a
configuration of the log that zsr itself does not set (`log.c:12-13`);
`ExitHasCause` says when that happens. `Options` shows what `Reporter`'s single
action `ParseOptions` leaves behind. `ProcStat` and `Rates` look into the rows
that `Reporter` only counts. `Reporter` keeps each `record_list` as a sequence,
which is the view of `ListSpec`; `ListsAsSpecified` proves that `list.h` keeps
to it.

### Reporter

One action is one call. The walks over the modules are unrolled (`at` is the
module the walk has come to), because a process exit can fall between two
modules and because the clean-up frees what it walks over.

| action | code |
|---|---|
| `register_mod_fileds` | one registration of `load_modules` (`framework.c:51-77`) |
| `ParseOptions` | `tool_zsr.c:129-171`, reduced to what it leaves behind |
| `check_enable_module` | `tool_zsr.c:73-85` |
| `LoopHead` | the test and the decrement of `opt_count`, `++i` (`:174-183`) |
| `collect_record` | one module's callback with its reader; `AppendOne` (cpu), `AppendList` (io, proc), `Refill` (gateway, load_avg, mem, swap, time, uptime), `Replace` (dns, fs, ip, network, who) |
| `get_num_of_cpu` | the `exit(1)` of `cpu.c:95-98`, reached from io's reader |
| `reader_crash` | the readers that bring the process down: the passwd entry that is not there (`proc.c:121-125`), the node freed twice (`ip.c:51-54`) |
| `die_of_freed_row` | the process dies later of a freed node that ip's reader linked in (`ip.c:51-65`) |
| `print_mod_record` | `record_to_str` and the `printf` of one module |
| `free_record_list`, `FREE_MOD_LIST_HEAD` | the clean-up after a counted run |

A record's contents are the number of the round they were read in, and the
round its rates were computed against; that is what tells an old answer from a
new one. A block of memory is named by its module, its round and a number.
`answered` is a history of the environment that the program does not have, and
`damaged` one of the modules whose list holds a row that was freed before it was
linked in. What the program does with such a list is undefined: it may go on, or
die of it in any later step. The damage stays in that list, as no other block of
zsr's has the size of an `interface_t`.

The rows a source delivers, whether it can be opened, and the unparsable line
of `/proc/diskstats` are nondeterministic. A reader can fail because its source
is in `Unreadable` or because no descriptor is left.

### Options

The modules' own options (`--cpu`, ...) are not in `longopts`: `getopt_long`
returns `'?'` for them, and `main` reads `argv[optind - 1]` to find the name.
What stands there depends on `getopt_long`'s index, on the cluster of letters it
may be in the middle of, and on how it has moved the words behind the options.
So `scan` holds `argv` with `getopt_long`'s place in it (`optind`, `first` and
`last` of the skipped words, `next` of a cluster), `getopt_long` is an operator
on it (the C library's, modelled from how it is called; its parts are marked
external), and there is one action per case of the switch: `all`, `count`,
`delay`, `list`, `load`, `usage`, `unknown`, `end`. The properties are stated on
`given`, `argv` as it was before, read from left to right without an index; they
hold although `main` looks again, but for one kind of element, which `Overlooked`
describes: an unknown letter inside a cluster, as in `--cpu -xa`, is taken for
the module named just before and goes unnoticed.

The properties are operators of a line and a place in it (`Roles`, `Wanted`,
`Ends`, `LastNumber`), so that what a line asks for in front of a place can be
compared with what main has done there. `ReadsOn` orders the turns by
`getopt_long`'s index first and by the letters left of the element second.

### Readers, Logger, Uptime

`call` picks a reader and a source; `open`, `open_fails` and `close` take and
return the descriptor (`Closes`: io's reader does not); each other action is the
turn of a reader's loop for one entry.

| action | code |
|---|---|
| `Skip` | entries that make no row: `ip.c:24-26`, `network.c`, `dns.c`, `fs.c`, `who.c`, `proc.c` (`Takes` has the conditions) |
| `plain_row` | `get_network`, `get_dns`, `get_login_user` |
| `fs_row` | `read_fs_stat`: the names of the mount table, and the figures unless `statfs` fails (`NamesOf`: the names only) |
| `ip_row`, `ip_unnamed` | `get_ip_addr`, with the node that is freed and stays in hand |
| `read_cpu_stat`, `io_row`, `io_unknown` | `read_io_stat` |
| `read_cpu_stat`, `proc_row`, `proc_ended` | `get_all_proc` and `store_single_pid_info` |
| `route` | `get_gateway` |
| `read_uptime_stat` | `uptime.c`, with `set_uptime` of module `Uptime` |
| `get_num_of_cpu` | its failure, called by io's reader (`cpu.c:95-98`) |

A block is a number; `malloc` returns any block not allocated, the one just
freed too. `fields[b]` is the number of the entry block `b` was last filled
from, so that a row shows an entry, its names alone, zeros, or what `malloc`
left. Each message
goes through `_print_log` of `Logger`: dropped, printed, or written to the file,
which is emptied first at its limit; a file that cannot be opened ends the
process. `is_digit` keeps the code's pointer and its counter, which are not the
same thing.

### Rates

The kernel (`Tick`, `Falls`, `PlugCpu`, `Transfer`, `Detach`, `Attach`) steps
between any two reads. `collect_cpu` is `mod_cpu`'s callback with `read_cpu_stat`
and `compute_cpu_stat`; the io module's reader is one action per read, as time
passes between them: `get_num_of_cpu`, `open_diskstats`, `fgets`,
`get_cpu_time_in_jiffies`, `read_uptime_in_jiffies`, `sscanf`, and then
`compute_io_stat`. Differences are unsigned (`% W`). A rate is kept as the two
numbers it is the quotient of. `read`, `gen`, `smp`, `at` of a row and a record
are histories. A read that fails counts as one of the kernel's `faults`.

### ProcStat

The system (`Fork`, `Ends`, `Runs`, `Idles`) steps between any two reads of the
scan. The computation is one action, as the program does nothing else in the
meantime; its arrays, their reading beyond the end (`Garbage`) and the
zero-filled rest of the array of differences are kept. Differences are unsigned
(`% W`). A utilisation is kept as the two differences it is the quotient of.
`stayed` is a history of the environment.

### ProcFiles

What `ProcStat` takes as one step, the reading of a process's files, is here one
action per call: `fopen_stat`, `fgets_stat`, `readlink`, `fopen_status`,
`fgets_status`, `getpwuid`. Before any of them the process may end (`Ends`) and
its number be given to another (`Starts`); `lives` keeps them all, with the call
before which each began and ended, so that the properties can say who was there
when. A stat line is a sequence of pieces that know where they come from, the
name's words or a field, so that a value is told from another by its origin; a
name is the sequence of its words, as `strtok` takes a run of blanks for one.
`Line` and `Lives` are the kernel's. Of `status` only the lines the code looks
for are kept, and the file is read at once, as it fits the buffer of a stream.

### ListHead

`Memory` maps every node to its two pointers. The operators are the functions
of `list.h`, assignment by assignment, with the order of the reads kept where
an assignment changes what a later one reads; the actions call them with the
arguments the function's comment allows (an entry that is in no list to be
added, one that is in a list to be removed, and so on). `list_del` sets both
pointers of the entry to `NULL`.

## The runs

| run | question | instance | distinct states |
|---|---|---|---|
| `reporter_each` | does the program do its job when its sources fail, in any round? | cpu, fs, gateway, io, ip: every discipline, and the readers that exit, leak, crash and link in freed rows; none, three or all enabled; endless, 2 or 3 reports; 2 descriptors; 1 row | 294,643 |
| `options` | do command lines mean what they say? | 2 modules; command lines of up to 4 elements of 20 kinds | 477,471 |
| `readers` | do the readers keep the promises `Reporter` relies on? | every source of up to 3 entries; 2 calls; 2 descriptors; log to a file or not, limit 0 or 3 | 7,625,964 |
| `rates` | what is a rate computed from? | 2 disks, 1 or 2 processors, 2 rounds, 2 ticks, 1 I/O, 1 fault | 7,068,528 |
| `processes` | is the scan complete and which utilisations are right? | 3 process numbers, 2 scans, 1 tick | 1,682,557 |
| `process_files` | what is a row made of when its process ends while it is read, and when a name holds blanks? | 5 names, 3 users of whom one has no passwd entry, 2 processes with one number, descriptors or none | 261,690 |
| `list_head` | is `list.h` right? | 2 lists, 3 entries, symmetric | 6,860 |
| `count_honoured`, `only_last_kept`, `rate_of_one_process`, `tick_overflow`, `cpu_time_of_stat` | does the code do what its texts say? | one to three modules; as above | violated |

What each property of a run is about is said in the comment above it, with the
lines of the code. In short:

* `reporter_each`: `NoDanglingRecord` and `HeapAccountedFor` (no walk meets
  freed memory but in a list that ip damaged; what is allocated is reachable or
  lost in one of two known ways), `ReportShowsLastAnswer` (what is printed is the
  last answer there was), `BaselineIsPreviousRound` and `HistoryIsKept` (rates
  are against the round just before, also in modules that are not enabled, of
  which one selection of the instance leaves out cpu and io),
  `DescriptorsBoundReports` (a run exits only when its rounds have used up the
  descriptors), `ReportLoopSpec` (the refinement), `CountedRunEnds` and
  `EndlessRunGoesOn` (liveness).
* `options`: `EnabledAsNamed`, `LastNumberCounts`, `ListingIsOfOptionsBefore`
  (what is enabled, counted and listed is what the line says from left to right)
  and `ReadsOn` (each turn of the loop reads on, so it ends).
* `readers`: `KeepsPromise` (rows, blocks, descriptors, crashes and exits are
  those `ReportModules` describes), `ExitHasCause` and `CrashHasCause` (what
  brings the process down), `RowsShowTheirEntries`, `RowsAreAllocated`,
  `GatewayIsFirstDefault`, `LogIsBounded`, and the two functions against their
  definitions, `UptimeAddsUp` and `IsDigitTakesNumbers`.
* `rates`: `CpuRatedAgainstReading`, `SharesAddUp`, `IoRatedByOwnRow`,
  `IntervalIsElapsed`.
* `processes`: `ScanIsComplete`, `RatedWhenKnown`, `SamePlaceIsExact`.
* `process_files`: `UserIsOwnersOrRoot` (whose user and memory a row shows, whatever
  ended in between) and `StatIsOfOneProcess` (what it shows of stat is of the one
  process that had the number while that file was open).
* `list_head`: `DoublyLinked`, `WalksAgree`, `ListSpecHolds` (the refinement).

**Bounds, and why they are enough.** A round depends on earlier rounds only
through the last record of each list, the buffer and the descriptors: two
rounds show a first and a later round, three show that the baseline is the
last round and not the first, and that history is kept past its second entry.
In `reporter_each` a limit of 2 descriptors lasts for two reports and runs out in
the third round, in which cpu still adds to its history and io exits, so that
runs end by count and by exit; fs and gateway, ahead of io in a round, can
deliver rows for both reports, and ip, behind it, has no descriptor left in the
second. `MaxRounds` stops an endless run, which the liveness properties take
into account. `MaxRows` of 1 tells an answer from none and a row of the latest
round from an earlier one's. Command lines of 4 elements hold an option with its value, a word to be moved
behind, and an element on either side. Sources of 3 entries have a first, a
middle and a last one, which two addresses without a name around one with a
name take; two calls show what the first leaves to the second. In `rates` two
rounds give one difference, two ticks let time pass before and between the
reads of a row, one I/O tells a count that grew from one that did not, and one
fault is one thing going wrong at any point; `W` of 32
is more than any counter reaches, so that a difference that wrapped is told from
one that did not. In `ProcStat` three processes are
enough for one to move within the scan when another ends or starts; process 1
never ends, as in any system. In `ProcFiles` names of one to three words, with
a number among them or a blank in front, show each way a field is read;
two processes with one number make a row mixed of both. Three entries on a ring
give a first, a middle and a last one; two lists are what cut and splice take.
The values of `Seconds` are those around every unit's edge.

**Fairness.** `reporter_each` assumes weak fairness of the next step (`FairSpec`
of `Reporter`): the program is a single thread that blocks only in `sleep`, for
a bounded time. Nothing is assumed of the sources. Under it a counted run ends
and an endless run goes from each report to the next or dies. The other
modules state safety only; that the option loop ends follows from `ReadsOn`.

**Deadlock.** Checked for `ListHead`. The other runs end where the program
ends, or at a bound.

## What the runs found

* *A run of `--cpu -c 5000` may stop early* (`count_honoured`).
  `/proc/diskstats` is never closed, io collects although it is not enabled,
  and once descriptors are gone `get_num_of_cpu` exits.
* *Earlier answers stay allocated* (`only_last_kept`). `list_del_init` of a
  list's head takes the head out; it frees nothing.
* *A utilisation may mix two processes* (`rate_of_one_process`). The previous
  times are taken at index `c`, the match was found at index `p`.
* *Rates are computed from a total that has fallen* (`tick_overflow`). The
  comment at `cpu.c:68` names the case, but the total is unsigned and the test
  at `cpu.c:69`, `total <= 0`, is only true of 0.
* *The times of a process may be other figures* (`cpu_time_of_stat`). `zsr.h:188`
  says `utime + stime`; the stat line is split at blanks (`proc.c:42`), the name
  in it may hold some, and the fields are counted from the line's start.

More facts stand in the statements of properties that hold. An empty answer
shows the one before: `record_to_str` leaves the buffer as it was and its result
is ignored (`mod_who.c:31`, `tool_zsr.c:111`), so `ReportShowsLastAnswer` says
"last" and not "this round's". And a run may crash: for a process whose user has
no passwd entry (`proc.c:124`), and for addresses without a name (`ip.c:51-54`),
also when neither module is enabled; `NoDanglingRecord` and
`ReportShowsLastAnswer` except ip's list once a freed row is in it.

What does hold, with those facts in the models, is what the passing runs check:
`HeapAccountedFor` that nothing else is lost, `DescriptorsBoundReports` that a run
exits with status 1 for no other reason as long as `/proc/stat` and
`/proc/diskstats` can be read, `SamePlaceIsExact` which utilisations are right,
`UserIsOwnersOrRoot` that a row may show root as the user of a process that ended
in the wrong moment, `IntervalIsElapsed` which intervals are right.

## What is proved

Every safety property that a passing run checks is proved for all values of the
constants, and so are both refinements, of `ReportLoop` by `Reporter` and of `ListSpec` by `ListHead`. The bounds of the
runs are constants like the others: no proof uses more of them than their type
or what is said below. The assumptions are those named in the modules:

| assumption | says | why the code justifies it |
|---|---|---|
| `InfoAssumption` | at least one module, each with one of the four disciplines and a well-formed reader | `load_modules` registers fourteen of them |
| `ParameterAssumption`, `MaxRowsAssumption`, `BoundsAssumption`, `LogAssumption` | the types of counts, selections and bounds | they are that in the code |
| `NodeAssumption` | lists, entries and `NULL` are distinct; there are finitely many lists and entries | they are in memory |
| `SourcesAssumption` | a source is a sequence of no more than `MaxRows` entries | `MaxRows` is any number; a source has an end |
| `PidAssumption` | process numbers are positive | entries of `/proc` whose number is 0 do not exist |
| `WordAssumption` (`ProcStat`) | words have some width; what is beyond an array is a word | `unsigned long` |
| `WordAssumption` (`Rates`) | no counter reaches the width | 64 bits outlast a machine |
| `DevicesAssumption`, `ClockAssumption` | devices have names; a clock rate divides 100 | hundredths of `/proc/uptime` show such a rate exactly |
| `ElementAssumption` | an element of a command line is a word, a cluster of at least one letter, a name with or without a text, or two dashes; lines have some bounded length | a single dash is a word to `getopt_long`; `argv` is finite |
| `ModuleAssumption` | no module is named `all`, `count`, `delay`, `list`, `load` or `help` | the names of the fourteen, in `mod_*.c:5` |
| `CommandAssumption` | a name has between 1 and 11 words; `root` has a passwd entry | a name of 15 characters has at most 9 words, the brackets counted in, as `strtok` takes blanks in a row for one |

**Reporter.** Each property is a consequence of an inductive invariant:

| invariant | says | gives |
|---|---|---|
| `LoopInv` | in a round `printed = i - 1`, at the head of the loop `printed = i`; in a counted run `opt_count + i` is constant and positive | `TypeCorrect`, `LoopInvariant`, `ImplementsReportLoop` |
| `HeapInv` | a block in a module's records carries that module's name and a round up to `i`, below `i` before the module has collected; what the final walks have still to visit is allocated, but for lists that are `damaged` | `NoDangling` |
| `HistoryInv` | a history has one record per round, the last of round `i` once collected; each record's baseline is the round before its own | `HistoryStays`, `BaselineHolds` |
| `MemoryInv` | until a crash, every allocated block is a module still registered, a record not yet freed, or was lost in one of the two ways, by `list_del_init` only in a round later than its own; a list of a single record never has two | `MemoryAccounted` |
| `TextInv` | of each module at each point of a round: once it has collected, `record_to_str` would yield what its last answer asks for; once it has printed, that is what it printed, and the buffer holds the last answer until it collects again | `ReportsShowAnswers` |
| `DescriptorInv` | while the leaking modules' sources are readable, the descriptors open are the rounds made times the leaking modules, plus those `at` has passed; an exit with status 1 comes when they reach the limit | `DescriptorsBound` |

`LoopInv` is needed because the abstract count of reports asked for is nowhere
stored: it is recovered from the two counters. `HeapInv` is needed because a
block is only new if its name is: without the bound on rounds, an allocation
could return a block that a list already owns. `TextInv` rests on `HistoryInv`
and `MemoryInv`, as what is printed is made from the records. `DescriptorsBound`
has a hypothesis of its own, `OnlyLeaksExit`: the readers that keep a
descriptor are those that exit for want of one, which need not be so
of any registry. Two theorems are about the registry of the program, which
`load_modules` of `ReportModules` is: there io's reader is the only one that
leaks and the only one that exits (`DescriptorsBoundOfZsr`), and ip's list the
only one that is ever `damaged` (`OnlyIpIsDamaged`). `InfoAssumption` confines
`relinks` to modules that keep the latest answer, as ip's does.

**The others.** Each theorem follows from the inductive invariant beside it.

| invariant | says | gives |
|---|---|---|
| `OptInv` (`Options`) | while the loop runs there is a place in the line as given up to which all is done: the modules enabled and the numbers kept are what the line asks for in front of it, nothing in front of it ends the program, and `getopt_long` stands there, with the rest of the line as given ahead of it | `ModulesAsNamed`, `LastNumbersCount`, `ListsOptionsBefore`, `LoopReadsOn` |
| `ListsInv` (`ListHead`) | memory holds the lists: every linked node is in a ring, and what the pointers chain from a head on is a sequence of entries, each entry in one list, once | `ListsAsSpecified`, `RingsStayRings`, `WalksMeetTheList`, `ListsStayApart` |
| `WalkInv` (`Readers`) | the node io or proc is filling in is allocated and in no row; the one ip has in hand was freed for an address without a name, with no other address since | `RowsStayAllocated`, `CrashesHaveCauses` |
| `KeepInv` | the rows are no more than the entries passed; every allocated block is a row's or the node in hand; one descriptor is held while the source is open; a crash is of a reader that may, and an exit has one of the causes named | `PromisesKept`, `ExitsHaveCauses` |
| `ShowInv` | the rows made so far are those of the entries passed that are to have one, each at its place, showing what its entry has | `RowsShowEntries` |
| `GatewayInv` | the routes passed held no default route, or the walk is over at the first | `GatewayFound` |
| `ScanInv` (`ProcStat`) | the rows have ascending process numbers below the place of the scan; a readable process there throughout that the scan has passed has one | `ScanCompletes` |
| `RateInv` | no row is rated before the computation; the list kept has no process twice | `UtilisationsOfKnown`, `SamePlaceRates` |
| `KernelInv`, `CpuInv` (`Rates`) | the counters add up to no more than the processors can have spent; a record that was read has a total that is not 0 | `CpuRates`, `CpuShares` |
| `IoInv` | both lists name each device once, in the order of the source; a row that is read now is behind no row of the round before; while nothing went wrong the number of processors kept is the kernel's | `IoRatesOfOwnRow`, `IntervalElapses` |
| `RowInv` (`ProcFiles`) | processes had the number one after another; what was read of stat is of one that was there from its opening to its reading, and of status of one that opened it | `UserIsOwners`, `FieldsOfOne` |

`LogStaysBounded`, `UptimeIsWhole` and `NumbersTaken` need none but types.

*The option loop.* `OptInv` is needed because the properties only speak of the
end of the loop, and of the line as given, while `getopt_long` reads one it has
reordered. What it moves lies behind its place, so that it reads what is ahead
as given (`NextElementIs`); skipped words and the options behind them change
places, which `ExchangeIs` states of any two stretches. What has been moved
matters once only, where `main` looks at the element before the place
(`SeesIs`): if words have been skipped, it meets a word, and otherwise the
element the line has there. One lemma says of each value that `getopt_long`
returns what it makes of the place (`ShortTurn`, `LongTurn`), and `EachTurn`
joins them: a turn goes on, gives up where the line says so, or is the last.
`Roles` is a recursive function; that it satisfies its equation for every line
(`RolesAre`) is proved from the line's beginning on, as described below.

*The refinement of `ListSpec`.* For each function of `list.h` there is a lemma
that says what it makes of a memory that holds some lists, and for each call
one that composes them into a step of `ListSpec`. Behind them is the question
what a walk meets. `next` and `prev` undo one another on the linked nodes, and
there are finitely many, so that a walk must meet some node twice, and the first
it meets twice is where it began; what it meets is therefore the only sequence
that the pointers chain from the head back to the head. Nothing is assumed of
the length of a list.

*Induction over data.* The library's induction theorems cannot be instantiated
here. Where an argument goes by induction on a number, it is put as a statement
about a set: the set of the counter-examples, if not empty, has a least element
(`LeastOfSome`, `ByInduction`). That suffices for walks, for sums and counts of
rows, and for `is_digit`, a recursive function: an explicit function satisfies
its equation, and any other that does agrees with it from the end of the name
back to the front.

**Only model-checked.** The liveness properties (`CountedRunEnds`,
`EndlessRunGoesOn`), as TLAPS does not reason about fairness; and the runs that
end in a violation, which each show one behaviour.

## What is not modelled, and why

* The texts: the formats of records, and that one may exceed the buffer of
  1 MiB, as the callbacks pass its full size to every `snprintf`; the layout of
  log messages.
* Floating-point arithmetic, `round_with_prec` with it: rates are pairs of
  integers.
* The parsing of a source's lines into fields, but for the unparsable line of
  diskstats and for `/proc/<pid>/stat`.
* A process's `group`, which goes with its user, and `mem_util`, which is
  computed from its memory.
* load_avg, mem, swap and time read one file straight into one record; they have
  no more control than their description in `ReportModules`.
* `set_sys_cpu_time` adds guest ticks to the user ticks that already hold them
  (`proc.c:140`); the model keeps the sum, no property judges it.
* The addresses' checks in `common.c`, which nothing in the program calls.
* The name of one option: `README.adoc:97` lists `--load` among the modules. The
  module's option is `--load_avg` (`mod_load_avg.c:5`), as `README.adoc:40` has
  it, and `--load` lists the registered modules (`tool_zsr.c:21`, `:146`).
  `Options` has it as the code does.
* Failure of `malloc` and of `sysconf`; `malloc` is tested for nowhere.
* Types, build files and the unit tests: no behaviour of their own.

## Plan

What would come next: a module `TextBuffer` with the bytes of the 1 MiB buffer,
to say which reports fit and what is cut, and a bound on what is written.
