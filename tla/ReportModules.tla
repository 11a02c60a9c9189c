--------------------------- MODULE ReportModules ---------------------------
(***************************************************************************)
(* The fourteen report modules that load_modules registers, each described *)
(* by what distinguishes its three callbacks, and the libzsr readers their *)
(* collect_record callbacks call.                                          *)
(*                                                                         *)
(* A reader is described by                                                *)
(*   rows   the numbers of rows it may deliver when its source is readable *)
(*          (0 from a source that is readable and has nothing to tell);    *)
(*   opens  what it does with descriptors: "none" needs no descriptor,     *)
(*          "closes" closes what it opens, "leaks" keeps one open;         *)
(*   vital  whether the process exits when the source cannot be opened;    *)
(*   drops  how many rows it may allocate and then forget;                 *)
(*   crashes  whether it may bring the process down;                       *)
(*   relinks  whether it may link in a row that it has freed.              *)
(*                                                                         *)
(* A module is its reader and the discipline its callbacks follow:         *)
(*   "history"  every round appends one record, and computes it against    *)
(*              the record before it;                                      *)
(*   "batches"  every round appends a list of rows, and computes it        *)
(*              against the list before it;                                *)
(*   "single"   one record is allocated in the first round and refilled    *)
(*              in place in every later one;                               *)
(*   "latest"   list_del_init empties the list and the reader refills it.  *)
(***************************************************************************)
EXTENDS Naturals

CONSTANT MaxRows   \* bound: the most rows a list-valued source delivers

ASSUME MaxRowsAssumption == MaxRows \in Nat \ {0}

Row  == {1}
Rows == 0 .. MaxRows

Reader(rows, opens) ==
  [ rows |-> rows, opens |-> opens, vital |-> FALSE, drops |-> {0},
    crashes |-> FALSE, relinks |-> FALSE ]

-----------------------------------------------------------------------------
(* The readers of libzsr.                                                  *)

read_cpu_stat    == Reader(Row, "closes")
get_dns          == Reader(Rows, "closes")
read_fs_stat     == Reader(Rows, "closes")
(* A readable route table need not hold a default route: the entry passed  *)
(* in is then left as it was.                                              *)
get_gateway      == Reader({0, 1}, "closes")
(* get_num_of_cpu exits when it cannot open /proc/stat; /proc/diskstats is *)
(* never closed; a line that does not parse ends the scan after its row    *)
(* has been allocated and before it is linked in.                          *)
read_io_stat     ==
  [ Reader(Rows, "leaks") EXCEPT !.vital = TRUE, !.drops = {0, 1} ]
(* The node of an address without a name is freed and stays in hand: the   *)
(* next address is linked in with it, or frees it again.                   *)
get_ip_addr      ==
  [ Reader(Rows, "closes") EXCEPT !.crashes = TRUE, !.relinks = TRUE ]
read_load_stat   == Reader(Row, "closes")
read_mem_stat    == Reader(Row, "closes")
get_network      == Reader(Rows, "closes")
(* The passwd entry of a process's user is used without a look at whether  *)
(* there is one.                                                           *)
get_all_proc     == [ Reader(Rows, "closes") EXCEPT !.crashes = TRUE ]
read_swap_stat   == Reader(Row, "closes")
get_sys_time     == Reader(Row, "none")
read_uptime_stat == Reader(Row, "closes")
get_login_user   == Reader(Rows, "closes")

-----------------------------------------------------------------------------
(* The report modules, in the order load_modules registers them.           *)

Keeping(keep, reader) == [keep |-> keep, reader |-> reader]

mod_cpu      == Keeping("history", read_cpu_stat)
mod_dns      == Keeping("latest", get_dns)
mod_fs       == Keeping("latest", read_fs_stat)
mod_gateway  == Keeping("single", get_gateway)
mod_io       == Keeping("batches", read_io_stat)
mod_ip       == Keeping("latest", get_ip_addr)
mod_load_avg == Keeping("single", read_load_stat)
mod_mem      == Keeping("single", read_mem_stat)
mod_network  == Keeping("latest", get_network)
mod_proc     == Keeping("batches", get_all_proc)
mod_swap     == Keeping("single", read_swap_stat)
mod_time     == Keeping("single", get_sys_time)
mod_uptime   == Keeping("single", read_uptime_stat)
mod_who      == Keeping("latest", get_login_user)

load_modules ==
  << mod_cpu, mod_dns, mod_fs, mod_gateway, mod_io, mod_ip, mod_load_avg,
     mod_mem, mod_network, mod_proc, mod_swap, mod_time, mod_uptime, mod_who >>
=============================================================================
