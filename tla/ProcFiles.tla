----------------------------- MODULE ProcFiles ------------------------------
(***************************************************************************)
(* store_single_pid_info: one process's row, read from three files of      *)
(* /proc/<pid> one after the other, while the process may end and another  *)
(* be given its number; and the splitting of its stat file into fields at  *)
(* blanks, of which the command's name may hold some.  Blanks in a row are *)
(* one to strtok: a name is the sequence of the words between them.        *)
(*                                                                         *)
(* A file that is open belongs to the process it was opened for: when that *)
(* has ended, reading gives nothing.  Each file is read at once.           *)
(***************************************************************************)
EXTENDS Integers, Sequences

CONSTANTS
  Names,    \* commands, each the sequence of the words its name consists of
  Owners,   \* the users that processes belong to, "root" among them
  Accounts, \* those that have a passwd entry
  MaxLives  \* bound: how many processes have the number, one after another

(* A command is 15 characters long at most, and so has fewer words.        *)
ASSUME CommandAssumption ==
  /\ \A name \in Names :
       /\ name \in Seq({"text", "number", "blank"}) /\ name # <<>>
       /\ Len(name) < 12
  /\ "root" \in Accounts /\ Accounts \subseteq Owners
  /\ MaxLives \in Nat \ {0}

VARIABLES
  pc,     \* the call that comes next; "done", or "crash"
  lives,  \* the processes that have had the number, the last of them now,
          \* each with the call before which it started and ended
  full,   \* no descriptor is left for these files
  file,   \* which of lives the file that is open was opened for
  uid,    \* read_pid_status's uid
  proc    \* the row

vars == << pc, lives, full, file, uid, proc >>

Calls == << "fopen_stat", "fgets_stat", "readlink", "fopen_status",
            "fgets_status", "getpwuid", "done" >>

Place(call) == CHOOSE n \in DOMAIN Calls : Calls[n] = call

Never == Len(Calls) + 1

Lives(n) == n \in DOMAIN lives /\ lives[n].ended = Never

Now == Len(lives)

-----------------------------------------------------------------------------
(* The line of /proc/<pid>/stat.  A name's first word has a bracket in     *)
(* front ("blank": nothing but the bracket), and its last one behind.      *)
None     == [of |-> "none"]
Field(n) == [of |-> "field", at |-> n]
Word(n)  == [of |-> "name", at |-> n]

Line(name) ==
  << Field(1) >> \o [n \in DOMAIN name |-> Word(n)]
                 \o [n \in 1 .. 20 |-> Field(n + 2)]

(* sscanf with %lu: what is no number leaves the variable 0.  Field 3, the *)
(* state, is a letter.                                                     *)
lu(name, col) ==
  LET number == \/ col.of = "field" /\ col.at # 3
                \/ col.of = "name" /\ name[col.at] = "number"
  IN  IF number THEN col ELSE None

(* As if the columns were counted from 0.                                  *)
Column_from_0(name, i) == Line(name)[IF i = 1 THEN 1 ELSE i - 1]

(* The i-th piece that strtok finds, between runs of blanks.               *)
Column(name, i) == Line(name)[i]

stat_fields(name) ==
  [ pid        |-> lu(name, Column(name, 1)),
    cmd        |-> IF name[1] = "blank" THEN None ELSE Column(name, 2),
    state      |-> Column(name, 3),
    ppid       |-> lu(name, Column(name, 4)),
    utime      |-> lu(name, Column(name, 14)),
    stime      |-> lu(name, Column(name, 15)),
    start_time |-> lu(name, Column(name, 22)) ]

(* The row as memset leaves it.                                            *)
Unread == [ pid |-> None, cmd |-> None, state |-> None, ppid |-> None,
            utime |-> None, stime |-> None, start_time |-> None ]

Row == [stat |-> Unread, cmd_path |-> 0, user |-> "", mem |-> 0]

Process == [name : Names, owner : Owners, memory : BOOLEAN]

Life(p, born) ==
  [ name |-> p.name, owner |-> p.owner, memory |-> p.memory,
    born |-> born, ended |-> Never ]

Init ==
  /\ pc = "fopen_stat"
  /\ \E p \in Process : lives = << Life(p, 1) >>
  /\ full \in BOOLEAN
  /\ file = 0
  /\ uid = "root"
  /\ proc = Row

-----------------------------------------------------------------------------
(* The system, before any call.                                            *)

Reading == pc \notin {"done", "crash"}

Ends ==
  /\ Reading
  /\ Lives(Now)
  /\ lives' = [lives EXCEPT ![Now].ended = Place(pc)]
  /\ UNCHANGED << pc, full, file, uid, proc >>

Starts ==
  /\ Reading
  /\ ~Lives(Now) /\ Now < MaxLives
  /\ \E p \in Process : lives' = Append(lives, Life(p, Place(pc)))
  /\ UNCHANGED << pc, full, file, uid, proc >>

-----------------------------------------------------------------------------
Then(call) == pc' = call /\ UNCHANGED << lives, full >>

(* fopen succeeds while the process is there.                              *)
fopen(next, otherwise) ==
  IF Lives(Now) /\ ~full
  THEN file' = Now /\ Then(next)
  ELSE file' = 0 /\ Then(otherwise)

(* read_pid_stat.                                                          *)
fopen_stat ==
  /\ pc = "fopen_stat"
  /\ fopen("fgets_stat", "readlink")
  /\ UNCHANGED << uid, proc >>

fgets_stat ==
  /\ pc = "fgets_stat"
  /\ proc' = IF Lives(file)
             THEN [proc EXCEPT !.stat = stat_fields(lives[file].name)]
             ELSE proc
  /\ file' = 0
  /\ Then("readlink")
  /\ UNCHANGED uid

(* read_pid_exe, which takes no descriptor; a link may not be ours to read.*)
readlink ==
  /\ pc = "readlink"
  /\ \/ Lives(Now) /\ proc' = [proc EXCEPT !.cmd_path = Now]
     \/ UNCHANGED proc
  /\ Then("fopen_status")
  /\ UNCHANGED << file, uid >>

(* As if the missing file were an empty one.                               *)
Unopened_empty == "getpwuid"

Unopened == "done"

(* read_pid_status.                                                        *)
fopen_status ==
  /\ pc = "fopen_status"
  /\ fopen("fgets_status", Unopened)
  /\ UNCHANGED << uid, proc >>

(* uid is 0 unless a line says otherwise; a kernel thread, or a process    *)
(* that is only waited for, has no lines on its memory.                    *)
fgets_status ==
  /\ pc = "fgets_status"
  /\ IF Lives(file)
     THEN /\ uid' = lives[file].owner
          /\ proc' = [proc EXCEPT !.mem = IF lives[file].memory THEN file ELSE 0]
     ELSE UNCHANGED << uid, proc >>
  /\ file' = 0
  /\ Then("getpwuid")

(* The entry's group is asked for also where there is no entry.            *)
getpwuid ==
  /\ pc = "getpwuid"
  /\ IF uid \in Accounts
     THEN proc' = [proc EXCEPT !.user = uid] /\ Then("done")
     ELSE UNCHANGED proc /\ Then("crash")
  /\ UNCHANGED << file, uid >>

Next ==
  \/ Ends
  \/ Starts
  \/ fopen_stat
  \/ fgets_stat
  \/ readlink
  \/ fopen_status
  \/ fgets_status
  \/ getpwuid

Spec == Init /\ [][Next]_vars

-----------------------------------------------------------------------------
(* Properties.                                                             *)

(* Process n is there when the call is made.                               *)
At(n, call) == lives[n].born <= Place(call) /\ Place(call) < lives[n].ended

OpenedFor(call) == {n \in DOMAIN lives : At(n, call) /\ ~full}

(* The user and the memory a row shows are those of the process that had   *)
(* the number when status was opened, even if stat was read of another     *)
(* before it; none where there was no process; and root and no memory      *)
(* where the process ended before the file was read, whoever it belonged   *)
(* to (proc.c:94-122).                                                     *)
UserIsOwnersOrRoot ==
  pc = "done" =>
    LET ns == OpenedFor("fopen_status")
        n  == CHOOSE n \in ns : TRUE
    IN  << proc.user, proc.mem >> =
          IF ns = {} THEN << "", 0 >>
          ELSE IF ~At(n, "fgets_status") THEN << "root", 0 >>
          ELSE << lives[n].owner, IF lives[n].memory THEN n ELSE 0 >>

Stated == {n \in OpenedFor("fopen_stat") : At(n, "fgets_stat")}

(* What a row shows of stat is of the process that had the number from its *)
(* being opened to its being read, and nothing where that one ended, even  *)
(* if another has the number by then: its number and the first word of its *)
(* name, if there is one, whatever the name, and every field in its place  *)
(* where the name is one word (proc.c:31-74).                              *)
StatIsOfOneProcess ==
  pc = "done" =>
    LET name == lives[CHOOSE n \in Stated : TRUE].name
    IN  IF Stated = {} THEN proc.stat = Unread
        ELSE /\ proc.stat.pid = Field(1)
             /\ proc.stat.cmd = IF name[1] = "blank" THEN None ELSE Word(1)
             /\ Len(name) = 1 =>
                  /\ proc.stat.state = Field(3)
                  /\ proc.stat.ppid = Field(4)
                  /\ proc.stat.utime = Field(14)
                  /\ proc.stat.stime = Field(15)
                  /\ proc.stat.start_time = Field(22)

(* cpu_time is the "amount of time that this process has been scheduled in *)
(* user and kernel mode", "utime + stime" (zsr.h:187-188), whatever the    *)
(* process is called: of a process that was there, the two summands are    *)
(* fields 14 and 15 of its stat.  The code splits the line at blanks, also *)
(* at those in the name, which strtok takes for the ends of fields         *)
(* (proc.c:42-76).                                                         *)
CpuTimeIsUtimePlusStime ==
  (pc = "done" /\ Stated # {}) =>
    proc.stat.utime = Field(14) /\ proc.stat.stime = Field(15)
=============================================================================
