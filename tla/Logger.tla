------------------------------- MODULE Logger -------------------------------
(***************************************************************************)
(* log.c: messages below the configured level are dropped; the others go   *)
(* to a stream, or to a file that is opened for each message, emptied      *)
(* first when it has grown to max_byte, and closed again.  A file that     *)
(* cannot be opened ends the process.                                      *)
(***************************************************************************)
EXTENDS Naturals

CONSTANTS
  Levels,     \* the levels that are looked at
  MaxByte,    \* the values of max_byte that are looked at
  MaxMessage  \* the size of the longest message

ASSUME LogAssumption ==
  /\ Levels \subseteq 0 .. 6
  /\ MaxByte \subseteq Nat
  /\ MaxMessage \in Nat \ {0}

LOG_INFO  == 2
LOG_ERROR == 4
LOG_FATAL == 5
LOG_OFF   == 6

VARIABLES
  G_LOG_CONFIG, \* level, output_to, max_byte: set before the first message
  log_size      \* the size of the log file

Config == [ level : Levels, output_to : {"file", "stream"},
            max_byte : MaxByte ]

(* What zsr itself runs with (log.c:12-13), and what a user of the library *)
(* may set.                                                                *)
LogInit ==
  /\ G_LOG_CONFIG \in Config
  /\ log_size = 0

Filtered(level) == level = LOG_OFF \/ level < G_LOG_CONFIG.level

(* As if the file were opened before the level is looked at.               *)
ToFile_unfiltered(level) == G_LOG_CONFIG.output_to = "file"

ToFile(level) == ~Filtered(level) /\ G_LOG_CONFIG.output_to = "file"

open_log_file_append == log_size

(* The size of the file once it is open: "wb", or "ab+".                   *)
open_log_file ==
  IF log_size >= G_LOG_CONFIG.max_byte THEN 0 ELSE log_size

(* A message is printed or dropped.                                        *)
_print_log(level) ==
  /\ IF ToFile(level)
     THEN \E bytes \in 1 .. MaxMessage : log_size' = open_log_file + bytes
     ELSE UNCHANGED log_size
  /\ UNCHANGED G_LOG_CONFIG

(* The log never outgrows its limit by more than the message that reaches  *)
(* it, however many messages there are (log.c:24-32).                      *)
LogIsBounded ==
  log_size < MaxMessage
               + IF G_LOG_CONFIG.max_byte = 0 THEN 1 ELSE G_LOG_CONFIG.max_byte
=============================================================================
