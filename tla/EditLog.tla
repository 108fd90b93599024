------------------------------- MODULE EditLog -------------------------------
(***************************************************************************)
(* core/storage.py: the edit log, kept in Redis, or in one JSON file when  *)
(* Redis cannot be reached.                                                *)
(*                                                                         *)
(* With Redis a record is appended by the server, in one step.  With JSON  *)
(* append_log reads the whole file, adds the record and writes the whole   *)
(* file back: write_text truncates it first, so that the file is torn      *)
(* between two of its steps.  The other sections of the file (cache, plan, *)
(* vectors, decisions) are written the same way and left out.              *)
(***************************************************************************)
EXTENDS Naturals, Sequences, FiniteSets

CONSTANTS
  Clients,      \* the processes that hold a Storage
  Torn          \* a state file that is not JSON

VARIABLES
  logBackend,      \* what Storage._connect settled on, in every process
  active,       \* the processes that share this log
  log,          \* the log, or Torn
  held,         \* JSON: the log a client has read and is going to write back
  stage         \* JSON: where a client's append_log is

storage == <<logBackend, active, log, held, stage>>

(* Two processes that fall back to one JSON file. *)
SharedFile == logBackend = "json" /\ Cardinality(active) > 1

LogInit ==
  /\ logBackend \in {"redis", "json"}
  /\ active \in (SUBSET Clients) \ {{}}
  /\ log = <<>>
  /\ held = [c \in Clients |-> <<>>]
  /\ stage = [c \in Clients |-> "none"]

Appended(records, r) == Append(records, r)

(* RPUSH. *)
PushRecord(r) ==
  /\ logBackend = "redis"
  /\ log' = Appended(log, r)
  /\ UNCHANGED <<logBackend, active, held, stage>>

(* _read_json, the first half of a JSON append_log. *)
ReadState(c) ==
  /\ logBackend = "json" /\ stage[c] = "none"
  /\ log # Torn
  /\ held' = [held EXCEPT ![c] = log]
  /\ stage' = [stage EXCEPT ![c] = "read"]
  /\ UNCHANGED <<logBackend, active, log>>

(* write_text opens the file ... *)
TruncateState(c) ==
  /\ stage[c] = "read"
  /\ log' = Torn
  /\ stage' = [stage EXCEPT ![c] = "truncated"]
  /\ UNCHANGED <<logBackend, active, held>>

(* ... and fills it. *)
FillState(c, r) ==
  /\ stage[c] = "truncated"
  /\ log' = Appended(held[c], r)
  /\ stage' = [stage EXCEPT ![c] = "none"]
  /\ UNCHANGED <<logBackend, active, held>>

(* The file cannot be opened, or the disk is full: write_text raises and leaves
   the file as it is by then. *)
FillRaises(c) ==
  /\ stage[c] \in {"read", "truncated"}
  /\ stage' = [stage EXCEPT ![c] = "none"]
  /\ UNCHANGED <<logBackend, active, log, held>>

(* Mutant: the files are not looked at. *)
AllFailures(files) == Cardinality({i \in DOMAIN log : log[i].status # "committed"})

(* count_attempts: the records of edits that were not committed and that
   touched one of these files. *)
CountAttempts(files) ==
  Cardinality({i \in DOMAIN log : log[i].status # "committed" /\ log[i].files \cap files # {}})

(* Does a JSON file that is torn make the next read raise? *)
ReadRaises == log = Torn
=============================================================================
