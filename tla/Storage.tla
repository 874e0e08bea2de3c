--------------------------------- MODULE Storage ---------------------------------
(***************************************************************************)
(* The file of users (libs/mrial_fs/src/storage.rs and lib.rs): loaded,       *)
(* changed and saved without a lock by the user page of the player             *)
(* (mrial_player/src/main.rs), which loads it once, and by the command line of  *)
(* the server (mrial_server/src/cli/mod.rs), which loads it for each command.   *)
(* A user is its name: passwords are data. An add or a remove is a command.     *)
(***************************************************************************)
EXTENDS Naturals, Sequences, SequencesExt

CONSTANTS
  Page,         \* the process with the user page
  CLIs,         \* processes of the command line
  Names,        \* user names, all of one length
  MaxCommands   \* bound: commands started

ASSUME StorageAssumption == Page \notin CLIs /\ MaxCommands \in Nat

VARIABLES
  file,      \* readable or not, its users if it is, and its length in users
  phase,     \* per process: Closed, Open (loaded) or Writing (the file is truncated)
  list,      \* per process: StorageMulti.state
  base,      \* history, per process: the users in the file when it loaded or saved it last
  command,   \* per process: what it is doing to the list
  commands,  \* how many more commands may be started
  done,      \* history: the users after the commands that were carried out, one by one
  conflict,  \* history: a process wrote a list not based on the last one, or while another did
  broken     \* history: a process ended between truncating the file and writing it

storageVars == <<file, phase, list, base, command, commands, done, conflict, broken>>

Processes == {Page} \union CLIs
NoCommand == [op |-> "none"]
Commands == [op : {"add", "rm"}, name : Names]

\* There is no file before the first save.
StorageInit ==
  /\ file = [readable |-> FALSE, users |-> <<>>, size |-> 0, exists |-> FALSE]
  /\ phase = [p \in Processes |-> "Closed"]
  /\ list = [p \in Processes |-> <<>>] /\ base = list
  /\ command = [p \in Processes |-> NoCommand]
  /\ commands = MaxCommands
  /\ done = <<>> /\ conflict = FALSE /\ broken = FALSE

-------------------------------------------------------------------------------
(* StorageMulti: the list in memory and the file.                              *)

\* load: no file is no user; a file that cannot be read is an error, and no user.
LoadFails == file.exists /\ ~file.readable
Loaded == IF file.readable THEN file.users ELSE <<>>

\* The first item of that name.
Removed(users, name) ==
  RemoveAt(users, CHOOSE i \in DOMAIN users :
                    users[i] = name /\ \A j \in 1..(i - 1) : users[j] # name)

Changed(users, c) ==
  IF c.op = "add" THEN Append(users, c.name)
  ELSE IF Contains(users, c.name) THEN Removed(users, c.name)
  ELSE users

\* Mutant of Truncated: the file is opened without truncate(true).
OpenedAsItIs == [file EXCEPT !.exists = TRUE]

Truncated == [exists |-> TRUE, readable |-> FALSE, users |-> <<>>, size |-> 0]

\* One of an empty list is longer than an empty file.
SizeOf(users) == Len(users) + 1

\* What was written meanwhile and is longer stands out behind.
Written(users) ==
  IF file.size <= SizeOf(users)
  THEN [exists |-> TRUE, readable |-> TRUE, users |-> users, size |-> SizeOf(users)]
  ELSE [file EXCEPT !.readable = FALSE, !.users = <<>>]

\* save opens the file, with the list already changed.
BeginSave(p, c) ==
  /\ file' = Truncated
  /\ phase' = [phase EXCEPT ![p] = "Writing"]
  /\ list' = [list EXCEPT ![p] = Changed(@, c)]
  /\ command' = [command EXCEPT ![p] = c]
  /\ conflict' = (conflict \/ base[p] # done \/ \E q \in Processes : phase[q] = "Writing")
  /\ UNCHANGED <<base, done, broken>>

\* ... and writes it. The command line is done with that.
FinishSave(p) ==
  /\ phase[p] = "Writing"
  /\ file' = Written(list[p])
  /\ phase' = [phase EXCEPT ![p] = IF p = Page THEN "Open" ELSE "Closed"]
  /\ command' = [command EXCEPT ![p] = NoCommand]
  /\ done' = Changed(done, command[p])
  /\ base' = [base EXCEPT ![p] = list[p]]
  /\ UNCHANGED <<list, commands, conflict, broken>>

\* The process is killed, or the write fails: then the page loads what cannot be read,
\* and its unwrap ends it, too.
BreakOff(p) ==
  /\ phase[p] = "Writing"
  /\ phase' = [phase EXCEPT ![p] = "Closed"]
  /\ command' = [command EXCEPT ![p] = NoCommand]
  /\ broken' = TRUE
  /\ UNCHANGED <<file, list, base, commands, done, conflict>>

StartsCommand == commands > 0 /\ commands' = commands - 1

-------------------------------------------------------------------------------
(* The command line: one command per process.                                  *)

CLILoad(p) ==
  /\ phase[p] = "Closed" /\ ~LoadFails
  /\ StartsCommand
  /\ list' = [list EXCEPT ![p] = Loaded] /\ base' = [base EXCEPT ![p] = Loaded]
  /\ phase' = [phase EXCEPT ![p] = "Open"]
  /\ UNCHANGED <<file, command, done, conflict, broken>>

\* "User already exists", "User not found", and ls: nothing is saved. Or the file may
\* not be opened, with elevated permissions either.
CLIEnd(p) ==
  /\ phase[p] = "Open"
  /\ phase' = [phase EXCEPT ![p] = "Closed"]
  /\ UNCHANGED <<file, list, base, command, commands, done, conflict, broken>>

CLISave(p) ==
  /\ phase[p] = "Open"
  /\ \E c \in Commands :
       /\ (c.op = "add") # Contains(list[p], c.name)
       /\ BeginSave(p, c)
  /\ UNCHANGED commands

-------------------------------------------------------------------------------
(* The user page.                                                              *)

\* An error is only logged: the page goes on with no user.
PageLoad ==
  /\ phase[Page] = "Closed"
  /\ list' = [list EXCEPT ![Page] = Loaded] /\ base' = [base EXCEPT ![Page] = Loaded]
  /\ phase' = [phase EXCEPT ![Page] = "Open"]
  /\ UNCHANGED <<file, command, commands, done, conflict, broken>>

\* Adding does not look for the name.
PageSave ==
  /\ phase[Page] = "Open"
  /\ StartsCommand
  /\ \E c \in Commands :
       /\ c.op = "rm" => Contains(list[Page], c.name)
       /\ BeginSave(Page, c)

\* Mutant of PageRefused: what is loaded is added to the list.
PageRefusedExtends ==
  /\ phase[Page] = "Open"
  /\ StartsCommand
  /\ list' = [list EXCEPT ![Page] = @ \o Loaded] /\ base' = [base EXCEPT ![Page] = Loaded]
  /\ UNCHANGED <<file, phase, command, done, conflict, broken>>

\* Mutant of PageRefused: the list keeps what was not saved.
PageRefusedKeeps ==
  /\ phase[Page] = "Open"
  /\ StartsCommand
  /\ \E name \in Names : list' = [list EXCEPT ![Page] = Append(@, name)]
  /\ UNCHANGED <<file, phase, base, command, done, conflict, broken>>

\* The file may not be opened, and the user refuses pkexec: the list is loaded again,
\* which unwraps.
PageRefused ==
  /\ phase[Page] = "Open"
  /\ StartsCommand
  /\ list' = [list EXCEPT ![Page] = Loaded] /\ base' = [base EXCEPT ![Page] = Loaded]
  /\ phase' = [phase EXCEPT ![Page] = IF LoadFails THEN "Closed" ELSE "Open"]
  /\ UNCHANGED <<file, command, done, conflict, broken>>

PageEnd ==
  /\ phase[Page] = "Open"
  /\ phase' = [phase EXCEPT ![Page] = "Closed"]
  /\ UNCHANGED <<file, list, base, command, commands, done, conflict, broken>>

StorageNext ==
  \/ \E p \in CLIs : CLILoad(p) \/ CLIEnd(p) \/ CLISave(p)
  \/ PageLoad \/ PageSave \/ PageRefused \/ PageEnd
  \/ \E p \in Processes : FinishSave(p) \/ BreakOff(p)

StorageSpec == StorageInit /\ [][StorageNext]_storageVars

-------------------------------------------------------------------------------
(* Properties.                                                                 *)

\* The types of the file and the processes' state; no list has more users than there
\* were commands.
StorageTypeOK ==
  /\ file \in [exists : BOOLEAN, readable : BOOLEAN, users : Seq(Names), size : Nat]
  /\ file.readable => file.exists /\ file.size = SizeOf(file.users)
  /\ phase \in [Processes -> {"Closed", "Open", "Writing"}]
  /\ list \in [Processes -> Seq(Names)] /\ base \in [Processes -> Seq(Names)]
  /\ \A p \in Processes : Len(list[p]) + commands <= MaxCommands
  /\ command \in [Processes -> Commands \union {NoCommand}]
  /\ \A p \in Processes : command[p] # NoCommand <=> phase[p] = "Writing"
  /\ commands \in Nat
  /\ done \in Seq(Names)
  /\ conflict \in BOOLEAN /\ broken \in BOOLEAN

\* As long as no process saves what it loaded before another one saved, the server
\* admits the users of the commands that were carried out, in whichever process, and
\* no others: what was refused leaves no trace.
CarriesOut == ~conflict /\ file.readable => file.users = done

\* The server can load the file unless a process is just writing it: it takes a crash
\* or two processes that write at once to lock everyone out.
Readable ==
  file.exists /\ ~file.readable =>
    broken \/ conflict \/ \E p \in Processes : phase[p] = "Writing"
===============================================================================
