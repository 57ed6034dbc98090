----------------------------- MODULE Migrations -----------------------------
(***************************************************************************)
(* Start-up of the server, cmd/server/main.go: main runs every migration   *)
(* file that schema_migrations does not name, in the order of the file     *)
(* names, and only then serves.  Executing a file and recording it are two *)
(* statements; each file is one implicit transaction.                      *)
(***************************************************************************)
EXTENDS Integers

CONSTANTS
    Last,         \* the files are 1..Last
    Repeatable,   \* files that succeed when their effect is already there
    Undoes        \* Undoes[m]: files whose effect executing m removes

File == 1..Last

\* A file removes at most what later files bring back: 013 deletes the
\* templates that 014 restores.
MigrationsAssumption ==
    /\ Last \in Nat
    /\ Repeatable \subseteq File
    /\ Undoes \in [File -> SUBSET File]
    /\ \A m \in File : \A n \in Undoes[m] : n > m

VARIABLES
    boot,       \* where main is; "up" once it serves
    at,         \* the file at hand
    present,    \* files whose effect the schema has
    recorded,   \* schema_migrations
    blind       \* history: a start was blind, and the schema was not whole at a
                \* start's end since

bootVars == <<boot, at, present, recorded, blind>>

Init ==
    /\ boot = "down"
    /\ at = 1
    /\ present = {}
    /\ recorded = {}
    /\ blind = FALSE

-----------------------------------------------------------------------------
\* Somebody starts the process.
Start ==
    /\ boot = "down"
    /\ boot' = "check"
    /\ at' = 1
    /\ UNCHANGED <<present, recorded, blind>>

\* The process ends: a Fatal, a crash or a shutdown.
Stop ==
    /\ boot # "down"
    /\ boot' = "down"
    /\ at' = 1
    /\ UNCHANGED <<present, recorded, blind>>

\* ReadDir fails: a warning, and the server starts as it is.
NoDirectory ==
    /\ boot = "check"
    /\ at = 1
    /\ boot' = "up"
    /\ blind' = (present # File)
    /\ UNCHANGED <<at, present, recorded>>

\* SELECT EXISTS: a recorded file is passed over.
Check ==
    /\ boot = "check"
    /\ at \in File
    /\ IF at \in recorded
         THEN at' = at + 1 /\ UNCHANGED boot
         ELSE boot' = "execute" /\ UNCHANGED at
    /\ UNCHANGED <<present, recorded, blind>>

\* The error of that SELECT is ignored and leaves applied = false.
Overlook ==
    /\ boot = "check"
    /\ at \in recorded
    /\ boot' = "execute"
    /\ blind' = TRUE
    /\ UNCHANGED <<at, present, recorded>>

Executable == at \in present => at \in Repeatable

\* Mutant: a file that fails is logged and passed over.
ExecuteLenient ==
    /\ boot = "execute"
    /\ \/ /\ present' = (present \cup {at}) \ Undoes[at]
          /\ boot' = "record"
       \/ /\ boot' = "record"
          /\ UNCHANGED present
    /\ UNCHANGED <<at, recorded, blind>>

\* Mutant: no file may find anything of what it makes.
ExecuteOnce ==
    /\ boot = "execute"
    /\ IF at \notin present
         THEN /\ present' = (present \cup {at}) \ Undoes[at]
              /\ boot' = "record"
         ELSE boot' = "down" /\ UNCHANGED present
    /\ UNCHANGED <<at, recorded, blind>>

\* pool.Exec(content): a second CREATE TABLE, ADD CONSTRAINT or DROP COLUMN is
\* an error and ends the process.
Execute ==
    /\ boot = "execute"
    /\ IF Executable
         THEN /\ present' = (present \cup {at}) \ Undoes[at]
              /\ boot' = "record"
         ELSE boot' = "down" /\ UNCHANGED present
    /\ UNCHANGED <<at, recorded, blind>>

\* INSERT INTO schema_migrations: version is the primary key.
Record ==
    /\ boot = "record"
    /\ IF at \in recorded
         THEN boot' = "down" /\ UNCHANGED <<at, recorded>>
         ELSE boot' = "check" /\ at' = at + 1 /\ recorded' = recorded \cup {at}
    /\ UNCHANGED <<present, blind>>

\* runMigrations returns nil and main goes on to e.Start.
Serve ==
    /\ boot = "check"
    /\ at > Last
    /\ boot' = "up"
    /\ at' = 1
    /\ blind' = (blind /\ present # File)
    /\ UNCHANGED <<present, recorded>>

Proceed == Start \/ Check \/ Execute \/ Record \/ Serve

Next == Proceed \/ Stop \/ NoDirectory \/ Overlook

Spec == Init /\ [][Next]_bootVars

-----------------------------------------------------------------------------
TypeOK ==
    /\ boot \in {"down", "check", "execute", "record", "up"}
    /\ at \in 1..(Last + 1)
    /\ present \subseteq File
    /\ recorded \subseteq File
    /\ blind \in BOOLEAN
    /\ boot \in {"execute", "record"} => at \in File

\* Whatever start was interrupted where, a server that serves has the schema of
\* every file, unless a start did not see the directory or a record
\* (runMigrations 229-287).
ServingIsMigrated == boot = "up" /\ ~blind => present = File

\* A file that was executed, is not recorded and cannot be executed again:
\* every start ends there until somebody records it by hand.
Stuck == \E m \in present \ recorded : m \notin Repeatable

\* The server comes back unless such a file is left, if from some time on it ends
\* for no other reason than a failing file and overlooks no record.
BootsAgain ==
    <>[][(Stop => Proceed) /\ ~Overlook]_bootVars => (boot = "down" ~> boot = "up" \/ Stuck)
=============================================================================
