------------------------------- MODULE Server -------------------------------
(***************************************************************************)
(* The life of the one backend process, cmd/server/main.go, around its     *)
(* catalogue: the process migrates the schema (Migrations), serves from a  *)
(* cache in its own memory (Catalog), and ends at any point of either.     *)
(* What ends with it are the cache and the requests under way; the tables  *)
(* stay.                                                                   *)
(***************************************************************************)
EXTENDS Catalog

CONSTANTS Last, Repeatable, Undoes    \* of Migrations

VARIABLES boot, at, present, recorded, blind

Boot == INSTANCE Migrations WITH
          Last <- Last, Repeatable <- Repeatable, Undoes <- Undoes,
          boot <- boot, at <- at, present <- present, recorded <- recorded,
          blind <- blind

ASSUME ServerAssumption == Boot!MigrationsAssumption

main == <<boot, at, present, recorded, blind>>
serverVars == <<vars, main>>

ServerInit == Init /\ Boot!Init

\* The routes answer; on a schema that is not whole they answer with errors.
Serving == boot = "up" /\ present = Boot!File

\* The process ends, whatever it was doing.
Crash ==
    /\ Boot!Stop
    /\ cache' = << >>
    /\ reader' = [r \in Reader |-> NoWork]
    /\ writer' = [w \in Writer |-> NoWork]
    /\ late' = {}
    /\ UNCHANGED <<row, rules, moderated>>

StartUp == Boot!Proceed /\ UNCHANGED vars

\* A start that does not see the files, or a record of one.
StartUpBlind == (Boot!NoDirectory \/ Boot!Overlook) /\ UNCHANGED vars

Read(r) == Serving /\ ReaderStep(r) /\ UNCHANGED main
Write(w) == Serving /\ WriterStep(w) /\ UNCHANGED main
Age(k) == Expire(k) /\ UNCHANGED main

Arrive ==
    /\ Serving
    /\ \/ \E r \in Reader, k \in Key : Miss(r, k)
       \/ WriterArrives
    /\ UNCHANGED main

WriteRefused(w) == Serving /\ WriteFails(w) /\ UNCHANGED main

ServerNext ==
    \/ Crash \/ StartUp \/ StartUpBlind
    \/ Arrive
    \/ \E r \in Reader : Read(r)
    \/ \E w \in Writer : Write(w) \/ WriteRefused(w)
    \/ \E k \in Key : Age(k)

ServerSpec == ServerInit /\ [][ServerNext]_serverVars

\* A process that runs goes on, entries age, and somebody starts a process
\* that has ended.
LiveServerSpec ==
    /\ ServerSpec
    /\ WF_serverVars(StartUp)
    /\ \A r \in Reader : WF_serverVars(Read(r))
    /\ \A w \in Writer : WF_serverVars(Write(w))
    /\ \A k \in Key : WF_serverVars(Age(k))

-----------------------------------------------------------------------------
\* Types of both parts: the list holds published collectibles, an edit or a
\* moderation is of a row that exists, and the start-up of known files.
ServerTypeOK ==
    /\ TypeOK
    /\ Boot!TypeOK

\* Whatever start was interrupted where, a server that serves has the schema of
\* every file, unless a start did not see the directory or a record
\* (runMigrations 229-287).
ServingIsMigrated == Boot!ServingIsMigrated

\* The server comes back after a crash unless a migration is left torn that
\* cannot be executed again (runMigrations 268-281).
BootsAgain == Boot!BootsAgain
=============================================================================
