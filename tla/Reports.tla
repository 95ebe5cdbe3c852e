------------------------------- MODULE Reports -------------------------------
(* The way of a report: do_analyze (analyzer.cpp) publishes the analysis of a *)
(* period as a tar file, and publishes it again with every round; the web     *)
(* server (main.go) loads what it finds when it starts, and what it is        *)
(* notified of afterwards.  They share a directory and nothing else.          *)
EXTENDS Integers, Sequences, SequencesExt, Functions, Faults

CONSTANTS
  Users,
  NoUser,           \* the empty string
  None,             \* no archive, no result
  MaxRecords,       \* bound: measurements in the database
  Owner,            \* the user whose job a measurement is of
  Telling           \* the measurements an analysis has something to say of

Records == 1 .. MaxRecords
Periods == 0 .. MaxRecords

ASSUME ReportsAssumption ==
  /\ MaxRecords \in Nat \ {0}
  /\ Owner \in [Records -> Users]
  /\ Telling \subseteq Records
  /\ NoUser \notin Users

VARIABLES
  records,             \* MAX(recordid) of measurements
  analysis_offset,     \* the committed column of worker_task_info
  next_period_update,  \* "unset" at the start of a process, "ahead" or "past"
  offset_start, offset_end,
  apc,                 \* where the analyzer is
  tmp,                 \* the .tar.gz.tmp file that is to be renamed
  dir,                 \* the .tar.gz file of each period
  renew,               \* the periods that have a .renew file
  lost,                \* measurements no visible archive will hold: see Give
  wpc,                 \* where the web server is
  dirlist,             \* what os.ReadDir returned and is not loaded yet
  events,              \* periods whose .renew was created while it is watched
  Results,             \* resultSet.Results
  resultsAvailable

analysis == <<next_period_update, offset_start, offset_end, apc>>
files == <<tmp, dir, renew>>
web == <<wpc, dirlist, events, Results, resultsAvailable>>
reports == <<records, analysis_offset, analysis, files, lost, web>>

ReportInit ==
  /\ records \in {0, 1}
  /\ analysis_offset = 0
  /\ next_period_update = "unset"
  /\ offset_start = 0
  /\ offset_end = 0
  /\ apc = "down"
  /\ tmp = None
  /\ dir = [p \in Periods |-> None]
  /\ renew = {}
  /\ lost = {}
  /\ wpc = "down"
  /\ dirlist = {}
  /\ events = <<>>
  /\ Results = [p \in Periods |-> None]
  /\ resultsAvailable = {}
  /\ faults = 0

-----------------------------------------------------------------------------
(* An archive: the measurements it is about, and its files after raw.json.   *)

InPeriod(r, from, to) == from < r /\ r <= to

Measured(from, to) == {r \in Records : InPeriod(r, from, to)}

(* The users with analysis: some query of analysis_list returned a row.       *)
Told(about) == {Owner[r] : r \in about \intersect Telling}

File(user, ext) == [user |-> user, ext |-> ext]

Letter(user, about) ==
  <<File(user, "header"), File(user, "mail")>>
    \o IF user \in Told(about) THEN <<>> ELSE <<File(user, "empty")>>

(* SELECT DISTINCT promises no order.  The users of analyze_user_info that     *)
(* are to be skipped are among them: the statement ends before its EXCEPT.     *)
Archives(about) ==
  {[about |-> about,
    entries |-> FlattenSeq([i \in DOMAIN users |-> Letter(users[i], about)])]
     : users \in SetToSeqs({Owner[r] : r \in about})}

-----------------------------------------------------------------------------
(* The analyzer.                                                              *)

(* The round ends early.  When it has committed the end of its period, its     *)
(* measurements belong to no later one.                                        *)
Published == UNION {dir[p].about : p \in {q \in Periods : dir[q] # None}}

Give(up) == lost' = lost \union (up \ Published)

Unpublished == {r \in Measured(offset_start, offset_end) : r <= analysis_offset}

(* The static variables of a new process are as those of the first.           *)
StartAnalyzer ==
  /\ apc = "down"
  /\ apc' = "idle"
  /\ UNCHANGED <<records, analysis_offset, next_period_update, offset_start,
                 offset_end, files, lost, web, faults>>

(* The import and the collection of the round before the analysis.            *)
Measure ==
  /\ apc = "idle"
  /\ records < MaxRecords
  /\ records' = records + 1
  /\ UNCHANGED <<analysis_offset, analysis, files, lost, web, faults>>

(* ANALYZE_PERIOD_LENGTH is over.                                             *)
Tick ==
  /\ next_period_update = "ahead"
  /\ apc = "idle"
  /\ next_period_update' = "past"
  /\ UNCHANGED <<records, analysis_offset, offset_start, offset_end, apc,
                 files, lost, web, faults>>

Expired == next_period_update = "past"

NextPeriod ==
  IF next_period_update = "unset" \/ Expired THEN "ahead" ELSE next_period_update

(* The period is said to start where it was just closed. *)
BoundsAfter(old, new) ==
  /\ offset_start' = IF Expired THEN new ELSE old
  /\ offset_end' = new

(* What RETURNING calls start and end are taken the other way round. *)
BoundsSwapped(old, new) == offset_start' = new /\ offset_end' = old

Bounds(old, new) == offset_start' = old /\ offset_end' = new

(* The renewal is rolled back in every round but the last of a period, the     *)
(* first of a process among them.                                              *)
RenewOffset ==
  /\ apc = "idle"
  /\ apc' = "renewed"
  /\ Bounds(analysis_offset, records)
  /\ analysis_offset' = IF Expired THEN records ELSE analysis_offset
  /\ next_period_update' = NextPeriod
  /\ UNCHANGED <<records, files, lost, web, faults>>

(* The database is busy.  step_renew leaves the bounds alone and nobody looks: *)
(* they are those of the last round, or 0 in the first.                        *)
RenewFails ==
  /\ apc = "idle"
  /\ Fault
  /\ apc' = "renewed"
  /\ next_period_update' = NextPeriod
  /\ UNCHANGED <<records, analysis_offset, offset_start, offset_end, files, lost, web>>

(* The round goes on with the users that were listed before the error. *)
ListCut ==
  /\ apc = "renewed"
  /\ Fault
  /\ \E cut \in offset_start .. offset_end :
       tmp' \in Archives(Measured(offset_start, cut))
  /\ apc' = "archived"
  /\ UNCHANGED <<records, analysis_offset, next_period_update, offset_start,
                 offset_end, dir, renew, lost, web>>

(* The list of users comes to an error, and the round is over.                *)
ListFails ==
  /\ apc = "renewed"
  /\ Fault
  /\ apc' = "idle"
  /\ Give(Unpublished)
  /\ UNCHANGED <<records, analysis_offset, next_period_update, offset_start,
                 offset_end, files, web>>

(* Letters are written and tar exits with status 0.                           *)
Tar ==
  /\ apc = "renewed"
  /\ tmp' \in Archives(Measured(offset_start, offset_end))
  /\ apc' = "archived"
  /\ UNCHANGED <<records, analysis_offset, next_period_update, offset_start,
                 offset_end, dir, renew, lost, web, faults>>

(* The exit status of tar is not looked at. *)
AnyStatus ==
  /\ apc = "renewed"
  /\ Fault
  /\ \E archive \in Archives(Measured(offset_start, offset_end)) :
       \E n \in 0 .. Len(archive.entries) :
         tmp' = [archive EXCEPT !.entries = SubSeq(@, 1, n)]
  /\ apc' = "archived"
  /\ UNCHANGED <<records, analysis_offset, next_period_update, offset_start,
                 offset_end, dir, renew, lost, web>>

(* It exits with another: what it leaves behind is written over the next time. *)
TarFails ==
  /\ apc = "renewed"
  /\ Fault
  /\ apc' = "idle"
  /\ Give(Unpublished)
  /\ UNCHANGED <<records, analysis_offset, next_period_update, offset_start,
                 offset_end, files, web>>

(* The name of the file is the start of its period.                           *)
Rename ==
  /\ apc = "archived"
  /\ dir' = [dir EXCEPT ![offset_start] = tmp]
  /\ tmp' = None
  /\ lost' = lost \union
       IF dir[offset_start] = None THEN {} ELSE dir[offset_start].about \ tmp.about
  /\ apc' = "renamed"
  /\ UNCHANGED <<records, analysis_offset, next_period_update, offset_start,
                 offset_end, renew, web, faults>>

Watching == wpc \in {"wait", "remove"}

(* fopen creates .renew, or truncates it, which is no event of creation.       *)
Notify ==
  /\ apc = "renamed"
  /\ apc' = "idle"
  /\ renew' = renew \union {offset_start}
  /\ events' = IF Watching /\ offset_start \notin renew
                 THEN Append(events, offset_start)
                 ELSE events
  /\ UNCHANGED <<records, analysis_offset, next_period_update, offset_start, offset_end,
                 tmp, dir, lost, wpc, dirlist, Results, resultsAvailable, faults>>

(* Killed, or exit(1): a letter cannot be opened, a query fails.              *)
CrashAnalyzer ==
  /\ apc # "down"
  /\ Fault
  /\ apc' = "down"
  /\ next_period_update' = "unset"
  /\ offset_start' = 0
  /\ offset_end' = 0
  /\ tmp' = None
  /\ IF apc \in {"renewed", "archived"} THEN Give(Unpublished) ELSE UNCHANGED lost
  /\ UNCHANGED <<records, analysis_offset, dir, renew, web>>

-----------------------------------------------------------------------------
(* loadResultTar: a user's letter is complete when the next header comes.     *)

NoReader == [curName |-> NoUser, headerText |-> NoUser, bodyText |-> NoUser, letters |-> {}]

(* action: the text of a letter is told by the user it was written for.       *)
Flush(reader) ==
  IF reader.curName = NoUser
    THEN reader
    ELSE [reader EXCEPT !.letters =
            @ \union {[name |-> reader.curName, headerText |-> reader.headerText,
                       bodyText |-> reader.bodyText]}]

Header(reader, user) ==
  [IF user # reader.curName THEN Flush(reader) ELSE reader
     EXCEPT !.curName = user, !.headerText = user]

ReadEntry(reader, file) ==
  CASE file.ext = "header" -> Header(reader, file.user)
    [] file.ext = "mail" -> [reader EXCEPT !.bodyText = file.user]
    [] file.ext = "empty" -> [reader EXCEPT !.curName = NoUser]

(* The last letter is not written out after the loop. *)
NoLastLetter(archive) ==
  [about |-> archive.about,
   letters |-> FoldLeft(ReadEntry, NoReader, archive.entries).letters,
   whole |-> TRUE]

LoadResultTar(archive) ==
  [about |-> archive.about,
   letters |-> Flush(FoldLeft(ReadEntry, NoReader, archive.entries)).letters,
   whole |-> TRUE]

(* An error after n files: what was flushed is in the new entry of Results.    *)
LoadUntil(archive, n) ==
  [about |-> archive.about,
   letters |-> FoldLeft(ReadEntry, NoReader, SubSeq(archive.entries, 1, n)).letters,
   whole |-> FALSE]

(* None is no archive, and nothing that is made of one.                        *)
ASSUME NoneAssumption ==
  \A about \in SUBSET Records : \A archive \in Archives(about) :
    /\ None # archive /\ None # LoadResultTar(archive)
    /\ \A n \in DOMAIN archive.entries : None # LoadUntil(archive, n)

(* A period that is served is not loaded again. *)
LoadOnce(p) ==
  /\ Results' = IF p \in resultsAvailable THEN Results
                ELSE [Results EXCEPT ![p] = LoadResultTar(dir[p])]
  /\ resultsAvailable' = resultsAvailable \union {p}
  /\ UNCHANGED faults

Load(p) ==
  /\ Results' = [Results EXCEPT ![p] = LoadResultTar(dir[p])]
  /\ resultsAvailable' = resultsAvailable \union {p}
  /\ UNCHANGED faults

LoadFails(p) ==
  /\ Fault
  /\ \E n \in DOMAIN dir[p].entries :
       Results' = [Results EXCEPT ![p] = LoadUntil(dir[p], n)]
  /\ UNCHANGED resultsAvailable

-----------------------------------------------------------------------------
(* The web server.                                                            *)

ReadDir ==
  /\ wpc = "down"
  /\ wpc' = "load"
  /\ dirlist' = {p \in Periods : dir[p] # None}
  /\ UNCHANGED <<records, analysis_offset, analysis, files, lost, events, Results,
                 resultsAvailable, faults>>

LoadListed(p) ==
  /\ wpc = "load"
  /\ p \in dirlist
  /\ Load(p) \/ LoadFails(p)
  /\ dirlist' = dirlist \ {p}
  /\ UNCHANGED <<records, analysis_offset, analysis, files, lost, wpc, events>>

AddWatch ==
  /\ wpc = "load"
  /\ dirlist = {}
  /\ wpc' = "wait"
  /\ UNCHANGED <<records, analysis_offset, analysis, files, lost, dirlist, events,
                 Results, resultsAvailable, faults>>

(* Under the lock: requests see Results before or after.                      *)
Reload ==
  /\ wpc = "wait"
  /\ events # <<>>
  /\ Load(Head(events)) \/ LoadFails(Head(events))
  /\ wpc' = "remove"
  /\ UNCHANGED <<records, analysis_offset, analysis, files, lost, dirlist, events>>

RemoveRenew ==
  /\ wpc = "remove"
  /\ renew' = renew \ {Head(events)}
  /\ events' = Tail(events)
  /\ wpc' = "wait"
  /\ UNCHANGED <<records, analysis_offset, analysis, tmp, dir, lost, dirlist,
                 Results, resultsAvailable, faults>>

CrashWeb ==
  /\ wpc # "down"
  /\ Fault
  /\ wpc' = "down"
  /\ dirlist' = {}
  /\ events' = <<>>
  /\ Results' = [p \in Periods |-> None]
  /\ resultsAvailable' = {}
  /\ UNCHANGED <<records, analysis_offset, analysis, files, lost>>

(* getReport and listPeriods, for a user who is not an administrator.         *)
Report(user, p) ==
  IF p \in resultsAvailable
    THEN {l \in Results[p].letters : l.name = user}
    ELSE {}

-----------------------------------------------------------------------------

(* The round in the order of the code.                                        *)
Analyze ==
  \/ RenewOffset
  \/ Tar
  \/ Rename
  \/ Notify

AnalyzeFails ==
  \/ RenewFails
  \/ ListFails
  \/ TarFails

Web ==
  \/ ReadDir
  \/ \E p \in Periods : LoadListed(p)
  \/ AddWatch
  \/ Reload
  \/ RemoveRenew

-----------------------------------------------------------------------------
(* Properties.                                                                *)

(* What each archive should hold, and what it should be served as.            *)
Letters(about) ==
  {[name |-> u, headerText |-> u, bodyText |-> u] : u \in Told(about)}

ReportsTypeOK ==
  /\ records \in 0 .. MaxRecords
  /\ analysis_offset \in 0 .. records
  /\ offset_start \in 0 .. records /\ offset_end \in offset_start .. records
  /\ next_period_update \in {"unset", "ahead", "past"}
  /\ apc \in {"down", "idle", "renewed", "archived", "renamed"}
  /\ apc = "archived" => tmp # None
  /\ \A p \in Periods : dir[p] # None => dir[p].about \subseteq 1 .. records
  /\ renew \subseteq {p \in Periods : dir[p] # None}
  /\ lost \subseteq 1 .. records
  /\ wpc \in {"down", "load", "wait", "remove"}
  /\ Range(events) \subseteq renew
  /\ IsInjective(events)
  /\ \A p \in resultsAvailable : Results[p] # None

(* An archive that is visible is complete: all letters of its users are in    *)
(* it, whatever became of earlier runs of tar (analyzer.cpp:874).             *)
VisibleWhole ==
  \A p \in Periods : dir[p] # None =>
    {e.user : e \in {f \in Range(dir[p].entries) : f.ext = "mail"}}
      = {Owner[r] : r \in dir[p].about}

(* A period that is closed leaves nothing behind: each measurement up to the  *)
(* committed offset is in an archive, or the round that closed its period did *)
(* not get to publish it.                                                     *)
PeriodsCover ==
  apc \notin {"renewed", "archived"} =>
    1 .. analysis_offset \subseteq Published \union lost

(* Publishing a period again adds to it.  The exception is a first renewal    *)
(* that fails: it replaces the archive of period 0 with an empty one.         *)
NeverShrinks ==
  [][\A p \in Periods :
       \/ dir[p] = None
       \/ dir[p].about \subseteq dir'[p].about
       \/ p = 0 /\ offset_end = 0]_dir

(* Each user gets the letter that was written for him, and only when there is *)
(* something to tell: files of different users are never put together, and    *)
(* the last one of an archive is not forgotten (main.go:195-251).             *)
SeenRight ==
  \A p \in resultsAvailable : Results[p].whole =>
    \A u \in Users : Report(u, p) = {l \in Letters(Results[p].about) : l.name = u}

Current(p) ==
  /\ p \in resultsAvailable
  /\ Results[p].about = dir[p].about
  /\ Results[p].whole

(* A publication the web server is notified of is served in the end, though   *)
(* the analyzer may replace the file meanwhile.                               *)
Waiting == IF wpc = "remove" THEN Tail(events) ELSE events

Notified ==
  \A p \in Periods :
    p \in Range(Waiting) ~> Current(p) \/ faults > 0

(* README.md:3-8: reports "can be ... checked on-demand through a website".   *)
(* While the analyzer and the web server run, what is served for a period     *)
(* catches up with what is published.                                         *)
QuietServed == \A p \in Periods : dir[p] # None ~> Current(p)

=============================================================================
