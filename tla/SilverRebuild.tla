--------------------------- MODULE SilverRebuild ---------------------------
(***************************************************************************)
(* From bronze to gold (dataeng): objects land in the bucket; the sensor   *)
(* requests a rebuild of each date it has not seen, the backfill job       *)
(* rebuilds all of them, and each rebuild (transform_symbol_date) lists    *)
(* and reads the objects of its date, globs the old part-files, removes    *)
(* them one by one and writes its own, which has its final name from the   *)
(* moment it is opened.  Several runs may be at work on one date: nothing  *)
(* locks a partition.  The gold build reads every part-file.               *)
(*                                                                         *)
(* One symbol, which the ingestor and the partitions both have from the    *)
(* settings.  An object is a key and a set of lines; keys are uuids, so    *)
(* any free key may be next, and the listing is in the order of the keys.  *)
(* A line may be in several objects (a PUT that was repeated).  Objects    *)
(* are never changed or deleted, so listing and reading them is one step.  *)
(***************************************************************************)
EXTENDS Integers, FiniteSetsExt

CONSTANTS
    Dates,          \* the dates, as numbers
    Lines,          \* raw lines, as numbers: the order they came in
    DateOf,         \* the date a line was received
    Rejected,       \* lines that normalize to no tick
    Unreadable,     \* lines whose time does not parse: normalize raises
    Keys,           \* object keys, as numbers
    LinesPerObject, \* bound: lines of an object
    Runs,           \* runs of the asset or of the backfill job at a time
    MaxBackfills,   \* bound: backfill jobs started
    MaxCrashes      \* bound: runs that die

ASSUME SilverAssumption ==
    /\ Dates \subseteq Nat /\ Dates # {} /\ Lines \subseteq Nat /\ Keys \subseteq Nat
    /\ DateOf \in [Lines -> Dates]
    /\ Rejected \subseteq Lines /\ Unreadable \subseteq Lines
    /\ {LinesPerObject, MaxBackfills, MaxCrashes} \subseteq Nat

VARIABLES
    today,          \* the running day
    objects,        \* the bucket
    silver,         \* part-files of each date
    cursor,         \* the sensor's cursor: dates requested
    queue,          \* requested and not started yet
    launched,       \* auxiliary: how often the asset was started for each date
    step,           \* where each run is
    job,            \* what it is a run of: the asset or the backfill job
    date,           \* the date it rebuilds
    rest,           \* the dates a backfill still has to do
    rows,           \* the rows it has normalised
    stale,          \* the names its glob returned
    outPath,        \* the name of the part-file it is writing, if it is
    gold,           \* result of the last dbt build
    backfills,      \* backfill jobs started so far
    crashes,        \* runs that died so far
    filled,         \* auxiliary: dates that have had a part-file
    emptied,        \* auxiliary: dates a rebuild of which ended past its glob without a file
    overtaken,      \* auxiliary: runs whose date got a file of another run since their glob
    raced           \* auxiliary: dates whose last file a run that was overtaken has opened

runVars == <<step, job, date, rest, rows, stale, outPath>>
sensorVars == <<cursor, queue, launched>>
ghostVars == <<filled, emptied, overtaken, raced>>
auxVars == <<backfills, crashes, ghostVars>>
vars == <<today, objects, silver, sensorVars, runVars, gold, auxVars>>

Steps == {"idle", "list", "glob", "remove", "write", "fill", "build"}
Row == [line : Lines, sequence : Nat]

(* A part-file without rows is one that is not complete: being written, or *)
(* cut short by the death of its run.                                      *)
TypeOK ==
    /\ today \in Nat
    /\ objects \subseteq [key : Keys, lines : SUBSET Lines]
    /\ silver \in [Dates -> SUBSET [name : Nat, rows : SUBSET Row]]
    /\ cursor \subseteq Dates /\ queue \subseteq Dates
    /\ launched \in [Dates -> Nat]
    /\ step \in [Runs -> Steps]
    /\ job \in [Runs -> {"silver_ticks", "batch_backfill_job"}]
    /\ date \in [Runs -> Dates]
    /\ rest \in [Runs -> SUBSET Dates]
    /\ rows \in [Runs -> SUBSET Row]
    /\ stale \in [Runs -> SUBSET Nat] /\ outPath \in [Runs -> SUBSET Nat]
    /\ \A r \in Runs : step[r] # "idle" => rest[r] \subseteq {d \in Dates : d > date[r]}
    /\ gold \in {"none", "built", "duplicate tick_id", "read error"}
    /\ backfills \in 0 .. MaxBackfills /\ crashes \in 0 .. MaxCrashes
    /\ filled \cup emptied \cup raced \subseteq Dates /\ overtaken \subseteq Runs

Init ==
    /\ today = Min(Dates)
    /\ objects = {}
    /\ silver = [d \in Dates |-> {}]
    /\ cursor = {} /\ queue = {} /\ launched = [d \in Dates |-> 0]
    /\ step = [r \in Runs |-> "idle"]
    /\ job = [r \in Runs |-> "silver_ticks"]
    /\ date = [r \in Runs |-> Min(Dates)]
    /\ rest = [r \in Runs |-> {}]
    /\ rows = [r \in Runs |-> {}]
    /\ stale = [r \in Runs |-> {}]
    /\ outPath = [r \in Runs |-> {}]
    /\ gold = "none"
    /\ backfills = 0 /\ crashes = 0
    /\ filled = {} /\ emptied = {} /\ overtaken = {} /\ raced = {}

ObjectsOf(d) == {o \in objects : \E l \in o.lines : DateOf[l] = d}
LinesOf(objs) == UNION {o.lines : o \in objs}
NamesOf(d) == {f.name : f \in silver[d]}
(* discover_bronze_partitions *)
Available == {d \in Dates : ObjectsOf(d) # {}}

(* The daily partitions of silver: the days that are over. *)
Ended == {d \in Dates : d < today}

-----------------------------------------------------------------------------
(* The calendar, which the model leaves the day after the last date. *)
Midnight ==
    /\ \E d \in Dates : today <= d
    /\ today' = today + 1
    /\ UNCHANGED <<objects, silver, sensorVars, runVars, gold, auxVars>>

(* A flush of the bronze writer: a new object of one date, which may be    *)
(* over by then.                                                           *)
Land ==
    /\ \E key \in Keys \ {o.key : o \in objects}, lines \in SUBSET Lines :
        /\ lines # {} /\ IsFiniteSet(lines) /\ Cardinality(lines) <= LinesPerObject
        /\ Cardinality({DateOf[l] : l \in lines}) = 1
        /\ \A l \in lines : DateOf[l] <= today
        /\ objects' = objects \cup {[key |-> key, lines |-> lines]}
    /\ UNCHANGED <<today, silver, sensorVars, runVars, gold, auxVars>>

-----------------------------------------------------------------------------
(* Faulty variants of definitions below, to test the properties against. *)
SenseSkipping ==
    LET fresh == Available \ cursor
    IN  /\ fresh # {}
        /\ cursor' = Available
        /\ queue' = queue \cup (fresh \cap Ended)
        /\ UNCHANGED <<today, objects, silver, launched, runVars, gold, auxVars>>

GoldRowsDistinct == {<<0, row>> : row \in UNION {f.rows : f \in UNION {silver[d] : d \in Dates}}}

RowsOfEveryCopy(objs) ==
    LET copies == UNION {{<<o.key, l>> : l \in o.lines \ Rejected} : o \in objs}
        Before(a, b) == a[1] < b[1] \/ (a[1] = b[1] /\ a[2] <= b[2])
    IN  {[line |-> c[2], sequence |-> Cardinality({b \in copies : Before(b, c)})] : c \in copies}

-----------------------------------------------------------------------------
(* new_bronze_partition_sensor: one request per date it has not seen.  The *)
(* keys of all the requests are looked up in the partitions before any is  *)
(* accepted and the cursor stored.                                         *)
Sense ==
    LET fresh == Available \ cursor
    IN  /\ fresh # {} /\ fresh \subseteq Ended
        /\ cursor' = Available
        /\ queue' = queue \cup fresh
        /\ UNCHANGED <<today, objects, silver, launched, runVars, gold, auxVars>>

(* One key without a partition, that of the running day: the evaluation    *)
(* raises, nothing is requested and the cursor stays as it was.            *)
SenseFails ==
    /\ ~(Available \ cursor \subseteq Ended)
    /\ UNCHANGED vars

(* Dagster starts a run of silver_ticks for a request. *)
Launch(r) ==
    /\ step[r] = "idle"
    /\ \E d \in queue :
        /\ date' = [date EXCEPT ![r] = d]
        /\ queue' = queue \ {d}
        /\ launched' = [launched EXCEPT ![d] = @ + 1]
    /\ job' = [job EXCEPT ![r] = "silver_ticks"]
    /\ step' = [step EXCEPT ![r] = "list"]
    /\ UNCHANGED <<today, objects, silver, cursor, rest, rows, stale, outPath, gold, auxVars>>

(* batch_backfill_job: every date that is there, one after the other.      *)
Backfill(r) ==
    /\ step[r] = "idle"
    /\ backfills < MaxBackfills
    /\ backfills' = backfills + 1
    /\ Available # {}
    /\ date' = [date EXCEPT ![r] = Min(Available)]
    /\ rest' = [rest EXCEPT ![r] = Available \ {Min(Available)}]
    /\ job' = [job EXCEPT ![r] = "batch_backfill_job"]
    /\ step' = [step EXCEPT ![r] = "list"]
    /\ UNCHANGED <<today, objects, silver, sensorVars, rows, stale, outPath, gold,
                   crashes, ghostVars>>

-----------------------------------------------------------------------------
(* The lines in the order they are read, each where it is seen first, and  *)
(* the sequences a new ingestor's normalize gives to those that are ticks. *)
FirstKey(objs, l) == Min({o.key : o \in {q \in objs : l \in q.lines}})

TicksOf(objs) == LinesOf(objs) \ Rejected
SeenBefore(objs, k, l) ==
    \/ FirstKey(objs, k) < FirstKey(objs, l)
    \/ FirstKey(objs, k) = FirstKey(objs, l) /\ k <= l
Rank(objs, l) == Cardinality({k \in TicksOf(objs) : SeenBefore(objs, k, l)})

RowsOf(objs) == {[line |-> l, sequence |-> Rank(objs, l)] : l \in TicksOf(objs)}

(* The run is over, and what it knew is gone. *)
End(r) ==
    /\ step' = [step EXCEPT ![r] = "idle"]
    /\ job' = [job EXCEPT ![r] = "silver_ticks"]
    /\ date' = [date EXCEPT ![r] = Min(Dates)]
    /\ rest' = [rest EXCEPT ![r] = {}]
    /\ rows' = [rows EXCEPT ![r] = {}]
    /\ stale' = [stale EXCEPT ![r] = {}]
    /\ outPath' = [outPath EXCEPT ![r] = {}]

(* An exception, or the death of its process, ends the run; a backfill    *)
(* with all it still had to do.                                            *)
Fail(r) ==
    /\ emptied' = IF step[r] \in {"remove", "write", "fill"}
                  THEN emptied \cup {date[r]} ELSE emptied
    /\ overtaken' = overtaken \ {r}
    /\ End(r)
    /\ UNCHANGED <<filled, raced>>

(* Faulty: the old files removed before the lines are normalised. *)
ListFailsCleared(r) ==
    /\ step[r] = "list"
    /\ LinesOf(ObjectsOf(date[r])) \cap Unreadable # {}
    /\ silver' = [silver EXCEPT ![date[r]] = {}]
    /\ Fail(r)
    /\ UNCHANGED <<today, objects, sensorVars, gold, backfills, crashes>>

(* Faulty, and how it was before the clearing was added: no file removed.  *)
GlobNothing(r) ==
    /\ step[r] = "glob"
    /\ step' = [step EXCEPT ![r] = "write"]
    /\ UNCHANGED <<today, objects, silver, sensorVars, job, date, rest, rows, stale, outPath, gold, auxVars>>

(* list_bronze_objects, read_bronze_lines, dedupe and normalise.  Only     *)
(* JSON errors are caught; the old files are still in place.               *)
Legible(d) == LinesOf(ObjectsOf(d)) \cap Unreadable = {}

List(r) ==
    /\ step[r] = "list"
    /\ Legible(date[r])
    /\ step' = [step EXCEPT ![r] = "glob"]
    /\ rows' = [rows EXCEPT ![r] = RowsOf(ObjectsOf(date[r]))]
    /\ UNCHANGED <<today, objects, silver, sensorVars, job, date, rest, stale, outPath, gold, auxVars>>

ListFails(r) ==
    /\ step[r] = "list"
    /\ ~Legible(date[r])
    /\ Fail(r)
    /\ UNCHANGED <<today, objects, silver, sensorVars, gold, backfills, crashes>>

Glob(r) ==
    /\ step[r] = "glob"
    /\ stale' = [stale EXCEPT ![r] = NamesOf(date[r])]
    /\ step' = [step EXCEPT ![r] = IF stale'[r] = {} THEN "write" ELSE "remove"]
    /\ UNCHANGED <<today, objects, silver, sensorVars, job, date, rest, rows, outPath, gold,
                   auxVars>>

(* os.remove of one of the files the glob has returned, whoever wrote it   *)
(* and whether or not it is complete.                                      *)
Remove(r) ==
    /\ step[r] = "remove"
    /\ \E n \in stale[r] \cap NamesOf(date[r]) :
        /\ silver' = [silver EXCEPT ![date[r]] = {f \in @ : f.name # n}]
        /\ stale' = [stale EXCEPT ![r] = @ \ {n}]
    /\ step' = [step EXCEPT ![r] = IF stale'[r] = {} THEN "write" ELSE "remove"]
    /\ UNCHANGED <<today, objects, sensorVars, job, date, rest, rows, outPath, gold, auxVars>>

(* Another run has removed it: FileNotFoundError. *)
RemoveFails(r) ==
    /\ step[r] = "remove"
    /\ stale[r] \ NamesOf(date[r]) # {}
    /\ Fail(r)
    /\ UNCHANGED <<today, objects, silver, sensorVars, gold, backfills, crashes>>

(* Faulty: the date just taken up stays on the list. *)
FinishRepeating(r) ==
    /\ rest[r] # {}
    /\ date' = [date EXCEPT ![r] = Min(rest[r])]
    /\ step' = [step EXCEPT ![r] = "list"]
    /\ rows' = [rows EXCEPT ![r] = {}]
    /\ UNCHANGED <<job, rest, stale, outPath>>

(* The rebuild is done: the run of the asset is over, a backfill goes on   *)
(* to its next date and after the last one to its gold build.              *)
NextDate(r) ==
    /\ rest[r] # {}
    /\ date' = [date EXCEPT ![r] = Min(rest[r])]
    /\ rest' = [rest EXCEPT ![r] = @ \ {Min(@)}]
    /\ step' = [step EXCEPT ![r] = "list"]
    /\ rows' = [rows EXCEPT ![r] = {}]
    /\ outPath' = [outPath EXCEPT ![r] = {}]
    /\ UNCHANGED <<job, stale>>

LastDate(r) ==
    /\ rest[r] = {} /\ job[r] = "batch_backfill_job"
    /\ step' = [step EXCEPT ![r] = "build"]
    /\ rows' = [rows EXCEPT ![r] = {}]
    /\ outPath' = [outPath EXCEPT ![r] = {}]
    /\ UNCHANGED <<job, date, rest, stale>>

Finish(r) ==
    \/ NextDate(r)
    \/ LastDate(r)
    \/ job[r] = "silver_ticks" /\ End(r)

(* A uuid: a name no file has, and none that a run is to remove or writes. *)
FreshName(d) ==
    LET used == NamesOf(d) \cup UNION {stale[r] \cup outPath[r] : r \in Runs}
    IN  Min((0 .. Cardinality(used)) \ used)

(* No tick at all: no file is written. *)
WriteNothing(r) ==
    /\ step[r] = "write" /\ rows[r] = {}
    /\ emptied' = emptied \cup {date[r]}
    /\ overtaken' = overtaken \ {r}
    /\ Finish(r)
    /\ UNCHANGED <<today, objects, silver, sensorVars, gold, backfills, crashes,
                   filled, raced>>

(* pq.write_table opens the file under its final name, where a glob and    *)
(* gold see it,                                                            *)
OpenFile(r) ==
    LET d == date[r]
        n == FreshName(d)
    IN  /\ step[r] = "write" /\ rows[r] # {}
        /\ silver' = [silver EXCEPT ![d] = @ \cup {[name |-> n, rows |-> {}]}]
        /\ outPath' = [outPath EXCEPT ![r] = {n}]
        /\ step' = [step EXCEPT ![r] = "fill"]
        /\ overtaken' = (overtaken \ {r}) \cup
                {s \in Runs \ {r} : date[s] = d /\ step[s] \in {"remove", "write"}}
        /\ raced' = IF r \in overtaken THEN raced \cup {d} ELSE raced \ {d}
        /\ UNCHANGED <<today, objects, sensorVars, job, date, rest, rows, stale, gold,
                       backfills, crashes, filled, emptied>>

(* and closes it complete, although another run may have removed it.       *)
CloseFile(r) ==
    LET d == date[r]
    IN  /\ step[r] = "fill"
        /\ silver' = [silver EXCEPT ![d] =
                {IF f.name \in outPath[r] THEN [f EXCEPT !.rows = rows[r]] ELSE f : f \in @}]
        /\ IF outPath[r] \subseteq NamesOf(d)
           THEN filled' = filled \cup {d} /\ UNCHANGED emptied
           ELSE emptied' = emptied \cup {d} /\ UNCHANGED filled
        /\ Finish(r)
        /\ UNCHANGED <<today, objects, sensorVars, gold, backfills, crashes, overtaken, raced>>

(* The run dies, or raises: a file it is writing stays as far as it is, or *)
(* write_table has removed it again.                                       *)
Crash(r) ==
    /\ step[r] # "idle"
    /\ crashes < MaxCrashes
    /\ crashes' = crashes + 1
    /\ \/ UNCHANGED silver
       \/ silver' = [silver EXCEPT ![date[r]] = {f \in @ : f.name \notin outPath[r]}]
    /\ Fail(r)
    /\ UNCHANGED <<today, objects, sensorVars, gold, backfills>>

-----------------------------------------------------------------------------
(* dbt build over every part-file: it cannot read a file that is not       *)
(* complete, nor a glob without any.  fct_ticks has a row per row, with    *)
(* symbol and sequence as its key, and a test that the key is unique.      *)
PartFiles == UNION {silver[d] : d \in Dates}
GoldRows == UNION {{<<f.name, row>> : row \in f.rows} : f \in PartFiles}
Readable == PartFiles # {} /\ \A f \in PartFiles : f.rows # {}
KeyIsUnique == Cardinality({g[2].sequence : g \in GoldRows}) = Cardinality(GoldRows)

BuildGold ==
    gold' = IF ~Readable THEN "read error"
            ELSE IF KeyIsUnique THEN "built" ELSE "duplicate tick_id"

Build(r) ==
    /\ step[r] = "build"
    /\ BuildGold
    /\ End(r)
    /\ UNCHANGED <<today, objects, silver, sensorVars, auxVars>>

(* gold_tables, materialised by hand. *)
MaterializeGold ==
    /\ BuildGold
    /\ UNCHANGED <<today, objects, silver, sensorVars, runVars, auxVars>>

Step(r) ==
    \/ List(r) \/ ListFails(r) \/ Glob(r) \/ Remove(r) \/ RemoveFails(r)
    \/ WriteNothing(r) \/ OpenFile(r) \/ CloseFile(r) \/ Build(r)

Next ==
    \/ Midnight \/ Land \/ Sense \/ SenseFails \/ MaterializeGold
    \/ \E r \in Runs : Launch(r) \/ Backfill(r) \/ Step(r) \/ Crash(r)

Spec == Init /\ [][Next]_vars

(* Dagster evaluates the sensor, starts what is queued when a slot is free *)
(* and the processes of the runs make progress.                            *)
Fairness ==
    /\ WF_vars(Sense)
    /\ WF_vars(\E r \in Runs : Launch(r))
    /\ \A r \in Runs : WF_vars(Step(r))

FairSpec == Spec /\ Fairness

-----------------------------------------------------------------------------
(* "Re-materializing a partition [...] must replace the partition's        *)
(* output, not append a second file alongside it": there are two           *)
(* part-files only where the last one was opened by a run that another had *)
(* overtaken between its glob and its write.  A rerun, a crash or a        *)
(* failure never leaves a second one, and the next rebuild that is not     *)
(* overtaken puts things right.                                            *)
RerunReplaces == \A d \in Dates : Cardinality(silver[d]) > 1 => d \in raced

(* A complete part-file holds the ticks of whole objects, each of them     *)
(* once and numbered from 1 without holes, however often a line has        *)
(* landed; one that is not complete is being written or is what a run that *)
(* died has left.                                                          *)
FilesAreExact ==
    \A d \in Dates : \A f \in silver[d] :
        IF f.rows = {}
        THEN crashes > 0 \/ \E r \in Runs : date[r] = d /\ f.name \in outPath[r]
        ELSE LET lines == {row.line : row \in f.rows}
             IN  /\ \E objs \in SUBSET ObjectsOf(d) : lines = TicksOf(objs)
                 /\ Cardinality(f.rows) = Cardinality(lines)
                 /\ {row.sequence : row \in f.rows} = 1 .. Cardinality(lines)
                 /\ lines \cap Unreadable = {}

(* A partition that has had a complete file is without one only while a    *)
(* run is between its glob and the end of its write, or after one ended    *)
(* there without a file: it failed, or what it had listed held no tick, or *)
(* another had removed the file it was writing.  A rebuild that meets an   *)
(* unreadable line leaves the old file.                                    *)
FailureKeepsPartition ==
    \A d \in filled :
        (\A f \in silver[d] : f.rows = {}) =>
            \/ d \in emptied
            \/ \E r \in Runs : date[r] = d /\ step[r] \in {"remove", "write", "fill"}

(* "The cursor is just the set of partitions already requested, so a       *)
(* restart doesn't re-trigger everything": no date is requested twice, and *)
(* what waits in the queue has been requested.                             *)
RequestedOnce ==
    /\ \A d \in Dates : launched[d] <= IF d \in cursor \ queue THEN 1 ELSE 0
    /\ queue \subseteq cursor

(* A date with ticks gets its part-file, once the days that have landed    *)
(* are over for good: until then the running day's key makes every         *)
(* evaluation of the sensor fail.  There is one request, so the promise    *)
(* ends with the death of a run, a line that does not parse, and an object *)
(* without a tick, which may be all that its run finds.                    *)
Fillable(d) ==
    Legible(d) /\ \A o \in ObjectsOf(d) : ~(o.lines \subseteq Rejected)

LandedIsRebuilt ==
    <>[](Available \subseteq Ended) =>
        \A d \in Dates : (d \in Available) ~> (d \in filled \/ crashes > 0 \/ ~Fillable(d))

(* "Surrogate key: symbol || '-' || sequence", tested unique.              *)
GoldKeyIsUnique == gold # "duplicate tick_id"

(* A gold build passes exactly when there is one part-file in all, and it  *)
(* is complete: a second date, or a second file of a date, begins its      *)
(* numbers at 1 again.                                                     *)
OneWholeFile ==
    \E d \in Dates : \E f \in silver[d] :
        f.rows # {} /\ \A e \in Dates : \A g \in silver[e] : e = d /\ g = f

GoldNeedsOneFile == [][BuildGold => (gold' = "built" <=> OneWholeFile)]_vars
=============================================================================
