------------------------ MODULE SilverRebuildProofs ------------------------
(***************************************************************************)
(* Proofs about SilverRebuild for any dates, lines and keys and any number *)
(* of runs at work on a date: type correctness, that a rerun replaces the  *)
(* files of its date, that a failure keeps them, that a date is requested  *)
(* once, that a complete file has the ticks of whole objects, and when a   *)
(* gold build passes.                                                      *)
(***************************************************************************)
EXTENDS SilverRebuild, FiniteSetTheorems, TLAPS

(* The assumptions on the constants, in the form the proofs use. *)
LEMMA Constants ==
    /\ Dates \subseteq Nat /\ Dates # {} /\ Lines \subseteq Nat /\ Keys \subseteq Nat
    /\ DateOf \in [Lines -> Dates]
    /\ Rejected \subseteq Lines /\ Unreadable \subseteq Lines
    /\ MaxBackfills \in Nat /\ MaxCrashes \in Nat
BY SilverAssumption

USE Constants

-----------------------------------------------------------------------------
(* The inductive invariants. *)

AllNames == UNION {stale[r] \cup outPath[r] : r \in Runs}

(* Only finitely many files and lines are there, and a run that is over    *)
(* has no date left to do.                                                 *)
TypeInv ==
    /\ TypeOK
    /\ \A d \in Dates : IsFiniteSet(silver[d])
    /\ IsFiniteSet(AllNames)
    /\ IsFiniteSet(LinesOf(objects))
    /\ \A r \in Runs : step[r] = "idle" => rest[r] = {}

PastGlob(r, d) == date[r] = d /\ step[r] \in {"remove", "write"}

(* What a run has still to remove of its date includes every file there    *)
(* is, unless another run has overtaken it.                                *)
ReplaceInv ==
    /\ \A r \in Runs : step[r] = "write" => stale[r] = {}
    /\ \A r \in Runs \ overtaken, d \in Dates : PastGlob(r, d) => NamesOf(d) \subseteq stale[r]
    /\ RerunReplaces

(* A run has a file open exactly while it writes one, with rows in it, and *)
(* a name is taken once in a date.                                         *)
WriteInv ==
    /\ \A r \in Runs : step[r] # "fill" => outPath[r] = {}
    /\ \A r \in Runs : step[r] = "fill" => rows[r] # {} /\ outPath[r] # {}
    /\ \A d \in Dates : \A f, g \in silver[d] : f.name = g.name => f = g

(* A date the sensor has asked for stays one that is there. *)
RequestInv == RequestedOnce /\ cursor \subseteq Available

(* The rows of a rebuild that listed these objects. *)
RowsFrom(bucket, rs, d) ==
    \E objs \in SUBSET bucket :
        /\ \A o \in objs : \E l \in o.lines : DateOf[l] = d
        /\ rs = RowsOf(objs) /\ LinesOf(objs) \cap Unreadable = {}

(* What a run carries from its listing to its write, and what a complete   *)
(* file holds, are the rows of objects of the date; a file that is not     *)
(* complete is being written, or a run has died.                           *)
ExactInv ==
    /\ \A r \in Runs :
          step[r] \in {"glob", "remove", "write", "fill"} => RowsFrom(objects, rows[r], date[r])
    /\ \A d \in Dates : \A f \in silver[d] : f.rows # {} => RowsFrom(objects, f.rows, d)
    /\ \A d \in Dates : \A f \in silver[d] :
          f.rows = {} => crashes > 0 \/ \E r \in Runs : date[r] = d /\ f.name \in outPath[r]

-----------------------------------------------------------------------------
(* Facts about the operators. *)

LEMMA MinProperties ==
    ASSUME NEW S \in SUBSET Nat, S # {}
    PROVE  Min(S) \in S /\ \A m \in S : Min(S) <= m
<1> DEFINE R == {ss \in Nat \X Nat : ss[1] < ss[2]}
<1>1. R = OpToRel(<, Nat)
    BY DEF OpToRel
<1>2. IsWellFoundedOn(R, Nat)
    BY <1>1, NatLessThanWellFounded
<1> HIDE DEF R
<1>3. PICK x \in S : \A y \in S : ~(<<y, x>> \in R)
    BY <1>2, WFMin
<1>4. ASSUME NEW y \in S PROVE x <= y
    <2>1. <<y, x>> \in Nat \X Nat /\ <<y, x>>[1] = y /\ <<y, x>>[2] = x
        OBVIOUS
    <2>2. ~(y < x)
        BY <1>3, <2>1 DEF R
    <2> QED
        BY <2>1, <2>2
<1> QED
    BY <1>4 DEF Min

(* A set of dates, its least element, and what comes after it. *)
LEMMA MinOfDates ==
    ASSUME NEW S \in SUBSET Dates, S # {}
    PROVE  Min(S) \in Dates /\ S \ {Min(S)} \subseteq {d \in Dates : d > Min(S)}
<1>1. S \in SUBSET Nat
    OBVIOUS
<1>2. Min(S) \in S /\ \A m \in S : Min(S) <= m
    BY <1>1, MinProperties
<1>3. ASSUME NEW m \in S \ {Min(S)} PROVE m \in Dates /\ m > Min(S)
    <2>1. m \in Nat /\ Min(S) \in Nat /\ Min(S) <= m /\ m # Min(S)
        BY <1>1, <1>2
    <2> QED
        BY <2>1
<1> QED
    BY <1>2, <1>3

(* A part-file always finds a name that is free. *)
LEMMA FreshNameIsFree ==
    ASSUME NEW d, IsFiniteSet(silver[d]), IsFiniteSet(AllNames)
    PROVE  FreshName(d) \in Nat /\ FreshName(d) \notin NamesOf(d)
<1> DEFINE name == [f \in silver[d] |-> f.name]
           used == NamesOf(d) \cup AllNames
<1>1. name \in Surjection(silver[d], NamesOf(d))
    BY DEF Surjection, NamesOf
<1>2. IsFiniteSet(NamesOf(d))
    BY <1>1, FS_Surjection
<1>3. IsFiniteSet(used)
    BY <1>2, FS_Union
<1> HIDE DEF used
<1>4. Cardinality(used) \in Nat
    BY <1>3, FS_CardinalityType
<1> DEFINE n == Cardinality(used)
<1>5. Cardinality(0 .. n) = n + 1
    BY <1>4, FS_Interval
<1>6. ~(0 .. n \subseteq used)
    <2>1. ASSUME 0 .. n \subseteq used PROVE Cardinality(0 .. n) <= n
        BY <1>3, <2>1, FS_Subset
    <2> QED
        BY <1>4, <1>5, <2>1
<1>7. (0 .. n) \ used # {} /\ (0 .. n) \ used \in SUBSET Nat
    BY <1>6
<1>8. Min((0 .. n) \ used) \in (0 .. n) \ used
    BY <1>7, MinProperties
<1>9. FreshName(d) = Min((0 .. n) \ used)
    BY DEF FreshName, used, AllNames
<1>10. FreshName(d) \in Nat /\ FreshName(d) \notin used
    BY <1>4, <1>8, <1>9
<1> QED
    BY <1>10 DEF used

LEMMA LinesOfSome ==
    ASSUME TypeInv, NEW d, NEW objs \in SUBSET ObjectsOf(d)
    PROVE  objs \subseteq objects /\ IsFiniteSet(TicksOf(objs)) /\ TicksOf(objs) \subseteq Lines
<1>1. objs \subseteq objects
    BY DEF ObjectsOf
<1>2. TicksOf(objs) \in SUBSET LinesOf(objects)
    BY <1>1 DEF LinesOf, TicksOf
<1>3. \A o \in objects : o.lines \subseteq Lines
    BY DEF TypeInv, TypeOK
<1>4. LinesOf(objects) \subseteq Lines
    BY <1>3 DEF LinesOf
<1>5. IsFiniteSet(LinesOf(objects))
    BY DEF TypeInv
<1> QED
    BY <1>1, <1>2, <1>4, <1>5, FS_Subset

LEMMA LinesOfOneMore ==
    ASSUME NEW objs, NEW key, NEW lines
    PROVE  LinesOf(objs \cup {[key |-> key, lines |-> lines]}) = LinesOf(objs) \cup lines
<1> DEFINE new == [key |-> key, lines |-> lines]
<1>1. new.lines = lines
    OBVIOUS
<1> HIDE DEF new
<1>2. LinesOf(objs \cup {new}) = LinesOf(objs) \cup lines
    BY <1>1 DEF LinesOf
<1> QED
    BY <1>2 DEF new

LEMMA RankIsNatural ==
    ASSUME NEW objs, IsFiniteSet(TicksOf(objs)), NEW l
    PROVE  Rank(objs, l) \in Nat
<1>1. {k \in TicksOf(objs) : SeenBefore(objs, k, l)} \in SUBSET TicksOf(objs)
    OBVIOUS
<1> QED
    BY <1>1, FS_Subset, FS_CardinalityType DEF Rank

LEMMA RowsAreRows ==
    ASSUME TypeInv, NEW d \in Dates
    PROVE  RowsOf(ObjectsOf(d)) \subseteq Row
<1> DEFINE objs == ObjectsOf(d)
<1>1. IsFiniteSet(TicksOf(objs)) /\ TicksOf(objs) \subseteq Lines
    BY LinesOfSome
<1> HIDE DEF objs
<1>2. ASSUME NEW l \in TicksOf(objs) PROVE [line |-> l, sequence |-> Rank(objs, l)] \in Row
    BY <1>1, RankIsNatural DEF Row
<1>3. RowsOf(objs) \subseteq Row
    BY <1>2 DEF RowsOf
<1> QED
    BY <1>3 DEF objs

-----------------------------------------------------------------------------
(* Every reachable state is of the types the declarations announce. *)

LEMMA TypeInit == Init => TypeInv
<1> SUFFICES ASSUME Init PROVE TypeInv
    OBVIOUS
<1> USE DEF Init
<1>1. Min(Dates) \in Dates
    <2>1. Dates \in SUBSET Dates
        OBVIOUS
    <2> QED
        BY <2>1, MinOfDates
<1>2. TypeOK
    <2>1. today \in Nat /\ date \in [Runs -> Dates]
        BY <1>1
    <2>2. silver \in [Dates -> SUBSET [name : Nat, rows : SUBSET Row]]
        OBVIOUS
    <2>3. rows \in [Runs -> SUBSET Row] /\ rest \in [Runs -> SUBSET Dates]
        OBVIOUS
    <2>4. stale \in [Runs -> SUBSET Nat] /\ outPath \in [Runs -> SUBSET Nat]
        OBVIOUS
    <2>5. step \in [Runs -> Steps] /\ \A r \in Runs : step[r] = "idle"
        BY DEF Steps
    <2> QED
        BY <2>1, <2>2, <2>3, <2>4, <2>5 DEF TypeOK
<1>3. AllNames = {} /\ LinesOf(objects) = {}
    BY DEF AllNames, LinesOf
<1> QED
    BY <1>2, <1>3, FS_EmptySet DEF TypeInv

(* What the type invariant says of the runs. *)
RunTypes ==
    /\ step \in [Runs -> Steps]
    /\ job \in [Runs -> {"silver_ticks", "batch_backfill_job"}]
    /\ date \in [Runs -> Dates]
    /\ rest \in [Runs -> SUBSET Dates]
    /\ rows \in [Runs -> SUBSET Row]
    /\ \A r \in Runs : step[r] # "idle" => rest[r] \subseteq {d \in Dates : d > date[r]}
    /\ \A r \in Runs : step[r] = "idle" => rest[r] = {}

(* Of the names they have globbed or write under. *)
NameTypes ==
    /\ stale \in [Runs -> SUBSET Nat] /\ outPath \in [Runs -> SUBSET Nat]
    /\ IsFiniteSet(AllNames)

(* Of the part-files. *)
FileTypes ==
    /\ silver \in [Dates -> SUBSET [name : Nat, rows : SUBSET Row]]
    /\ \A d \in Dates : IsFiniteSet(silver[d])

(* And of the rest. *)
StoreTypes ==
    /\ today \in Nat
    /\ objects \subseteq [key : Keys, lines : SUBSET Lines]
    /\ cursor \subseteq Dates /\ queue \subseteq Dates
    /\ launched \in [Dates -> Nat]
    /\ gold \in {"none", "built", "duplicate tick_id", "read error"}
    /\ backfills \in 0 .. MaxBackfills /\ crashes \in 0 .. MaxCrashes
    /\ filled \cup emptied \cup raced \subseteq Dates /\ overtaken \subseteq Runs
    /\ IsFiniteSet(LinesOf(objects))

LEMMA TypeParts == TypeInv <=> RunTypes /\ NameTypes /\ FileTypes /\ StoreTypes
BY DEF TypeInv, TypeOK, RunTypes, NameTypes, FileTypes, StoreTypes

LEMMA TypePartsPrimed == RunTypes' /\ NameTypes' /\ FileTypes' /\ StoreTypes' => TypeInv'
BY DEF TypeInv, TypeOK, RunTypes, NameTypes, FileTypes, StoreTypes, AllNames, LinesOf

(* Fewer names. *)
LEMMA NamesShrink ==
    ASSUME NameTypes, stale' \in [Runs -> SUBSET Nat], outPath' \in [Runs -> SUBSET Nat],
           \A r \in Runs : stale'[r] \subseteq stale[r] /\ outPath'[r] \subseteq outPath[r]
    PROVE  NameTypes'
<1>1. AllNames' \in SUBSET AllNames
    BY DEF AllNames
<1>2. IsFiniteSet(AllNames')
    BY <1>1, FS_Subset DEF NameTypes
<1> QED
    BY <1>2 DEF NameTypes

(* One run more that has globbed a date, or opened a file. *)
LEMMA NamesGrow ==
    ASSUME NameTypes, NEW new, IsFiniteSet(new),
           stale' \in [Runs -> SUBSET Nat], outPath' \in [Runs -> SUBSET Nat],
           \A r \in Runs : /\ stale'[r] \subseteq stale[r] \cup new
                          /\ outPath'[r] \subseteq outPath[r] \cup new
    PROVE  NameTypes'
<1>1. AllNames' \in SUBSET (AllNames \cup new)
    BY DEF AllNames
<1>2. IsFiniteSet(AllNames \cup new)
    BY FS_Union DEF NameTypes
<1>3. IsFiniteSet(AllNames')
    BY <1>1, <1>2, FS_Subset
<1> QED
    BY <1>3 DEF NameTypes

LEMMA NamesAreFinite ==
    ASSUME FileTypes, NEW d \in Dates
    PROVE  NamesOf(d) \in SUBSET Nat /\ IsFiniteSet(NamesOf(d))
<1> DEFINE name == [f \in silver[d] |-> f.name]
<1>1. name \in Surjection(silver[d], NamesOf(d))
    BY DEF Surjection, NamesOf
<1>2. IsFiniteSet(NamesOf(d))
    BY <1>1, FS_Surjection DEF FileTypes
<1>3. \A f \in silver[d] : f \in [name : Nat, rows : SUBSET Row]
    BY DEF FileTypes
<1>4. \A f \in silver[d] : f.name \in Nat
    BY <1>3
<1> QED
    BY <1>2, <1>4 DEF NamesOf

(* Fewer files in a date. *)
LEMMA FilesShrink ==
    ASSUME FileTypes, NEW d \in Dates, NEW files \in SUBSET silver[d],
           silver' = [silver EXCEPT ![d] = files]
    PROVE  FileTypes' /\ \A e \in Dates : silver'[e] \subseteq silver[e]
<1>1. \A e \in Dates : silver'[e] \in SUBSET silver[e]
    BY DEF FileTypes
<1>2. \A e \in Dates : IsFiniteSet(silver'[e])
    BY <1>1, FS_Subset DEF FileTypes
<1>3. silver' \in [Dates -> SUBSET [name : Nat, rows : SUBSET Row]]
    BY DEF FileTypes
<1> QED
    BY <1>1, <1>2, <1>3 DEF FileTypes

LEMMA EndTypes ==
    ASSUME RunTypes, NameTypes, NEW r \in Runs, End(r)
    PROVE  RunTypes' /\ NameTypes'
<1>1. Min(Dates) \in Dates
    <2>1. Dates \in SUBSET Dates
        OBVIOUS
    <2> QED
        BY <2>1, MinOfDates
<1>2. RunTypes'
    BY <1>1 DEF RunTypes, End, Steps
<1>3. /\ stale' \in [Runs -> SUBSET Nat] /\ outPath' \in [Runs -> SUBSET Nat]
      /\ \A q \in Runs : stale'[q] \subseteq stale[q] /\ outPath'[q] \subseteq outPath[q]
    BY DEF End, NameTypes
<1> QED
    BY <1>2, <1>3, NamesShrink

LEMMA FinishTypes ==
    ASSUME RunTypes, NameTypes, NEW r \in Runs, Finish(r), step[r] # "idle"
    PROVE  RunTypes' /\ NameTypes'
<1>1. ASSUME NextDate(r) \/ LastDate(r) PROVE NameTypes'
    <2>1. /\ stale' \in [Runs -> SUBSET Nat] /\ outPath' \in [Runs -> SUBSET Nat]
          /\ \A q \in Runs : stale'[q] \subseteq stale[q] /\ outPath'[q] \subseteq outPath[q]
        BY <1>1 DEF NextDate, LastDate, NameTypes
    <2> QED
        BY <2>1, NamesShrink
<1>2. CASE NextDate(r)
    <2> DEFINE d == Min(rest[r])
    <2>1. rest[r] \in SUBSET Dates /\ rest[r] # {}
        BY <1>2 DEF RunTypes, NextDate
    <2>2. d \in Dates /\ rest[r] \ {d} \subseteq {e \in Dates : e > d}
        BY <2>1, MinOfDates
    <2> HIDE DEF d
    <2>3. /\ date' = [date EXCEPT ![r] = d] /\ rest' = [rest EXCEPT ![r] = rest[r] \ {d}]
          /\ step' = [step EXCEPT ![r] = "list"] /\ rows' = [rows EXCEPT ![r] = {}]
          /\ UNCHANGED job
        BY <1>2 DEF NextDate, d
    <2>4. RunTypes'
        BY <2>1, <2>2, <2>3 DEF RunTypes, Steps
    <2> QED
        BY <1>1, <1>2, <2>4
<1>3. CASE LastDate(r)
    BY <1>1, <1>3 DEF RunTypes, LastDate, Steps
<1>4. CASE End(r)
    BY <1>4, EndTypes
<1> QED
    BY <1>2, <1>3, <1>4 DEF Finish

(* The steps on the part-files of a date, in the form the proofs use. *)
LEMMA RemoveFacts ==
    ASSUME TypeInv, NEW r \in Runs, Remove(r)
    PROVE  /\ step[r] = "remove" /\ date'[r] = date[r] /\ rows'[r] = rows[r]
           /\ step'[r] = IF stale'[r] = {} THEN "write" ELSE "remove"
           /\ UNCHANGED <<objects, outPath, crashes, filled, emptied, overtaken, raced>>
           /\ \E n : /\ stale'[r] = stale[r] \ {n}
                     /\ silver'[date[r]] = {f \in silver[date[r]] : f.name # n}
           /\ \A d \in Dates \ {date[r]} : silver'[d] = silver[d]
<1>1. PICK n \in stale[r] \cap NamesOf(date[r]) :
          /\ silver' = [silver EXCEPT ![date[r]] = {f \in silver[date[r]] : f.name # n}]
          /\ stale' = [stale EXCEPT ![r] = @ \ {n}]
    BY DEF Remove
<1>2. /\ stale'[r] = stale[r] \ {n}
      /\ silver'[date[r]] = {f \in silver[date[r]] : f.name # n}
      /\ \A d \in Dates \ {date[r]} : silver'[d] = silver[d]
    BY <1>1 DEF TypeInv, TypeOK
<1>3. /\ step[r] = "remove" /\ date'[r] = date[r] /\ rows'[r] = rows[r]
      /\ step'[r] = IF stale'[r] = {} THEN "write" ELSE "remove"
      /\ UNCHANGED <<objects, outPath, crashes, filled, emptied, overtaken, raced>>
    BY DEF Remove, TypeInv, TypeOK, auxVars, ghostVars
<1> QED
    BY <1>2, <1>3

LEMMA OpenFacts ==
    ASSUME TypeInv, NEW r \in Runs, OpenFile(r)
    PROVE  /\ step[r] = "write" /\ rows[r] # {} /\ step'[r] = "fill"
           /\ date'[r] = date[r] /\ rows'[r] = rows[r] /\ stale' = stale
           /\ UNCHANGED <<objects, crashes, filled, emptied>>
           /\ \E f \in [name : Nat, rows : SUBSET Row] :
                 /\ f.name \notin NamesOf(date[r]) /\ f.rows = {}
                 /\ outPath' = [outPath EXCEPT ![r] = {f.name}]
                 /\ silver' = [silver EXCEPT ![date[r]] = silver[date[r]] \cup {f}]
           /\ \A s \in Runs \ {r} :
                 s \in overtaken' <=> s \in overtaken \/ PastGlob(s, date[r])
           /\ raced' = IF r \in overtaken THEN raced \cup {date[r]} ELSE raced \ {date[r]}
<1> DEFINE new == [name |-> FreshName(date[r]), rows |-> {}]
<1>1. date[r] \in Dates
    BY DEF TypeInv, TypeOK
<1>2. FreshName(date[r]) \in Nat /\ FreshName(date[r]) \notin NamesOf(date[r])
    BY <1>1, FreshNameIsFree DEF TypeInv
<1>3. /\ outPath' = [outPath EXCEPT ![r] = {FreshName(date[r])}]
      /\ silver' = [silver EXCEPT ![date[r]] = silver[date[r]] \cup {new}]
    BY DEF OpenFile
<1>4. /\ new \in [name : Nat, rows : SUBSET Row]
      /\ new.name = FreshName(date[r]) /\ new.rows = {}
    BY <1>2
<1> HIDE DEF new
<1>5. \E f \in [name : Nat, rows : SUBSET Row] :
          /\ f.name \notin NamesOf(date[r]) /\ f.rows = {}
          /\ outPath' = [outPath EXCEPT ![r] = {f.name}]
          /\ silver' = [silver EXCEPT ![date[r]] = silver[date[r]] \cup {f}]
    BY <1>2, <1>3, <1>4
<1>6. /\ step[r] = "write" /\ rows[r] # {} /\ step'[r] = "fill"
      /\ date'[r] = date[r] /\ rows'[r] = rows[r] /\ stale' = stale
      /\ UNCHANGED <<objects, crashes, filled, emptied>>
    BY DEF OpenFile, TypeInv, TypeOK
<1>7. \A s \in Runs \ {r} : s \in overtaken' <=> s \in overtaken \/ PastGlob(s, date[r])
    BY DEF OpenFile, PastGlob
<1>8. raced' = IF r \in overtaken THEN raced \cup {date[r]} ELSE raced \ {date[r]}
    BY DEF OpenFile
<1> QED
    BY <1>5, <1>6, <1>7, <1>8

(* What closing makes of a part-file of the date. *)
Closed(r, f) == IF f.name \in outPath[r] THEN [f EXCEPT !.rows = rows[r]] ELSE f

LEMMA CloseFacts ==
    ASSUME TypeInv, NEW r \in Runs, CloseFile(r)
    PROVE  /\ step[r] = "fill" /\ Finish(r) /\ UNCHANGED <<objects, crashes, overtaken, raced>>
           /\ silver' = [silver EXCEPT ![date[r]] = {Closed(r, f) : f \in silver[date[r]]}]
           /\ \A f \in silver[date[r]] :
                 /\ Closed(r, f) \in [name : Nat, rows : SUBSET Row]
                 /\ Closed(r, f).name = f.name
                 /\ Closed(r, f).rows = IF f.name \in outPath[r] THEN rows[r] ELSE f.rows
           /\ \/ /\ outPath[r] \subseteq NamesOf(date[r])
                 /\ filled' = filled \cup {date[r]} /\ emptied' = emptied
              \/ filled' = filled /\ emptied' = emptied \cup {date[r]}
<1>1. date[r] \in Dates /\ rows[r] \in SUBSET Row
    BY DEF TypeInv, TypeOK
<1>2. \A f \in silver[date[r]] : f \in [name : Nat, rows : SUBSET Row]
    BY <1>1 DEF TypeInv, TypeOK
<1>3. ASSUME NEW f \in silver[date[r]]
      PROVE  /\ Closed(r, f) \in [name : Nat, rows : SUBSET Row]
             /\ Closed(r, f).name = f.name
             /\ Closed(r, f).rows = IF f.name \in outPath[r] THEN rows[r] ELSE f.rows
    BY <1>1, <1>2 DEF Closed
<1>4. /\ step[r] = "fill" /\ Finish(r) /\ UNCHANGED <<objects, crashes, overtaken, raced>>
      /\ silver' = [silver EXCEPT ![date[r]] = {Closed(r, f) : f \in silver[date[r]]}]
    BY DEF CloseFile, Closed
<1>5. \/ /\ outPath[r] \subseteq NamesOf(date[r])
         /\ filled' = filled \cup {date[r]} /\ emptied' = emptied
      \/ filled' = filled /\ emptied' = emptied \cup {date[r]}
    BY DEF CloseFile
<1> QED
    BY <1>3, <1>4, <1>5

LEMMA CrashFacts ==
    ASSUME TypeInv, NEW r \in Runs, Crash(r)
    PROVE  /\ Fail(r) /\ crashes < MaxCrashes /\ crashes' = crashes + 1
           /\ UNCHANGED <<today, objects, cursor, queue, launched, gold, backfills>>
           /\ \E files \in SUBSET silver[date[r]] : silver' = [silver EXCEPT ![date[r]] = files]
<1>1. \/ silver' = silver
      \/ silver' = [silver EXCEPT ![date[r]] = {f \in silver[date[r]] : f.name \notin outPath[r]}]
    BY DEF Crash
<1>2. silver = [silver EXCEPT ![date[r]] = silver[date[r]]]
    BY DEF TypeInv, TypeOK
<1>3. \E files \in SUBSET silver[date[r]] : silver' = [silver EXCEPT ![date[r]] = files]
    BY <1>1, <1>2
<1> QED
    BY <1>3 DEF Crash, sensorVars

LEMMA TypeStep == TypeInv /\ [Next]_vars => TypeInv'
<1> SUFFICES ASSUME RunTypes, NameTypes, FileTypes, StoreTypes, TypeInv, [Next]_vars
             PROVE  RunTypes' /\ NameTypes' /\ FileTypes' /\ StoreTypes'
    BY TypeParts, TypePartsPrimed
<1>1. ASSUME UNCHANGED runVars PROVE RunTypes' /\ NameTypes'
    BY <1>1 DEF RunTypes, NameTypes, AllNames, runVars
<1>2. ASSUME UNCHANGED silver PROVE FileTypes'
    BY <1>2 DEF FileTypes
<1>3. ASSUME UNCHANGED <<stale, outPath>> PROVE NameTypes'
    BY <1>3 DEF NameTypes, AllNames
<1>4. ASSUME UNCHANGED <<today, objects, cursor, queue, launched, gold, backfills, crashes>>,
             filled' \cup emptied' \cup raced' \subseteq Dates, overtaken' \subseteq Runs
      PROVE  StoreTypes'
    BY <1>4 DEF StoreTypes, LinesOf
<1>5. CASE Midnight
    <2>1. today' \in Nat
        <3>1. today \in Nat /\ today' = today + 1
            BY <1>5 DEF Midnight, StoreTypes
        <3> QED
            BY <3>1
    <2>2. UNCHANGED <<objects, silver, cursor, queue, launched, gold, backfills, crashes,
                      filled, emptied, overtaken, raced>>
        BY <1>5 DEF Midnight, sensorVars, auxVars, ghostVars
    <2>3. StoreTypes'
        BY <2>1, <2>2 DEF StoreTypes, LinesOf
    <2> QED
        BY <1>1, <1>2, <1>5, <2>3 DEF Midnight
<1>6. CASE Land
    <2>1. PICK key \in Keys \ {o.key : o \in objects}, lines \in SUBSET Lines :
              IsFiniteSet(lines) /\ objects' = objects \cup {[key |-> key, lines |-> lines]}
        BY <1>6 DEF Land
    <2>2. LinesOf(objects') = LinesOf(objects) \cup lines
        BY <2>1, LinesOfOneMore
    <2>3. IsFiniteSet(LinesOf(objects) \cup lines)
        BY <2>1, FS_Union DEF StoreTypes
    <2>4. objects' \subseteq [key : Keys, lines : SUBSET Lines]
        <3>1. [key |-> key, lines |-> lines] \in [key : Keys, lines : SUBSET Lines]
            OBVIOUS
        <3>2. objects \subseteq [key : Keys, lines : SUBSET Lines]
            BY DEF StoreTypes
        <3> QED
            BY <2>1, <3>1, <3>2
    <2>5. UNCHANGED <<today, silver, cursor, queue, launched, gold, backfills, crashes, filled,
                      emptied, overtaken, raced>>
        BY <1>6 DEF Land, sensorVars, auxVars, ghostVars
    <2>6. StoreTypes'
        BY <2>2, <2>3, <2>4, <2>5 DEF StoreTypes, LinesOf
    <2> QED
        BY <1>1, <1>2, <1>6, <2>6 DEF Land
<1>7. CASE Sense
    <2>1. StoreTypes'
        BY <1>7 DEF Sense, StoreTypes, Available, LinesOf, auxVars, ghostVars
    <2> QED
        BY <1>1, <1>2, <1>7, <2>1 DEF Sense
<1>8. CASE MaterializeGold
    <2>1. StoreTypes'
        BY <1>8 DEF MaterializeGold, BuildGold, StoreTypes, LinesOf, sensorVars, auxVars, ghostVars
    <2> QED
        BY <1>1, <1>2, <1>8, <2>1 DEF MaterializeGold
<1>9. ASSUME NEW r \in Runs, Launch(r)
      PROVE  RunTypes' /\ NameTypes' /\ FileTypes' /\ StoreTypes'
    <2>1. PICK d \in queue : /\ date' = [date EXCEPT ![r] = d] /\ queue' = queue \ {d}
                             /\ launched' = [launched EXCEPT ![d] = @ + 1]
        BY <1>9 DEF Launch
    <2>2. d \in Dates
        BY DEF StoreTypes
    <2>3. /\ job' = [job EXCEPT ![r] = "silver_ticks"] /\ step' = [step EXCEPT ![r] = "list"]
          /\ step[r] = "idle" /\ UNCHANGED <<silver, rest, rows, stale, outPath>>
        BY <1>9 DEF Launch
    <2>4. RunTypes'
        BY <2>1, <2>2, <2>3 DEF RunTypes, Steps
    <2>5. UNCHANGED <<today, objects, cursor, gold, backfills, crashes, filled, emptied,
                      overtaken, raced>>
        BY <1>9 DEF Launch, auxVars, ghostVars
    <2>6. queue' \subseteq Dates /\ launched' \in [Dates -> Nat]
        <3>1. queue \subseteq Dates /\ launched \in [Dates -> Nat]
            BY DEF StoreTypes
        <3>2. launched[d] + 1 \in Nat
            BY <2>2, <3>1
        <3> QED
            BY <2>1, <3>1, <3>2
    <2>7. StoreTypes'
        BY <2>5, <2>6 DEF StoreTypes, LinesOf
    <2> QED
        BY <1>2, <1>3, <2>3, <2>4, <2>7
<1>10. ASSUME NEW r \in Runs, Backfill(r)
       PROVE  RunTypes' /\ NameTypes' /\ FileTypes' /\ StoreTypes'
    <2> DEFINE d == Min(Available)
    <2>1. Available \in SUBSET Dates /\ Available # {}
        BY <1>10 DEF Backfill, Available
    <2>2. d \in Dates /\ Available \ {d} \subseteq {e \in Dates : e > d}
        BY <2>1, MinOfDates
    <2> HIDE DEF d
    <2>3. /\ date' = [date EXCEPT ![r] = d] /\ rest' = [rest EXCEPT ![r] = Available \ {d}]
          /\ job' = [job EXCEPT ![r] = "batch_backfill_job"]
          /\ step' = [step EXCEPT ![r] = "list"] /\ UNCHANGED <<silver, rows, stale, outPath>>
        BY <1>10 DEF Backfill, d
    <2>4. RunTypes'
        BY <2>1, <2>2, <2>3 DEF RunTypes, Steps
    <2>5. /\ UNCHANGED <<today, objects, cursor, queue, launched, gold, crashes, filled,
                         emptied, overtaken, raced>>
          /\ backfills < MaxBackfills /\ backfills' = backfills + 1
        BY <1>10 DEF Backfill, sensorVars, ghostVars
    <2>6. backfills' \in 0 .. MaxBackfills
        <3>1. backfills \in 0 .. MaxBackfills
            BY DEF StoreTypes
        <3> QED
            BY <2>5, <3>1
    <2>7. StoreTypes'
        BY <2>5, <2>6 DEF StoreTypes, LinesOf
    <2> QED
        BY <1>2, <1>3, <2>3, <2>4, <2>7
<1>11. ASSUME NEW r \in Runs, Fail(r), UNCHANGED <<today, objects, cursor, queue, launched>>,
              UNCHANGED <<gold, backfills>>, crashes' \in 0 .. MaxCrashes
       PROVE  RunTypes' /\ NameTypes' /\ StoreTypes'
    <2>1. End(r)
        BY <1>11 DEF Fail
    <2>2. date[r] \in Dates
        BY DEF RunTypes
    <2>3. filled' \cup emptied' \cup raced' \subseteq Dates /\ overtaken' \subseteq Runs
        BY <1>11, <2>2 DEF Fail, StoreTypes
    <2>4. StoreTypes'
        BY <1>11, <2>3 DEF StoreTypes, LinesOf
    <2> QED
        BY <2>1, <2>4, EndTypes
<1>12. ASSUME NEW r \in Runs, ListFails(r) \/ RemoveFails(r)
       PROVE  RunTypes' /\ NameTypes' /\ FileTypes' /\ StoreTypes'
    BY <1>2, <1>11, <1>12 DEF ListFails, RemoveFails, StoreTypes, sensorVars
<1>13. ASSUME NEW r \in Runs, Crash(r)
       PROVE  RunTypes' /\ NameTypes' /\ FileTypes' /\ StoreTypes'
    <2>1. crashes' \in 0 .. MaxCrashes
        <3>1. crashes \in 0 .. MaxCrashes /\ crashes < MaxCrashes /\ crashes' = crashes + 1
            BY <1>13, CrashFacts DEF StoreTypes
        <3> QED
            BY <3>1
    <2>2. RunTypes' /\ NameTypes' /\ StoreTypes'
        BY <1>11, <1>13, <2>1, CrashFacts
    <2>3. PICK files \in SUBSET silver[date[r]] : silver' = [silver EXCEPT ![date[r]] = files]
        BY <1>13, CrashFacts
    <2>4. FileTypes'
        BY <2>3, FilesShrink DEF RunTypes
    <2> QED
        BY <2>2, <2>4
<1>14. ASSUME NEW r \in Runs, List(r)
       PROVE  RunTypes' /\ NameTypes' /\ FileTypes' /\ StoreTypes'
    <2>1. date[r] \in Dates
        BY DEF RunTypes
    <2>2. RowsOf(ObjectsOf(date[r])) \subseteq Row
        BY <2>1, RowsAreRows
    <2>3. RunTypes'
        BY <1>14, <2>2 DEF List, RunTypes, Steps
    <2>4. StoreTypes'
        BY <1>4, <1>14 DEF List, StoreTypes, sensorVars, auxVars, ghostVars
    <2> QED
        BY <1>2, <1>3, <1>14, <2>3, <2>4 DEF List
<1>15. ASSUME NEW r \in Runs, Glob(r)
       PROVE  RunTypes' /\ NameTypes' /\ FileTypes' /\ StoreTypes'
    <2>1. date[r] \in Dates
        BY DEF RunTypes
    <2>2. stale' = [stale EXCEPT ![r] = NamesOf(date[r])] /\ UNCHANGED outPath
        BY <1>15 DEF Glob
    <2>3. NamesOf(date[r]) \in SUBSET Nat /\ IsFiniteSet(NamesOf(date[r]))
        BY <2>1, NamesAreFinite
    <2>4. /\ stale' \in [Runs -> SUBSET Nat] /\ outPath' \in [Runs -> SUBSET Nat]
          /\ \A q \in Runs : /\ stale'[q] \subseteq stale[q] \cup NamesOf(date[r])
                             /\ outPath'[q] \subseteq outPath[q] \cup NamesOf(date[r])
        BY <2>2, <2>3 DEF NameTypes
    <2>5. NameTypes'
        BY <2>3, <2>4, NamesGrow
    <2>6. RunTypes'
        BY <1>15, <2>2 DEF Glob, RunTypes, Steps
    <2>7. StoreTypes'
        BY <1>4, <1>15 DEF Glob, StoreTypes, sensorVars, auxVars, ghostVars
    <2> QED
        BY <1>2, <1>15, <2>5, <2>6, <2>7 DEF Glob
<1>16. ASSUME NEW r \in Runs, Remove(r)
       PROVE  RunTypes' /\ NameTypes' /\ FileTypes' /\ StoreTypes'
    <2>1. PICK n : /\ silver' = [silver EXCEPT ![date[r]] = {f \in silver[date[r]] : f.name # n}]
                   /\ stale' = [stale EXCEPT ![r] = @ \ {n}]
        BY <1>16 DEF Remove
    <2>2. /\ stale' \in [Runs -> SUBSET Nat] /\ outPath' \in [Runs -> SUBSET Nat]
          /\ \A q \in Runs : stale'[q] \subseteq stale[q] /\ outPath'[q] \subseteq outPath[q]
        BY <1>16, <2>1 DEF NameTypes, Remove
    <2>3. NameTypes'
        BY <2>2, NamesShrink
    <2>4. RunTypes'
        BY <1>16 DEF Remove, RunTypes, Steps
    <2>5. FileTypes'
        <3> DEFINE files == {f \in silver[date[r]] : f.name # n}
        <3>1. files \in SUBSET silver[date[r]] /\ silver' = [silver EXCEPT ![date[r]] = files]
            BY <2>1
        <3> HIDE DEF files
        <3> QED
            BY <3>1, FilesShrink DEF RunTypes
    <2>6. StoreTypes'
        BY <1>4, <1>16 DEF Remove, StoreTypes, sensorVars, auxVars, ghostVars
    <2> QED
        BY <2>3, <2>4, <2>5, <2>6
<1>17. ASSUME NEW r \in Runs, WriteNothing(r)
       PROVE  RunTypes' /\ NameTypes' /\ FileTypes' /\ StoreTypes'
    <2>1. step[r] = "write" /\ Finish(r) /\ date[r] \in Dates
        BY <1>17 DEF WriteNothing, RunTypes
    <2>2. filled' \cup emptied' \cup raced' \subseteq Dates /\ overtaken' \subseteq Runs
        BY <1>17, <2>1 DEF WriteNothing, StoreTypes
    <2>3. StoreTypes'
        BY <1>4, <1>17, <2>2 DEF WriteNothing, sensorVars
    <2>4. RunTypes' /\ NameTypes'
        BY <2>1, FinishTypes
    <2> QED
        BY <1>2, <1>17, <2>3, <2>4 DEF WriteNothing
<1>18. ASSUME NEW r \in Runs, OpenFile(r)
       PROVE  RunTypes' /\ NameTypes' /\ FileTypes' /\ StoreTypes'
    <2>1. date[r] \in Dates /\ stale' = stale
        BY <1>18, OpenFacts DEF RunTypes
    <2>2. PICK f \in [name : Nat, rows : SUBSET Row] :
              /\ outPath' = [outPath EXCEPT ![r] = {f.name}]
              /\ silver' = [silver EXCEPT ![date[r]] = silver[date[r]] \cup {f}]
        BY <1>18, OpenFacts
    <2>3. IsFiniteSet({f.name}) /\ {f.name} \in SUBSET Nat
        BY FS_Singleton
    <2>4. /\ stale' \in [Runs -> SUBSET Nat] /\ outPath' \in [Runs -> SUBSET Nat]
          /\ \A q \in Runs : /\ stale'[q] \subseteq stale[q] \cup {f.name}
                             /\ outPath'[q] \subseteq outPath[q] \cup {f.name}
        BY <2>1, <2>2, <2>3 DEF NameTypes
    <2>5. NameTypes'
        BY <2>3, <2>4, NamesGrow
    <2>6. RunTypes'
        BY <1>18 DEF OpenFile, RunTypes, Steps
    <2>7. FileTypes'
        <3>1. silver' \in [Dates -> SUBSET [name : Nat, rows : SUBSET Row]]
            BY <2>1, <2>2 DEF FileTypes
        <3>2. IsFiniteSet(silver[date[r]] \cup {f})
            BY <2>1, FS_AddElement DEF FileTypes
        <3>3. \A d \in Dates : silver'[d] = IF d = date[r] THEN silver[d] \cup {f} ELSE silver[d]
            BY <2>1, <2>2 DEF FileTypes
        <3>4. \A d \in Dates : IsFiniteSet(silver'[d])
            BY <3>2, <3>3 DEF FileTypes
        <3> QED
            BY <3>1, <3>4 DEF FileTypes
    <2>8. filled' \cup emptied' \cup raced' \subseteq Dates /\ overtaken' \subseteq Runs
        BY <1>18, <2>1 DEF OpenFile, StoreTypes
    <2>9. StoreTypes'
        BY <1>4, <1>18, <2>8 DEF OpenFile, sensorVars
    <2> QED
        BY <2>5, <2>6, <2>7, <2>9
<1>19. ASSUME NEW r \in Runs, CloseFile(r)
       PROVE  RunTypes' /\ NameTypes' /\ FileTypes' /\ StoreTypes'
    <2>1. step[r] = "fill" /\ Finish(r) /\ date[r] \in Dates
        BY <1>19, CloseFacts DEF RunTypes
    <2>2. RunTypes' /\ NameTypes'
        BY <2>1, FinishTypes
    <2> DEFINE files == {Closed(r, f) : f \in silver[date[r]]}
    <2>3. /\ silver' = [silver EXCEPT ![date[r]] = files]
          /\ files \in SUBSET [name : Nat, rows : SUBSET Row]
        BY <1>19, CloseFacts
    <2>4. IsFiniteSet(files)
        <3> DEFINE closed == [f \in silver[date[r]] |-> Closed(r, f)]
        <3>1. closed \in Surjection(silver[date[r]], files)
            BY DEF Surjection
        <3>2. IsFiniteSet(silver[date[r]])
            BY <2>1 DEF FileTypes
        <3> HIDE DEF closed, files
        <3> QED
            BY <3>1, <3>2, FS_Surjection
    <2> HIDE DEF files
    <2>5. FileTypes'
        <3>1. silver' \in [Dates -> SUBSET [name : Nat, rows : SUBSET Row]]
            BY <2>3 DEF FileTypes
        <3>2. \A d \in Dates : silver'[d] = IF d = date[r] THEN files ELSE silver[d]
            BY <2>3 DEF FileTypes
        <3>3. \A d \in Dates : IsFiniteSet(silver'[d])
            BY <2>4, <3>2 DEF FileTypes
        <3> QED
            BY <3>1, <3>3 DEF FileTypes
    <2>6. filled' \cup emptied' \cup raced' \subseteq Dates /\ overtaken' \subseteq Runs
        <3>1. /\ filled' \subseteq filled \cup {date[r]} /\ emptied' \subseteq emptied \cup {date[r]}
              /\ UNCHANGED <<overtaken, raced>>
            BY <1>19 DEF CloseFile
        <3> QED
            BY <2>1, <3>1 DEF StoreTypes
    <2>7. StoreTypes'
        BY <1>4, <1>19, <2>6 DEF CloseFile, sensorVars
    <2> QED
        BY <2>2, <2>5, <2>7
<1>20. ASSUME NEW r \in Runs, Build(r)
       PROVE  RunTypes' /\ NameTypes' /\ FileTypes' /\ StoreTypes'
    <2>1. StoreTypes'
        BY <1>20 DEF Build, BuildGold, StoreTypes, LinesOf, sensorVars, auxVars, ghostVars
    <2> QED
        BY <1>2, <1>20, <2>1, EndTypes DEF Build
<1>21. CASE SenseFails \/ UNCHANGED vars
    <2>1. UNCHANGED vars
        BY <1>21 DEF SenseFails
    <2>2. StoreTypes'
        BY <1>4, <2>1 DEF vars, StoreTypes, sensorVars, auxVars, ghostVars
    <2> QED
        BY <1>1, <1>2, <2>1, <2>2 DEF vars
<1> QED
    BY <1>5, <1>6, <1>7, <1>8, <1>9, <1>10, <1>12, <1>13, <1>14, <1>15, <1>16, <1>17, <1>18,
       <1>19, <1>20, <1>21 DEF Next, Step

(* The bucket, the partitions, the sensor's cursor and what every run      *)
(* holds are always of their types, at any number of concurrent runs.      *)
THEOREM TypeCorrect == Spec => []TypeOK
<1>1. TypeInv => TypeOK
    BY DEF TypeInv
<1> QED
    BY <1>1, TypeInit, TypeStep, PTL DEF Spec

-----------------------------------------------------------------------------
(* What a step changes of the runs: the moves another run can see. *)

(* A run that ends or goes on is no longer past its glob. *)
LEMMA FinishLeaves ==
    ASSUME TypeInv, NEW r \in Runs, Finish(r) \/ End(r)
    PROVE  /\ step'[r] \in {"idle", "list", "build"} /\ outPath'[r] = {} /\ stale'[r] \subseteq stale[r]
           /\ \A s \in Runs \ {r} : /\ step'[s] = step[s] /\ date'[s] = date[s] /\ rows'[s] = rows[s]
                                    /\ stale'[s] = stale[s] /\ outPath'[s] = outPath[s]
BY DEF TypeInv, TypeOK, Finish, NextDate, LastDate, End

(* A step of a run leaves the others where they are. *)
LEMMA OtherRuns ==
    ASSUME TypeInv, NEW r \in Runs, Launch(r) \/ Backfill(r) \/ Step(r) \/ Crash(r)
    PROVE  \A s \in Runs \ {r} :
               /\ step'[s] = step[s] /\ date'[s] = date[s] /\ rows'[s] = rows[s]
               /\ stale'[s] = stale[s] /\ outPath'[s] = outPath[s]
<1>1. CASE Launch(r) \/ Backfill(r)
    BY <1>1 DEF Launch, Backfill, TypeInv, TypeOK
<1>2. CASE ListFails(r) \/ RemoveFails(r) \/ Crash(r) \/ Build(r)
    <2>1. End(r)
        BY <1>2 DEF ListFails, RemoveFails, Crash, Build, Fail
    <2> QED
        BY <2>1, FinishLeaves
<1>3. CASE List(r) \/ Glob(r)
    BY <1>3 DEF List, Glob, TypeInv, TypeOK
<1>4. CASE Remove(r)
    BY <1>4 DEF Remove, TypeInv, TypeOK
<1>5. CASE WriteNothing(r) \/ CloseFile(r)
    <2>1. Finish(r)
        BY <1>5 DEF WriteNothing, CloseFile
    <2> QED
        BY <2>1, FinishLeaves
<1>6. CASE OpenFile(r)
    BY <1>6 DEF OpenFile, TypeInv, TypeOK
<1> QED
    BY <1>1, <1>2, <1>3, <1>4, <1>5, <1>6 DEF Step

(* The steps that write no file and keep r from removing or writing one:   *)
(* only a crash takes a file away.                                         *)
Leaves(r) ==
    \/ Launch(r) \/ Backfill(r) \/ List(r) \/ ListFails(r) \/ RemoveFails(r)
    \/ WriteNothing(r) \/ Build(r) \/ Crash(r)

LEMMA LeavingSteps ==
    ASSUME TypeInv, NEW r \in Runs, Leaves(r)
    PROVE  /\ UNCHANGED <<objects, filled, raced>>
           /\ step'[r] \in {"idle", "list", "glob", "build"}
           /\ outPath'[r] = {} \/ (outPath'[r] = outPath[r] /\ step[r] # "fill")
           /\ \A s \in Runs \ {r} : s \in overtaken' <=> s \in overtaken
           /\ IF step[r] \in {"remove", "write", "fill"}
              THEN emptied' = emptied \cup {date[r]} ELSE emptied' = emptied
           /\ Crash(r) \/ (UNCHANGED <<silver, crashes>> /\ step[r] # "fill")
<1>1. ASSUME Fail(r)
      PROVE  /\ UNCHANGED <<filled, raced>> /\ step'[r] = "idle" /\ outPath'[r] = {}
             /\ \A s \in Runs \ {r} : s \in overtaken' <=> s \in overtaken
             /\ IF step[r] \in {"remove", "write", "fill"}
                THEN emptied' = emptied \cup {date[r]} ELSE emptied' = emptied
    BY <1>1 DEF Fail, End, TypeInv, TypeOK
<1>2. CASE Launch(r) \/ Backfill(r) \/ List(r)
    BY <1>2 DEF Launch, Backfill, List, auxVars, ghostVars, TypeInv, TypeOK
<1>3. CASE ListFails(r) \/ RemoveFails(r)
    BY <1>1, <1>3 DEF ListFails, RemoveFails
<1>4. CASE Crash(r)
    <2>1. Fail(r) /\ objects' = objects
        BY <1>4 DEF Crash
    <2>2. UNCHANGED <<objects, filled, raced>> /\ step'[r] = "idle" /\ outPath'[r] = {}
        BY <1>1, <2>1
    <2>3. \A s \in Runs \ {r} : s \in overtaken' <=> s \in overtaken
        BY <1>1, <2>1
    <2>4. IF step[r] \in {"remove", "write", "fill"}
          THEN emptied' = emptied \cup {date[r]} ELSE emptied' = emptied
        BY <1>1, <2>1
    <2> QED
        BY <1>4, <2>2, <2>3, <2>4
<1>5. CASE WriteNothing(r)
    <2>1. Finish(r)
        BY <1>5 DEF WriteNothing
    <2> QED
        BY <1>5, <2>1, FinishLeaves DEF WriteNothing
<1>6. CASE Build(r)
    <2>1. End(r)
        BY <1>6 DEF Build
    <2> QED
        BY <1>6, <2>1, FinishLeaves DEF Build, auxVars, ghostVars
<1> QED
    BY <1>2, <1>3, <1>4, <1>5, <1>6 DEF Leaves

(* The files they leave: those of other dates, and in their own all but    *)
(* the one that was being written.                                         *)
LEMMA LeavingFiles ==
    ASSUME TypeInv, NEW r \in Runs, Leaves(r)
    PROVE  /\ \A d \in Dates : silver'[d] \subseteq silver[d]
           /\ \A d \in Dates \ {date[r]} : silver'[d] = silver[d]
           /\ \A f \in silver[date[r]] : f \in silver'[date[r]] \/ f.name \in outPath[r]
<1>1. date[r] \in Dates /\ DOMAIN silver = Dates
    BY DEF TypeInv, TypeOK
<1>2. CASE UNCHANGED silver
    BY <1>1, <1>2
<1>3. CASE silver' = [silver EXCEPT ![date[r]] =
                          {f \in silver[date[r]] : f.name \notin outPath[r]}]
    BY <1>1, <1>3
<1>4. CASE Crash(r)
    BY <1>2, <1>3, <1>4 DEF Crash
<1> QED
    BY <1>2, <1>4, LeavingSteps

LEMMA NoRunSteps ==
    ASSUME Midnight \/ Land \/ Sense \/ SenseFails \/ MaterializeGold \/ UNCHANGED vars
    PROVE  UNCHANGED <<silver, step, date, rows, stale, outPath, crashes, filled, emptied,
                       overtaken, raced>>
BY DEF Midnight, Land, Sense, SenseFails, MaterializeGold, vars, runVars, auxVars, ghostVars

LEMMA GlobFacts ==
    ASSUME TypeInv, NEW r \in Runs, Glob(r)
    PROVE  /\ step[r] = "glob" /\ stale'[r] = NamesOf(date[r]) /\ date'[r] = date[r]
           /\ step'[r] = IF stale'[r] = {} THEN "write" ELSE "remove"
           /\ rows'[r] = rows[r]
           /\ UNCHANGED <<objects, silver, outPath, crashes, filled, emptied, overtaken, raced>>
BY DEF Glob, TypeInv, TypeOK, auxVars, ghostVars

(* What is done by no run, or by one. *)
LEMMA StepsOfRuns ==
    [Next]_vars => \/ Midnight \/ Land \/ Sense \/ SenseFails \/ MaterializeGold \/ UNCHANGED vars
                   \/ \E r \in Runs : \/ Leaves(r) \/ Glob(r) \/ Remove(r)
                                      \/ OpenFile(r) \/ CloseFile(r)
BY DEF Next, Step, Leaves

LEMMA OthersStay ==
    ASSUME TypeInv, NEW r \in Runs,
           Leaves(r) \/ Glob(r) \/ Remove(r) \/ OpenFile(r) \/ CloseFile(r)
    PROVE  \A s \in Runs \ {r} :
               /\ step'[s] = step[s] /\ date'[s] = date[s] /\ rows'[s] = rows[s]
               /\ stale'[s] = stale[s] /\ outPath'[s] = outPath[s]
BY OtherRuns DEF Step, Leaves

-----------------------------------------------------------------------------
(* A file is open exactly while it is written, and a name is taken once.   *)

LEMMA WriteStep == TypeInv /\ WriteInv /\ [Next]_vars => WriteInv'
<1> SUFFICES ASSUME TypeInv, WriteInv, [Next]_vars PROVE WriteInv'
    OBVIOUS
<1> USE OthersStay
<1>1. ASSUME Midnight \/ Land \/ Sense \/ SenseFails \/ MaterializeGold \/ UNCHANGED vars
      PROVE  WriteInv'
    BY <1>1, NoRunSteps DEF WriteInv
<1>2. ASSUME NEW r \in Runs, Leaves(r) PROVE WriteInv'
    <2>1. \A s \in Runs : step'[s] # "fill" => outPath'[s] = {}
        BY <1>2, LeavingSteps DEF WriteInv
    <2>2. \A s \in Runs : step'[s] = "fill" => rows'[s] # {} /\ outPath'[s] # {}
        BY <1>2, LeavingSteps DEF WriteInv
    <2>3. \A d \in Dates : \A f, g \in silver'[d] : f.name = g.name => f = g
        BY <1>2, LeavingFiles DEF WriteInv
    <2> QED
        BY <2>1, <2>2, <2>3 DEF WriteInv
<1>3. ASSUME NEW r \in Runs, Glob(r) \/ Remove(r) PROVE WriteInv'
    <2>1. /\ step[r] # "fill" /\ step'[r] # "fill" /\ UNCHANGED outPath
          /\ \A d \in Dates : silver'[d] \subseteq silver[d]
        <3>1. CASE Glob(r)
            BY <3>1, GlobFacts
        <3>2. CASE Remove(r)
            BY <3>2, RemoveFacts
        <3> QED
            BY <1>3, <3>1, <3>2
    <2>2. \A s \in Runs \ {r} : step'[s] = step[s] /\ rows'[s] = rows[s]
        BY <1>3
    <2>3. \A d \in Dates : \A f, g \in silver'[d] : f.name = g.name => f = g
        BY <2>1 DEF WriteInv
    <2> QED
        BY <2>1, <2>2, <2>3 DEF WriteInv
<1>4. ASSUME NEW r \in Runs, OpenFile(r) PROVE WriteInv'
    <2>1. /\ step'[r] = "fill" /\ rows'[r] # {}
          /\ date[r] \in Dates /\ DOMAIN silver = Dates /\ DOMAIN outPath = Runs
        BY <1>4, OpenFacts DEF TypeInv, TypeOK
    <2>2. PICK f : /\ f.name \notin NamesOf(date[r])
                   /\ outPath' = [outPath EXCEPT ![r] = {f.name}]
                   /\ silver' = [silver EXCEPT ![date[r]] = silver[date[r]] \cup {f}]
        BY <1>4, OpenFacts
    <2>3. outPath'[r] # {}
        BY <2>1, <2>2
    <2>4. \A d \in Dates : silver'[d] = IF d = date[r] THEN silver[d] \cup {f} ELSE silver[d]
        BY <2>1, <2>2
    <2>5. \A g \in silver[date[r]] : g.name # f.name
        BY <2>2 DEF NamesOf
    <2>6. ASSUME NEW d \in Dates, NEW g \in silver'[d], NEW h \in silver'[d], g.name = h.name
          PROVE  g = h
        <3>1. CASE g \in silver[d] /\ h \in silver[d]
            BY <2>6, <3>1 DEF WriteInv
        <3>2. /\ g \in silver[d] \/ (d = date[r] /\ g = f)
              /\ h \in silver[d] \/ (d = date[r] /\ h = f)
            <4>1. silver'[d] = IF d = date[r] THEN silver[d] \cup {f} ELSE silver[d]
                BY <2>4
            <4> QED
                BY <4>1
        <3> QED
            BY <2>5, <2>6, <3>1, <3>2
    <2>7. \A s \in Runs \ {r} : /\ step'[s] = step[s] /\ rows'[s] = rows[s]
                                /\ outPath'[s] = outPath[s]
        BY <1>4
    <2> QED
        BY <2>1, <2>3, <2>6, <2>7 DEF WriteInv
<1>5. ASSUME NEW r \in Runs, CloseFile(r) PROVE WriteInv'
    <2>1. /\ step'[r] # "fill" /\ outPath'[r] = {}
          /\ date[r] \in Dates /\ DOMAIN silver = Dates
        BY <1>5, CloseFacts, FinishLeaves DEF TypeInv, TypeOK
    <2>2. silver' = [silver EXCEPT ![date[r]] = {Closed(r, f) : f \in silver[date[r]]}]
        BY <1>5, CloseFacts
    <2>3. \A f \in silver[date[r]] : Closed(r, f).name = f.name
        BY <1>5, CloseFacts
    <2>4. ASSUME NEW d \in Dates, NEW g \in silver'[d], NEW h \in silver'[d], g.name = h.name
          PROVE  g = h
        <3>1. CASE d # date[r]
            BY <2>1, <2>2, <2>4, <3>1 DEF WriteInv
        <3>2. CASE d = date[r]
            <4>1. silver'[d] = {Closed(r, f) : f \in silver[d]}
                BY <2>1, <2>2, <3>2
            <4>2. PICK a \in silver[d] : g = Closed(r, a)
                BY <4>1
            <4>3. PICK b \in silver[d] : h = Closed(r, b)
                BY <4>1
            <4>4. a.name = b.name
                BY <2>3, <2>4, <3>2, <4>2, <4>3
            <4> QED
                BY <4>2, <4>3, <4>4 DEF WriteInv
        <3> QED
            BY <3>1, <3>2
    <2>5. \A s \in Runs \ {r} : /\ step'[s] = step[s] /\ rows'[s] = rows[s]
                                /\ outPath'[s] = outPath[s]
        BY <1>5
    <2> QED
        BY <2>1, <2>4, <2>5 DEF WriteInv
<1> QED
    BY <1>1, <1>2, <1>3, <1>4, <1>5, StepsOfRuns

LEMMA WriteInit == Init => WriteInv
BY DEF Init, WriteInv

-----------------------------------------------------------------------------
(* A rerun replaces the files of its date. *)

(* Fewer names, and the run that moved is not past its glob any more. *)
LEMMA ReplaceKept ==
    ASSUME TypeInv, TypeInv', ReplaceInv, NEW r \in Runs,
           step'[r] \notin {"remove", "write"}, UNCHANGED raced,
           \A s \in Runs \ {r} : /\ step'[s] = step[s] /\ date'[s] = date[s] /\ stale'[s] = stale[s]
                                 /\ s \in overtaken' <=> s \in overtaken,
           \A d \in Dates : NamesOf(d)' \subseteq NamesOf(d),
           \A d \in Dates : Cardinality(silver'[d]) <= Cardinality(silver[d])
    PROVE  ReplaceInv'
<1>1. \A s \in Runs : step'[s] = "write" => stale'[s] = {}
    BY DEF ReplaceInv
<1>2. ASSUME NEW s \in Runs \ overtaken', NEW d \in Dates, PastGlob(s, d)'
      PROVE  NamesOf(d)' \subseteq stale'[s]
    <2>1. s # r /\ s \notin overtaken /\ PastGlob(s, d) /\ stale'[s] = stale[s]
        BY <1>2 DEF PastGlob
    <2>2. NamesOf(d) \subseteq stale[s]
        BY <2>1 DEF ReplaceInv
    <2> QED
        BY <2>1, <2>2
<1>3. \A d \in Dates : /\ Cardinality(silver[d]) \in Nat /\ Cardinality(silver'[d]) \in Nat
                       /\ Cardinality(silver'[d]) <= Cardinality(silver[d])
    BY FS_CardinalityType DEF TypeInv
<1>4. RerunReplaces'
    BY <1>3 DEF ReplaceInv, RerunReplaces
<1> QED
    BY <1>1, <1>2, <1>4 DEF ReplaceInv

LEMMA FewerFiles ==
    ASSUME TypeInv, NEW d \in Dates, silver'[d] \subseteq silver[d]
    PROVE  /\ NamesOf(d)' \subseteq NamesOf(d)
           /\ Cardinality(silver'[d]) <= Cardinality(silver[d])
<1>1. silver'[d] \in SUBSET silver[d] /\ IsFiniteSet(silver[d])
    BY DEF TypeInv
<1> QED
    BY <1>1, FS_Subset DEF NamesOf

LEMMA ReplaceStep == TypeInv /\ TypeInv' /\ ReplaceInv /\ [Next]_vars => ReplaceInv'
<1> SUFFICES ASSUME TypeInv, TypeInv', ReplaceInv, [Next]_vars PROVE ReplaceInv'
    OBVIOUS
<1>1. ASSUME Midnight \/ Land \/ Sense \/ SenseFails \/ MaterializeGold \/ UNCHANGED vars
      PROVE  ReplaceInv'
    BY <1>1, NoRunSteps DEF ReplaceInv, RerunReplaces, PastGlob, NamesOf
<1>2. ASSUME NEW r \in Runs, Leaves(r) PROVE ReplaceInv'
    <2>1. step'[r] \notin {"remove", "write"} /\ UNCHANGED raced
        BY <1>2, LeavingSteps
    <2>2. \A s \in Runs \ {r} : /\ step'[s] = step[s] /\ date'[s] = date[s] /\ stale'[s] = stale[s]
                                /\ s \in overtaken' <=> s \in overtaken
        BY <1>2, LeavingSteps, OthersStay
    <2>3. \A d \in Dates : silver'[d] \subseteq silver[d]
        BY <1>2, LeavingFiles
    <2> QED
        BY <2>1, <2>2, <2>3, FewerFiles, ReplaceKept
<1>3. ASSUME NEW r \in Runs, Glob(r) PROVE ReplaceInv'
    <2>1. /\ stale'[r] = NamesOf(date[r]) /\ date'[r] = date[r]
          /\ step'[r] = IF stale'[r] = {} THEN "write" ELSE "remove"
          /\ UNCHANGED <<silver, overtaken, raced>>
        BY <1>3, GlobFacts
    <2>2. \A s \in Runs \ {r} : step'[s] = step[s] /\ date'[s] = date[s] /\ stale'[s] = stale[s]
        BY <1>3, OthersStay
    <2>3. \A d : NamesOf(d)' = NamesOf(d)
        BY <2>1 DEF NamesOf
    <2>4. \A s \in Runs : step'[s] = "write" => stale'[s] = {}
        BY <2>1, <2>2 DEF ReplaceInv
    <2>5. ASSUME NEW s \in Runs \ overtaken', NEW d \in Dates, PastGlob(s, d)'
          PROVE  NamesOf(d)' \subseteq stale'[s]
        <3>1. CASE s = r
            BY <2>1, <2>3, <2>5, <3>1 DEF PastGlob
        <3>2. CASE s # r
            <4>1. PastGlob(s, d) /\ s \notin overtaken
                BY <2>1, <2>2, <2>5, <3>2 DEF PastGlob
            <4> QED
                BY <2>2, <2>3, <3>2, <4>1 DEF ReplaceInv
        <3> QED
            BY <3>1, <3>2
    <2>6. RerunReplaces'
        BY <2>1 DEF ReplaceInv, RerunReplaces
    <2> QED
        BY <2>4, <2>5, <2>6 DEF ReplaceInv
<1>4. ASSUME NEW r \in Runs, Remove(r) PROVE ReplaceInv'
    <2>1. /\ step[r] = "remove" /\ date'[r] = date[r] /\ UNCHANGED <<overtaken, raced>>
          /\ step'[r] = IF stale'[r] = {} THEN "write" ELSE "remove"
          /\ \A d \in Dates \ {date[r]} : silver'[d] = silver[d]
        BY <1>4, RemoveFacts
    <2>2. PICK n : /\ stale'[r] = stale[r] \ {n}
                   /\ silver'[date[r]] = {f \in silver[date[r]] : f.name # n}
        BY <1>4, RemoveFacts
    <2>3. \A s \in Runs \ {r} : step'[s] = step[s] /\ date'[s] = date[s] /\ stale'[s] = stale[s]
        BY <1>4, OthersStay
    <2>4. \A s \in Runs : step'[s] = "write" => stale'[s] = {}
        BY <2>1, <2>3 DEF ReplaceInv
    <2>5. \A d \in Dates : silver'[d] \subseteq silver[d]
        BY <2>1, <2>2
    <2>6. ASSUME NEW s \in Runs \ overtaken', NEW d \in Dates, PastGlob(s, d)'
          PROVE  NamesOf(d)' \subseteq stale'[s]
        <3>1. PastGlob(s, d) /\ s \notin overtaken
            BY <2>1, <2>3, <2>6 DEF PastGlob
        <3>2. NamesOf(d) \subseteq stale[s] /\ NamesOf(d)' \subseteq NamesOf(d)
            BY <2>5, <3>1, FewerFiles DEF ReplaceInv
        <3>3. CASE s = r
            <4>1. n \notin NamesOf(d)'
                BY <2>2, <3>1, <3>3 DEF PastGlob, NamesOf
            <4> QED
                BY <2>2, <3>2, <3>3, <4>1
        <3>4. CASE s # r
            BY <2>3, <3>2, <3>4
        <3> QED
            BY <3>3, <3>4
    <2>7. RerunReplaces'
        <3>1. \A d \in Dates : /\ Cardinality(silver'[d]) <= Cardinality(silver[d])
                               /\ Cardinality(silver[d]) \in Nat /\ Cardinality(silver'[d]) \in Nat
            BY <2>5, FewerFiles, FS_CardinalityType DEF TypeInv
        <3> QED
            BY <2>1, <3>1 DEF ReplaceInv, RerunReplaces
    <2> QED
        BY <2>4, <2>6, <2>7 DEF ReplaceInv
<1>5. ASSUME NEW r \in Runs, OpenFile(r) PROVE ReplaceInv'
    <2>1. /\ step[r] = "write" /\ step'[r] = "fill"
          /\ raced' = IF r \in overtaken THEN raced \cup {date[r]} ELSE raced \ {date[r]}
          /\ \A s \in Runs \ {r} : s \in overtaken' <=> s \in overtaken \/ PastGlob(s, date[r])
        BY <1>5, OpenFacts
    <2>2. PICK f : silver' = [silver EXCEPT ![date[r]] = silver[date[r]] \cup {f}]
        BY <1>5, OpenFacts
    <2>3. date[r] \in Dates /\ DOMAIN silver = Dates
        BY DEF TypeInv, TypeOK
    <2>4. /\ silver'[date[r]] = silver[date[r]] \cup {f}
          /\ \A d \in Dates \ {date[r]} : silver'[d] = silver[d] /\ NamesOf(d)' = NamesOf(d)
        BY <2>2, <2>3 DEF NamesOf
    <2>5. \A s \in Runs \ {r} : step'[s] = step[s] /\ date'[s] = date[s] /\ stale'[s] = stale[s]
        BY <1>5, OthersStay
    <2>6. \A s \in Runs : step'[s] = "write" => stale'[s] = {}
        BY <2>1, <2>5 DEF ReplaceInv
    <2>7. ASSUME NEW s \in Runs \ overtaken', NEW d \in Dates, PastGlob(s, d)'
          PROVE  NamesOf(d)' \subseteq stale'[s]
        <3>1. s # r /\ PastGlob(s, d)
            BY <2>1, <2>5, <2>7 DEF PastGlob
        <3>2. s \notin overtaken /\ d # date[r]
            BY <2>1, <2>7, <3>1
        <3> QED
            BY <2>4, <2>5, <3>1, <3>2 DEF ReplaceInv
    <2>8. ASSUME r \notin overtaken PROVE Cardinality(silver'[date[r]]) = 1
        <3>1. NamesOf(date[r]) = {}
            BY <2>1, <2>3, <2>8 DEF ReplaceInv, PastGlob
        <3>2. silver[date[r]] = {}
            BY <3>1 DEF NamesOf
        <3>3. silver'[date[r]] = {f}
            BY <2>4, <3>2
        <3> QED
            BY <3>3, FS_Singleton
    <2>9. RerunReplaces'
        <3>1. ASSUME NEW d \in Dates, Cardinality(silver'[d]) > 1, d # date[r] PROVE d \in raced'
            BY <2>1, <2>4, <3>1 DEF ReplaceInv, RerunReplaces
        <3>2. ASSUME Cardinality(silver'[date[r]]) > 1 PROVE date[r] \in raced'
            BY <2>1, <2>8, <3>2
        <3> QED
            BY <3>1, <3>2 DEF RerunReplaces
    <2> QED
        BY <2>6, <2>7, <2>9 DEF ReplaceInv
<1>6. ASSUME NEW r \in Runs, CloseFile(r) PROVE ReplaceInv'
    <2>1. /\ step'[r] \notin {"remove", "write"} /\ UNCHANGED <<overtaken, raced>>
          /\ date[r] \in Dates /\ DOMAIN silver = Dates
        BY <1>6, CloseFacts, FinishLeaves DEF TypeInv, TypeOK
    <2>2. \A s \in Runs \ {r} : /\ step'[s] = step[s] /\ date'[s] = date[s] /\ stale'[s] = stale[s]
                                /\ s \in overtaken' <=> s \in overtaken
        BY <1>6, <2>1, OthersStay
    <2>3. /\ silver'[date[r]] = {Closed(r, f) : f \in silver[date[r]]}
          /\ \A d \in Dates \ {date[r]} : silver'[d] = silver[d]
          /\ \A f \in silver[date[r]] : Closed(r, f).name = f.name
        BY <1>6, <2>1, CloseFacts
    <2>4. /\ Cardinality(silver'[date[r]]) <= Cardinality(silver[date[r]])
          /\ \A d \in Dates : d = date[r] => NamesOf(d)' \subseteq NamesOf(d)
        <3> DEFINE closed == [f \in silver[date[r]] |-> Closed(r, f)]
        <3>1. closed \in Surjection(silver[date[r]], silver'[date[r]])
            BY <2>3 DEF Surjection
        <3>2. IsFiniteSet(silver[date[r]])
            BY <2>1 DEF TypeInv
        <3> HIDE DEF closed
        <3>3. Cardinality(silver'[date[r]]) <= Cardinality(silver[date[r]])
            BY <3>1, <3>2, FS_Surjection
        <3>4. \A g \in silver'[date[r]] : \E f \in silver[date[r]] : g.name = f.name
            BY <2>3
        <3> QED
            BY <3>3, <3>4 DEF NamesOf
    <2>5. \A d \in Dates : NamesOf(d)' \subseteq NamesOf(d)
        BY <2>3, <2>4 DEF NamesOf
    <2>6. \A d \in Dates : Cardinality(silver'[d]) <= Cardinality(silver[d])
        <3>1. ASSUME NEW d \in Dates, d # date[r]
              PROVE  Cardinality(silver'[d]) <= Cardinality(silver[d])
            <4>1. silver'[d] = silver[d] /\ Cardinality(silver[d]) \in Nat
                BY <2>3, <3>1, FS_CardinalityType DEF TypeInv
            <4> QED
                BY <4>1
        <3> QED
            BY <2>4, <3>1
    <2> QED
        BY <2>1, <2>2, <2>5, <2>6, ReplaceKept
<1> QED
    BY <1>1, <1>2, <1>3, <1>4, <1>5, <1>6, StepsOfRuns

(* However many rebuilds of a date there are, and wherever they fail or    *)
(* die, its second part-file is there only if a run that another had       *)
(* overtaken has opened the last one.                                      *)
THEOREM RerunsReplace == Spec => []RerunReplaces
<1>1. Init => ReplaceInv
    <2>1. ASSUME Init PROVE ReplaceInv
        <3>1. \A d \in Dates : silver[d] = {} /\ Cardinality(silver[d]) = 0
            BY <2>1, FS_EmptySet DEF Init
        <3> QED
            BY <2>1, <3>1 DEF Init, ReplaceInv, RerunReplaces, PastGlob
    <2> QED
        BY <2>1
<1>2. ReplaceInv => RerunReplaces
    BY DEF ReplaceInv
<1> QED
    BY <1>1, <1>2, TypeInit, TypeStep, ReplaceStep, PTL DEF Spec

-----------------------------------------------------------------------------
(* A rebuild that fails leaves the old file. *)

(* A date whose files a step has left alone is not harmed by it. *)
LEMMA FailureOther ==
    ASSUME FailureKeepsPartition, NEW r \in Runs, NEW d \in filled,
           d # date[r], silver'[d] = silver[d], emptied \subseteq emptied',
           \A s \in Runs \ {r} : step'[s] = step[s] /\ date'[s] = date[s],
           \A f \in silver'[d] : f.rows = {}
    PROVE  \/ d \in emptied'
           \/ \E s \in Runs : date'[s] = d /\ step'[s] \in {"remove", "write", "fill"}
BY DEF FailureKeepsPartition

LEMMA FailureStep ==
    TypeInv /\ WriteInv /\ FailureKeepsPartition /\ [Next]_vars => FailureKeepsPartition'
<1> SUFFICES ASSUME TypeInv, WriteInv, FailureKeepsPartition, [Next]_vars
             PROVE  FailureKeepsPartition'
    OBVIOUS
<1>0. filled \subseteq Dates /\ \A r \in Runs : date[r] \in Dates
    BY DEF TypeInv, TypeOK
<1>1. ASSUME Midnight \/ Land \/ Sense \/ SenseFails \/ MaterializeGold \/ UNCHANGED vars
      PROVE  FailureKeepsPartition'
    BY <1>1, NoRunSteps DEF FailureKeepsPartition
<1>2. ASSUME NEW r \in Runs, Leaves(r) PROVE FailureKeepsPartition'
    <2>1. \A s \in Runs \ {r} : step'[s] = step[s] /\ date'[s] = date[s]
        BY <1>2, OthersStay
    <2>2. UNCHANGED filled /\ emptied \subseteq emptied'
        BY <1>2, LeavingSteps
    <2>3. \A d \in Dates \ {date[r]} : silver'[d] = silver[d]
        BY <1>2, LeavingFiles
    <2>4. CASE step[r] \in {"remove", "write", "fill"}
        <3>1. date[r] \in emptied'
            BY <1>2, <2>4, LeavingSteps
        <3>2. ASSUME NEW d \in filled, d # date[r], \A f \in silver'[d] : f.rows = {}
              PROVE  \/ d \in emptied'
                     \/ \E s \in Runs : date'[s] = d /\ step'[s] \in {"remove", "write", "fill"}
            <4>1. silver'[d] = silver[d]
                BY <1>0, <2>3, <3>2
            <4> QED
                BY <2>1, <2>2, <3>2, <4>1, FailureOther
        <3> QED
            BY <2>2, <3>1, <3>2 DEF FailureKeepsPartition
    <2>5. CASE step[r] \notin {"remove", "write", "fill"}
        <3>1. emptied' = emptied /\ outPath[r] = {}
            BY <1>2, <2>5, LeavingSteps DEF WriteInv
        <3>2. \A d \in Dates : silver[d] \subseteq silver'[d]
            BY <1>2, <2>3, <3>1, LeavingFiles
        <3>3. ASSUME NEW d \in filled, \A f \in silver'[d] : f.rows = {}
              PROVE  \/ d \in emptied'
                     \/ \E s \in Runs : date'[s] = d /\ step'[s] \in {"remove", "write", "fill"}
            <4>1. \/ d \in emptied
                  \/ \E s \in Runs : date[s] = d /\ step[s] \in {"remove", "write", "fill"}
                BY <1>0, <3>2, <3>3 DEF FailureKeepsPartition
            <4> QED
                BY <2>1, <2>5, <3>1, <4>1
        <3> QED
            BY <2>2, <3>3 DEF FailureKeepsPartition
    <2> QED
        BY <2>4, <2>5
<1>3. ASSUME NEW r \in Runs, Glob(r) \/ Remove(r) \/ OpenFile(r) PROVE FailureKeepsPartition'
    <2>1. /\ date'[r] = date[r] /\ step'[r] \in {"remove", "write", "fill"}
          /\ UNCHANGED <<filled, emptied>>
          /\ \A d \in Dates \ {date[r]} : silver'[d] = silver[d]
        <3>1. CASE Glob(r)
            BY <3>1, GlobFacts
        <3>2. CASE Remove(r)
            BY <3>2, RemoveFacts
        <3>3. CASE OpenFile(r)
            <4>1. PICK f : silver' = [silver EXCEPT ![date[r]] = silver[date[r]] \cup {f}]
                BY <3>3, OpenFacts
            <4>2. \A d \in Dates \ {date[r]} : silver'[d] = silver[d]
                BY <4>1 DEF TypeInv, TypeOK
            <4> QED
                BY <3>3, <4>2, OpenFacts
        <3> QED
            BY <1>3, <3>1, <3>2, <3>3
    <2>2. \A s \in Runs \ {r} : step'[s] = step[s] /\ date'[s] = date[s]
        BY <1>3, OthersStay
    <2>3. ASSUME NEW d \in filled, d # date[r], \A f \in silver'[d] : f.rows = {}
          PROVE  \/ d \in emptied'
                 \/ \E s \in Runs : date'[s] = d /\ step'[s] \in {"remove", "write", "fill"}
        <3>1. silver'[d] = silver[d]
            BY <1>0, <2>1, <2>3
        <3> QED
            BY <2>1, <2>2, <2>3, <3>1, FailureOther
    <2> QED
        BY <2>1, <2>3 DEF FailureKeepsPartition
<1>4. ASSUME NEW r \in Runs, CloseFile(r) PROVE FailureKeepsPartition'
    <2>1. \A s \in Runs \ {r} : step'[s] = step[s] /\ date'[s] = date[s]
        BY <1>4, OthersStay
    <2>2. /\ step[r] = "fill" /\ date[r] \in Dates /\ DOMAIN silver = Dates
          /\ silver' = [silver EXCEPT ![date[r]] = {Closed(r, f) : f \in silver[date[r]]}]
          /\ \A f \in silver[date[r]] :
                Closed(r, f).rows = IF f.name \in outPath[r] THEN rows[r] ELSE f.rows
        <3>1. date[r] \in Dates /\ DOMAIN silver = Dates
            BY DEF TypeInv, TypeOK
        <3> QED
            BY <1>4, <3>1, CloseFacts
    <2>3. /\ silver'[date[r]] = {Closed(r, f) : f \in silver[date[r]]}
          /\ \A d \in Dates \ {date[r]} : silver'[d] = silver[d]
        BY <2>2
    <2>4. /\ emptied \subseteq emptied' /\ filled' \subseteq filled \cup {date[r]}
          /\ date[r] \in emptied' \/ outPath[r] \subseteq NamesOf(date[r])
        BY <1>4, CloseFacts
    <2>5. ASSUME outPath[r] \subseteq NamesOf(date[r])
          PROVE  \E g \in silver'[date[r]] : g.rows # {}
        <3>1. rows[r] # {} /\ outPath[r] # {}
            BY <2>2 DEF WriteInv
        <3>2. PICK f \in silver[date[r]] : f.name \in outPath[r]
            BY <2>5, <3>1 DEF NamesOf
        <3>3. Closed(r, f) \in silver'[date[r]] /\ Closed(r, f).rows # {}
            BY <2>2, <2>3, <3>1, <3>2
        <3> QED
            BY <3>3
    <2>6. ASSUME NEW d \in filled', d # date[r], \A f \in silver'[d] : f.rows = {}
          PROVE  \/ d \in emptied'
                 \/ \E s \in Runs : date'[s] = d /\ step'[s] \in {"remove", "write", "fill"}
        <3>1. d \in filled /\ silver'[d] = silver[d]
            BY <1>0, <2>3, <2>4, <2>6
        <3> QED
            BY <2>1, <2>4, <2>6, <3>1, FailureOther
    <2> QED
        BY <2>4, <2>5, <2>6 DEF FailureKeepsPartition
<1> QED
    BY <1>1, <1>2, <1>3, <1>4, StepsOfRuns

(* A date that has had a complete file has one, unless a run of it is past *)
(* its glob or ended there; a line that does not parse never costs the old *)
(* file.                                                                   *)
THEOREM FailuresKeepPartitions == Spec => []FailureKeepsPartition
<1>1. Init => FailureKeepsPartition
    BY DEF Init, FailureKeepsPartition
<1> QED
    BY <1>1, TypeInit, TypeStep, WriteInit, WriteStep, FailureStep, PTL DEF Spec

-----------------------------------------------------------------------------
(* Each date is requested once. *)

LEMMA RequestStep == TypeInv /\ RequestInv /\ [Next]_vars => RequestInv'
<1> SUFFICES ASSUME TypeInv, RequestInv, [Next]_vars PROVE RequestInv'
    OBVIOUS
<1>1. CASE UNCHANGED <<objects, sensorVars>>
    BY <1>1 DEF RequestInv, RequestedOnce, Available, ObjectsOf, sensorVars
<1>2. CASE Land
    <2>1. objects \subseteq objects' /\ UNCHANGED sensorVars
        BY <1>2 DEF Land
    <2>2. Available \subseteq Available'
        BY <2>1 DEF Available, ObjectsOf
    <2> QED
        BY <2>1, <2>2 DEF RequestInv, RequestedOnce, sensorVars
<1>3. CASE Sense
    <2>1. /\ UNCHANGED <<objects, launched>> /\ cursor' = Available
          /\ queue' = queue \cup (Available \ cursor)
        BY <1>3 DEF Sense
    <2>2. Available' = Available
        BY <2>1 DEF Available, ObjectsOf
    <2>3. cursor \ queue \subseteq cursor' \ queue' /\ queue' \subseteq cursor'
        BY <2>1 DEF RequestInv, RequestedOnce
    <2>4. ASSUME NEW d \in Dates PROVE launched'[d] <= IF d \in cursor' \ queue' THEN 1 ELSE 0
        <3>1. /\ launched[d] <= IF d \in cursor \ queue THEN 1 ELSE 0
              /\ launched[d] \in Nat
            BY DEF RequestInv, RequestedOnce, TypeInv, TypeOK
        <3> QED
            BY <2>1, <2>3, <3>1
    <2> QED
        BY <2>1, <2>2, <2>3, <2>4 DEF RequestInv, RequestedOnce
<1>4. ASSUME NEW r \in Runs, Launch(r) PROVE RequestInv'
    <2>1. PICK d \in queue : /\ queue' = queue \ {d}
                             /\ launched' = [launched EXCEPT ![d] = @ + 1]
        BY <1>4 DEF Launch
    <2>2. UNCHANGED <<objects, cursor>>
        BY <1>4 DEF Launch
    <2>3. Available' = Available
        BY <2>2 DEF Available, ObjectsOf
    <2>4. ASSUME NEW e \in Dates PROVE launched'[e] <= IF e \in cursor' \ queue' THEN 1 ELSE 0
        <3>1. /\ launched[e] <= IF e \in cursor \ queue THEN 1 ELSE 0
              /\ launched \in [Dates -> Nat]
            BY DEF RequestInv, RequestedOnce, TypeInv, TypeOK
        <3>2. CASE e = d
            <4>1. launched'[e] = launched[e] + 1 /\ launched[e] = 0
                BY <2>1, <3>1, <3>2
            <4>2. e \in cursor' \ queue'
                BY <2>1, <2>2, <3>2 DEF RequestInv, RequestedOnce
            <4> QED
                BY <4>1, <4>2
        <3>3. CASE e # d
            <4>1. launched'[e] = launched[e] /\ (e \in cursor' \ queue' <=> e \in cursor \ queue)
                BY <2>1, <2>2, <3>1, <3>3
            <4> QED
                BY <3>1, <4>1
        <3> QED
            BY <3>2, <3>3
    <2> QED
        BY <2>1, <2>2, <2>3, <2>4 DEF RequestInv, RequestedOnce
<1>5. ASSUME Midnight \/ SenseFails \/ MaterializeGold \/ UNCHANGED vars PROVE RequestInv'
    BY <1>1, <1>5 DEF Midnight, SenseFails, MaterializeGold, vars
<1>6. ASSUME NEW r \in Runs, Backfill(r) \/ Step(r) \/ Crash(r) PROVE RequestInv'
    BY <1>1, <1>6 DEF Backfill, Step, List, ListFails, Glob, Remove, RemoveFails, WriteNothing, OpenFile,
                         CloseFile, Build, Crash
<1> QED
    BY <1>2, <1>3, <1>4, <1>5, <1>6 DEF Next

(* A date starts at most one run of the asset, whatever lands in it after  *)
(* the request, and what is queued has been noted in the cursor.           *)
THEOREM DatesAreRequestedOnce == Spec => []RequestedOnce
<1>1. Init => RequestInv
    BY DEF Init, RequestInv, RequestedOnce, Available
<1>2. RequestInv => RequestedOnce
    BY DEF RequestInv
<1> QED
    BY <1>1, <1>2, TypeInit, TypeStep, RequestStep, PTL DEF Spec

-----------------------------------------------------------------------------
(* The rows of a rebuild are the ticks it has read, numbered. *)

LEMMA FirstKeyIsNatural ==
    ASSUME NEW objs, \A o \in objs : o.key \in Nat, NEW l \in TicksOf(objs)
    PROVE  FirstKey(objs, l) \in Nat
<1> DEFINE keys == {o.key : o \in {q \in objs : l \in q.lines}}
<1>1. keys \in SUBSET Nat
    OBVIOUS
<1>2. PICK o \in objs : l \in o.lines
    BY DEF TicksOf, LinesOf
<1>3. o.key \in keys
    BY <1>2
<1> HIDE DEF keys
<1>4. Min(keys) \in Nat
    BY <1>1, <1>3, MinProperties
<1> QED
    BY <1>4 DEF FirstKey, keys

(* What is seen before a line, and no two lines have as many before them.  *)
LEMMA RankIsInjective ==
    ASSUME NEW objs, \A o \in objs : o.key \in Nat,
           IsFiniteSet(TicksOf(objs)), TicksOf(objs) \subseteq Nat,
           NEW k \in TicksOf(objs), NEW l \in TicksOf(objs), Rank(objs, k) = Rank(objs, l)
    PROVE  k = l
<1> DEFINE T == TicksOf(objs)
           Upto(m) == {j \in T : SeenBefore(objs, j, m)}
<1>1. \A m \in T : m \in Nat /\ FirstKey(objs, m) \in Nat
    BY FirstKeyIsNatural
<1>2. SeenBefore(objs, k, l) \/ SeenBefore(objs, l, k)
    BY <1>1 DEF SeenBefore
<1>3. ASSUME NEW a \in T, NEW b \in T, SeenBefore(objs, a, b), Rank(objs, a) = Rank(objs, b)
      PROVE  a = b
    <2>1. Upto(a) \subseteq Upto(b)
        <3>1. ASSUME NEW j \in T, SeenBefore(objs, j, a) PROVE SeenBefore(objs, j, b)
            BY <1>1, <1>3, <3>1 DEF SeenBefore
        <3> QED
            BY <3>1
    <2>2. IsFiniteSet(Upto(b))
        <3>1. Upto(b) \in SUBSET T
            OBVIOUS
        <3> QED
            BY <3>1, FS_Subset
    <2>3. Cardinality(Upto(a)) = Cardinality(Upto(b))
        BY <1>3 DEF Rank
    <2>4. Upto(a) = Upto(b)
        BY <2>1, <2>2, <2>3, FS_Subset
    <2>5. SeenBefore(objs, b, b)
        BY <1>1 DEF SeenBefore
    <2>6. SeenBefore(objs, b, a)
        BY <2>4, <2>5
    <2> QED
        BY <1>1, <1>3, <2>6 DEF SeenBefore
<1> QED
    BY <1>2, <1>3

(* They are numbered from 1 without holes, one row for each. *)
LEMMA RowsAreExact ==
    ASSUME NEW objs, \A o \in objs : o.key \in Nat,
           IsFiniteSet(TicksOf(objs)), TicksOf(objs) \subseteq Nat
    PROVE  /\ {row.line : row \in RowsOf(objs)} = TicksOf(objs)
           /\ IsFiniteSet(RowsOf(objs)) /\ Cardinality(RowsOf(objs)) = Cardinality(TicksOf(objs))
           /\ {row.sequence : row \in RowsOf(objs)} = 1 .. Cardinality(TicksOf(objs))
<1> DEFINE T == TicksOf(objs)
           n == Cardinality(T)
           RowOf(l) == [line |-> l, sequence |-> Rank(objs, l)]
           rank == [l \in T |-> Rank(objs, l)]
           row == [l \in T |-> RowOf(l)]
<1>1. n \in Nat
    BY FS_CardinalityType
<1>2. ASSUME NEW l \in T PROVE Rank(objs, l) \in 1 .. n
    <2> DEFINE upto == {k \in T : SeenBefore(objs, k, l)}
    <2>1. upto \in SUBSET T
        OBVIOUS
    <2>2. IsFiniteSet(upto) /\ Cardinality(upto) <= n /\ Cardinality(upto) \in Nat
        BY <2>1, FS_Subset, FS_CardinalityType
    <2>3. l \in upto
        <3>1. l \in Nat /\ FirstKey(objs, l) \in Nat
            BY FirstKeyIsNatural
        <3> QED
            BY <3>1 DEF SeenBefore
    <2>4. Cardinality(upto) # 0
        BY <2>2, <2>3, FS_EmptySet
    <2>5. Rank(objs, l) = Cardinality(upto)
        BY DEF Rank
    <2> HIDE DEF upto
    <2> QED
        BY <1>1, <2>2, <2>4, <2>5
<1>3. \A k, l \in T : Rank(objs, k) = Rank(objs, l) => k = l
    BY RankIsInjective
<1>4. rank \in Injection(T, 1 .. n)
    BY <1>2, <1>3 DEF Injection, IsInjective
<1>5. IsFiniteSet(1 .. n) /\ Cardinality(1 .. n) = n
    BY <1>1, FS_Interval
<1>6. rank \in Surjection(T, 1 .. n)
    BY <1>4, <1>5, FS_Injection
<1>7. \A i \in 1 .. n : \E l \in T : Rank(objs, l) = i
    BY <1>6 DEF Surjection
<1>8. RowsOf(objs) = {RowOf(l) : l \in T}
    BY DEF RowsOf
<1>9. \A l \in T : RowOf(l).line = l /\ RowOf(l).sequence = Rank(objs, l)
    OBVIOUS
<1> HIDE DEF RowOf, T, n
<1>10. {x.line : x \in RowsOf(objs)} = T
    BY <1>8, <1>9
<1>11. {x.sequence : x \in RowsOf(objs)} = 1 .. n
    BY <1>2, <1>7, <1>8, <1>9
<1>12. row \in Bijection(T, RowsOf(objs))
    <2>1. row \in [T -> RowsOf(objs)] /\ \A l \in T : row[l] = RowOf(l)
        BY <1>8
    <2>2. \A k, l \in T : row[k] = row[l] => k = l
        BY <1>9, <2>1
    <2>3. \A x \in RowsOf(objs) : \E l \in T : row[l] = x
        BY <1>8, <2>1
    <2> HIDE DEF row
    <2> QED
        BY <2>1, <2>2, <2>3 DEF Bijection, Injection, Surjection, IsInjective
<1>13. IsFiniteSet(RowsOf(objs)) /\ Cardinality(RowsOf(objs)) = n
    BY <1>12, FS_Bijection DEF ExistsBijection, n, T
<1> QED
    BY <1>10, <1>11, <1>13 DEF n, T

-----------------------------------------------------------------------------
(* Every complete file holds such rows. *)

(* What a rebuild has listed stays a set of objects of its date. *)
LEMMA ObjectsStay ==
    ASSUME objects \subseteq objects', NEW rs, NEW d, RowsFrom(objects, rs, d)
    PROVE  RowsFrom(objects', rs, d)
BY DEF RowsFrom

LEMMA ObjectsOnlyGrow == [Next]_vars => objects \subseteq objects'
<1> SUFFICES ASSUME [Next]_vars PROVE objects \subseteq objects'
    OBVIOUS
<1>1. CASE Land
    BY <1>1 DEF Land
<1>2. ASSUME Midnight \/ Sense \/ SenseFails \/ MaterializeGold \/ UNCHANGED vars
      PROVE  objects \subseteq objects'
    BY <1>2 DEF Midnight, Sense, SenseFails, MaterializeGold, vars
<1>3. ASSUME NEW r \in Runs, Launch(r) \/ Backfill(r) \/ Step(r) \/ Crash(r)
      PROVE  objects \subseteq objects'
    BY <1>3 DEF Launch, Backfill, Step, List, ListFails, Glob, Remove, RemoveFails, WriteNothing,
                OpenFile, CloseFile, Build, Crash
<1> QED
    BY <1>1, <1>2, <1>3 DEF Next

(* A file that is not complete has its excuse. *)
Excused(f, d) == crashes > 0 \/ \E r \in Runs : date[r] = d /\ f.name \in outPath[r]

LEMMA ExactStep == TypeInv /\ WriteInv /\ ExactInv /\ [Next]_vars => ExactInv'
<1> SUFFICES ASSUME TypeInv, WriteInv, ExactInv, [Next]_vars PROVE ExactInv'
    OBVIOUS
<1>0. \A d : \A rs : RowsFrom(objects, rs, d) => RowsFrom(objects', rs, d)
    BY ObjectsOnlyGrow, ObjectsStay
<1>1. ASSUME Midnight \/ Land \/ Sense \/ SenseFails \/ MaterializeGold \/ UNCHANGED vars
      PROVE  ExactInv'
    BY <1>0, <1>1, NoRunSteps DEF ExactInv
<1>2. ASSUME NEW r \in Runs,
             Leaves(r) \/ Glob(r) \/ Remove(r) \/ OpenFile(r) \/ CloseFile(r),
             step'[r] \in {"glob", "remove", "write", "fill"} =>
                 RowsFrom(objects, rows'[r], date'[r]),
             \A d \in Dates : \A f \in silver'[d] :
                 /\ f \in silver[d] \/ f.rows = {} \/ RowsFrom(objects, f.rows, d)
                 /\ f.rows = {} => Excused(f, d)'
      PROVE  ExactInv'
    <2>1. \A s \in Runs \ {r} : step'[s] = step[s] /\ date'[s] = date[s] /\ rows'[s] = rows[s]
        BY <1>2, OthersStay
    <2>2. ASSUME NEW s \in Runs, step'[s] \in {"glob", "remove", "write", "fill"}
          PROVE  RowsFrom(objects', rows'[s], date'[s])
        <3>1. CASE s = r
            BY <1>0, <1>2, <2>2, <3>1
        <3>2. CASE s # r
            BY <1>0, <2>1, <2>2, <3>2 DEF ExactInv
        <3> QED
            BY <3>1, <3>2
    <2>3. ASSUME NEW d \in Dates, NEW f \in silver'[d]
          PROVE  /\ f.rows # {} => RowsFrom(objects', f.rows, d)
                 /\ f.rows = {} => Excused(f, d)'
        BY <1>0, <1>2 DEF ExactInv
    <2> QED
        BY <2>2, <2>3 DEF ExactInv, Excused
<1>3. ASSUME NEW r \in Runs, Leaves(r) PROVE ExactInv'
    <2>1. \A d \in Dates : silver'[d] \subseteq silver[d]
        BY <1>3, LeavingFiles
    <2>2. step'[r] \in {"glob", "remove", "write", "fill"} => RowsFrom(objects, rows'[r], date'[r])
        <3>1. CASE List(r)
            <4>1. /\ step[r] = "list" /\ Legible(date[r]) /\ date'[r] = date[r]
                  /\ rows'[r] = RowsOf(ObjectsOf(date[r]))
                BY <3>1 DEF List, TypeInv, TypeOK
            <4>2. \A d : /\ ObjectsOf(d) \in SUBSET objects
                         /\ \A o \in ObjectsOf(d) : \E l \in o.lines : DateOf[l] = d
                BY DEF ObjectsOf
            <4>3. \A d : Legible(d) => LinesOf(ObjectsOf(d)) \cap Unreadable = {}
                BY DEF Legible, LinesOf
            <4> QED
                BY <4>1, <4>2, <4>3 DEF RowsFrom
        <3>2. CASE ~List(r)
            <4>1. ASSUME Fail(r) \/ End(r) PROVE step'[r] = "idle"
                BY <4>1 DEF Fail, End, TypeInv, TypeOK
            <4>2. CASE Launch(r) \/ Backfill(r)
                BY <4>2 DEF Launch, Backfill, TypeInv, TypeOK
            <4>3. CASE WriteNothing(r)
                <5>1. Finish(r)
                    BY <4>3 DEF WriteNothing
                <5> QED
                    BY <5>1, FinishLeaves
            <4>4. CASE ListFails(r) \/ RemoveFails(r) \/ Crash(r) \/ Build(r)
                BY <4>1, <4>4 DEF ListFails, RemoveFails, Crash, Build
            <4> QED
                BY <1>3, <3>2, <4>2, <4>3, <4>4 DEF Leaves
        <3> QED
            BY <3>1, <3>2
    <2>3. ASSUME NEW d \in Dates, NEW f \in silver'[d], f.rows = {} PROVE Excused(f, d)'
        <3>1. CASE Crash(r)
            <4>0. crashes' = crashes + 1
                BY <3>1 DEF Crash
            <4>1. crashes \in 0 .. MaxCrashes
                BY DEF TypeInv, TypeOK
            <4>2. crashes' > 0
                BY <4>0, <4>1
            <4> QED
                BY <4>2 DEF Excused
        <3>2. CASE ~Crash(r)
            <4>1. UNCHANGED <<silver, crashes>> /\ outPath[r] = {}
                BY <1>3, <3>2, LeavingSteps DEF WriteInv
            <4>2. crashes > 0 \/ \E s \in Runs : date[s] = d /\ f.name \in outPath[s]
                BY <2>3, <4>1 DEF ExactInv
            <4>3. \A s \in Runs \ {r} : date'[s] = date[s] /\ outPath'[s] = outPath[s]
                BY <1>3, OthersStay
            <4> QED
                BY <4>1, <4>2, <4>3 DEF Excused
        <3> QED
            BY <3>1, <3>2
    <2> QED
        BY <1>2, <1>3, <2>1, <2>2, <2>3
<1>4. ASSUME NEW r \in Runs, Glob(r) \/ Remove(r) PROVE ExactInv'
    <2>1. /\ step[r] \in {"glob", "remove"} /\ date'[r] = date[r] /\ rows'[r] = rows[r]
          /\ UNCHANGED <<outPath, crashes>>
          /\ \A d \in Dates : silver'[d] \subseteq silver[d]
        <3>1. CASE Glob(r)
            BY <3>1, GlobFacts
        <3>2. CASE Remove(r)
            BY <3>2, RemoveFacts
        <3> QED
            BY <1>4, <3>1, <3>2
    <2>2. RowsFrom(objects, rows[r], date[r])
        BY <2>1 DEF ExactInv
    <2>3. \A s \in Runs : date'[s] = date[s]
        BY <1>4, <2>1, OthersStay
    <2>4. ASSUME NEW d \in Dates, NEW f \in silver'[d], f.rows = {} PROVE Excused(f, d)'
        <3>1. crashes > 0 \/ \E s \in Runs : date[s] = d /\ f.name \in outPath[s]
            BY <2>1, <2>4 DEF ExactInv
        <3> QED
            BY <2>1, <2>3, <3>1 DEF Excused
    <2> QED
        BY <1>2, <1>4, <2>1, <2>2, <2>4
<1>5. ASSUME NEW r \in Runs, OpenFile(r) PROVE ExactInv'
    <2>1. /\ step[r] = "write" /\ date'[r] = date[r] /\ rows'[r] = rows[r]
          /\ crashes' = crashes /\ outPath[r] = {}
          /\ date[r] \in Dates /\ DOMAIN silver = Dates /\ DOMAIN outPath = Runs
        BY <1>5, OpenFacts DEF TypeInv, TypeOK, WriteInv
    <2>2. RowsFrom(objects, rows[r], date[r])
        BY <2>1 DEF ExactInv
    <2>3. PICK n : /\ n.rows = {} /\ outPath' = [outPath EXCEPT ![r] = {n.name}]
                   /\ silver' = [silver EXCEPT ![date[r]] = silver[date[r]] \cup {n}]
        BY <1>5, OpenFacts
    <2>4. \A d \in Dates : silver'[d] = IF d = date[r] THEN silver[d] \cup {n} ELSE silver[d]
        BY <2>1, <2>3
    <2>5. \A s \in Runs \ {r} : date'[s] = date[s] /\ outPath'[s] = outPath[s]
        BY <1>5, OthersStay
    <2>6. ASSUME NEW d \in Dates, NEW f \in silver'[d], f \notin silver[d] PROVE d = date[r] /\ f = n
        <3>1. silver'[d] = IF d = date[r] THEN silver[d] \cup {n} ELSE silver[d]
            BY <2>4
        <3> QED
            BY <2>6, <3>1
    <2>7. ASSUME NEW d \in Dates, NEW f \in silver'[d], f.rows = {} PROVE Excused(f, d)'
        <3>1. CASE f \in silver[d]
            <4>1. crashes > 0 \/ \E s \in Runs : date[s] = d /\ f.name \in outPath[s]
                BY <2>7, <3>1 DEF ExactInv
            <4> QED
                BY <2>1, <2>5, <4>1 DEF Excused
        <3>2. CASE f \notin silver[d]
            <4>1. date'[r] = d /\ f.name \in outPath'[r]
                BY <2>1, <2>3, <2>6, <3>2
            <4> QED
                BY <4>1 DEF Excused
        <3> QED
            BY <3>1, <3>2
    <2>8. \A d \in Dates : \A f \in silver'[d] : f \in silver[d] \/ f.rows = {}
        BY <2>3, <2>6
    <2> QED
        BY <1>2, <1>5, <2>1, <2>2, <2>7, <2>8
<1>6. ASSUME NEW r \in Runs, CloseFile(r) PROVE ExactInv'
    <2>1. /\ step[r] = "fill" /\ step'[r] \notin {"glob", "remove", "write", "fill"}
          /\ crashes' = crashes
        BY <1>6, CloseFacts, FinishLeaves
    <2>2. date[r] \in Dates /\ DOMAIN silver = Dates
        BY DEF TypeInv, TypeOK
    <2>3. RowsFrom(objects, rows[r], date[r]) /\ rows[r] # {}
        BY <2>1 DEF ExactInv, WriteInv
    <2>4. /\ silver'[date[r]] = {Closed(r, f) : f \in silver[date[r]]}
          /\ \A d \in Dates \ {date[r]} : silver'[d] = silver[d]
        BY <1>6, <2>2, CloseFacts
    <2>5. ASSUME NEW d \in Dates, NEW f \in silver'[d]
          PROVE  \/ f \in silver[d] /\ (date[r] # d \/ f.name \notin outPath[r])
                 \/ f.rows # {} /\ RowsFrom(objects, f.rows, d)
        <3>1. CASE d # date[r]
            BY <2>4, <3>1
        <3>2. CASE d = date[r]
            <4>1. PICK g \in silver[date[r]] : f = Closed(r, g)
                BY <2>4, <3>2
            <4>2. CASE g.name \in outPath[r]
                <5>1. f.rows = rows[r]
                    BY <1>6, <4>1, <4>2, CloseFacts
                <5> QED
                    BY <2>3, <3>2, <5>1
            <4>3. CASE g.name \notin outPath[r]
                <5>1. f = g
                    BY <4>1, <4>3 DEF Closed
                <5> QED
                    BY <3>2, <4>3, <5>1
            <4> QED
                BY <4>2, <4>3
        <3> QED
            BY <3>1, <3>2
    <2>6. \A s \in Runs \ {r} : date'[s] = date[s] /\ outPath'[s] = outPath[s]
        BY <1>6, OthersStay
    <2>7. ASSUME NEW d \in Dates, NEW f \in silver'[d], f.rows = {} PROVE Excused(f, d)'
        <3>1. f \in silver[d] /\ (date[r] # d \/ f.name \notin outPath[r])
            BY <2>5, <2>7
        <3>2. crashes > 0 \/ \E s \in Runs : date[s] = d /\ f.name \in outPath[s]
            BY <2>7, <3>1 DEF ExactInv
        <3> QED
            BY <2>1, <2>6, <3>1, <3>2 DEF Excused
    <2>8. \A d \in Dates : \A f \in silver'[d] : f \in silver[d] \/ RowsFrom(objects, f.rows, d)
        BY <2>5
    <2> QED
        BY <1>2, <1>6, <2>1, <2>7, <2>8
<1> QED
    BY <1>1, <1>3, <1>4, <1>5, <1>6, StepsOfRuns

(* What a complete file holds, whatever objects it was made of. *)
Exact(f, d) ==
    LET lines == {row.line : row \in f.rows}
    IN  /\ \E objs \in SUBSET ObjectsOf(d) : lines = TicksOf(objs)
        /\ Cardinality(f.rows) = Cardinality(lines)
        /\ {row.sequence : row \in f.rows} = 1 .. Cardinality(lines)
        /\ lines \cap Unreadable = {}

LEMMA ExactFiles == TypeInv /\ ExactInv => FilesAreExact
<1> SUFFICES ASSUME TypeInv, ExactInv, NEW d \in Dates, NEW f \in silver[d], f.rows # {}
             PROVE  Exact(f, d)
    BY DEF FilesAreExact, Exact, ExactInv
<1>0. PICK objs \in SUBSET objects :
          /\ \A o \in objs : \E l \in o.lines : DateOf[l] = d
          /\ f.rows = RowsOf(objs) /\ LinesOf(objs) \cap Unreadable = {}
    BY DEF ExactInv, RowsFrom
<1>1. /\ objs \in SUBSET ObjectsOf(d)
      /\ f.rows = RowsOf(objs) /\ LinesOf(objs) \cap Unreadable = {}
    BY <1>0 DEF ObjectsOf
<1>2. objs \subseteq objects /\ IsFiniteSet(TicksOf(objs)) /\ TicksOf(objs) \subseteq Lines
    BY <1>1, LinesOfSome
<1>3. \A o \in objs : o.key \in Nat
    BY <1>2 DEF TypeInv, TypeOK
<1>4. TicksOf(objs) \subseteq Nat
    BY <1>2
<1>5. /\ {row.line : row \in f.rows} = TicksOf(objs)
      /\ Cardinality(f.rows) = Cardinality(TicksOf(objs))
      /\ {row.sequence : row \in f.rows} = 1 .. Cardinality(TicksOf(objs))
    BY <1>1, <1>2, <1>3, <1>4, RowsAreExact
<1>6. TicksOf(objs) \cap Unreadable = {}
    BY <1>1 DEF TicksOf
<1> QED
    BY <1>1, <1>5, <1>6 DEF Exact

(* Whatever runs interleave, and wherever they die, a complete part-file   *)
(* has one row for each tick of the objects it was made of, numbered from  *)
(* 1 without holes, and another is being written or was left by a death.   *)
THEOREM FilesHoldWholeObjects == Spec => []FilesAreExact
<1>1. Init => ExactInv
    BY DEF Init, ExactInv
<1> QED
    BY <1>1, TypeInit, TypeStep, WriteInit, WriteStep, ExactStep, ExactFiles, PTL DEF Spec

-----------------------------------------------------------------------------
(* The gold build: fct_ticks has the rows of all part-files.               *)

(* An object has lines of one date, and there are finitely many rows.      *)
GoldInv ==
    /\ \A o \in objects : \A k, l \in o.lines : DateOf[k] = DateOf[l]
    /\ IsFiniteSet(GoldRows)

RowsOfFile(f) == {<<f.name, row>> : row \in f.rows}

LEMMA GoldRowsOfFiles ==
    /\ \A d \in Dates : \A f \in silver[d] : RowsOfFile(f) \subseteq GoldRows
    /\ \A g \in GoldRows : \E d \in Dates : \E f \in silver[d] : g \in RowsOfFile(f)
<1>1. GoldRows = UNION {RowsOfFile(f) : f \in PartFiles}
    BY DEF GoldRows, RowsOfFile
<1>2. \A f : f \in PartFiles <=> \E d \in Dates : f \in silver[d]
    BY DEF PartFiles
<1>3. \A g : g \in GoldRows <=> \E f \in PartFiles : g \in RowsOfFile(f)
    BY <1>1
<1> QED
    BY <1>2, <1>3

(* The lines of a new object are of one date. *)
LEMMA LinesOfOneDate ==
    ASSUME NEW lines \in SUBSET Lines, IsFiniteSet(lines),
           Cardinality({DateOf[l] : l \in lines}) = 1
    PROVE  \A k, l \in lines : DateOf[k] = DateOf[l]
<1> DEFINE days == {DateOf[l] : l \in lines}
           day == [l \in lines |-> DateOf[l]]
<1>1. day \in Surjection(lines, days)
    BY DEF Surjection
<1>2. IsFiniteSet(days)
    BY <1>1, FS_Surjection
<1>3. PICK d : days = {d}
    BY <1>2, FS_Singleton
<1>4. \A l \in lines : DateOf[l] \in days
    OBVIOUS
<1> QED
    BY <1>3, <1>4

(* What a file holds: numbered from 1, no number twice, of its date.       *)
LEMMA RowsOfWhole ==
    ASSUME TypeInv, NEW d \in Dates, NEW rs, RowsFrom(objects, rs, d)
    PROVE  /\ IsFiniteSet(rs)
           /\ rs # {} => \E row \in rs : row.sequence = 1
           /\ \A a, b \in rs : a.sequence = b.sequence => a = b
           /\ \A row \in rs : \E o \in objects : /\ row.line \in o.lines
                                               /\ \E l \in o.lines : DateOf[l] = d
<1>1. PICK objs \in SUBSET objects :
          (\A o \in objs : \E l \in o.lines : DateOf[l] = d) /\ rs = RowsOf(objs)
    BY DEF RowsFrom
<1>2. objs \in SUBSET ObjectsOf(d)
    BY <1>1 DEF ObjectsOf
<1>3. /\ IsFiniteSet(TicksOf(objs)) /\ TicksOf(objs) \subseteq Nat
      /\ \A o \in objs : o.key \in Nat
    BY <1>2, LinesOfSome DEF TypeInv, TypeOK
<1>4. /\ {row.line : row \in rs} = TicksOf(objs) /\ IsFiniteSet(rs)
      /\ {row.sequence : row \in rs} = 1 .. Cardinality(rs)
    BY <1>1, <1>3, RowsAreExact
<1> DEFINE n == Cardinality(rs)
           number == [row \in rs |-> row.sequence]
<1>5. n \in Nat /\ (rs # {} => n # 0)
    BY <1>4, FS_CardinalityType, FS_EmptySet
<1>6. Cardinality(1 .. n) = n
    BY <1>5, FS_Interval
<1> HIDE DEF n
<1>7. number \in Surjection(rs, 1 .. n)
    BY <1>4 DEF Surjection, n
<1>8. number \in Injection(rs, 1 .. n)
    BY <1>4, <1>6, <1>7, FS_Surjection DEF n
<1>9. \A a, b \in rs : a.sequence = b.sequence => a = b
    BY <1>8 DEF Injection, IsInjective
<1>10. ASSUME rs # {} PROVE \E row \in rs : row.sequence = 1
    <2>1. 1 \in 1 .. n
        BY <1>5, <1>10
    <2> QED
        BY <1>4, <2>1 DEF n
<1>11. ASSUME NEW row \in rs
       PROVE  \E o \in objects : row.line \in o.lines /\ \E l \in o.lines : DateOf[l] = d
    <2>1. row.line \in TicksOf(objs)
        BY <1>4
    <2> QED
        BY <1>1, <2>1 DEF TicksOf, LinesOf
<1> QED
    BY <1>4, <1>9, <1>10, <1>11

LEMMA GoldStep == TypeInv /\ WriteInv /\ ExactInv /\ GoldInv /\ [Next]_vars => GoldInv'
<1> SUFFICES ASSUME TypeInv, WriteInv, ExactInv, GoldInv, [Next]_vars PROVE GoldInv'
    OBVIOUS
<1>1. ASSUME UNCHANGED objects, NEW new, IsFiniteSet(new), GoldRows' \subseteq GoldRows \cup new
      PROVE  GoldInv'
    <2>1. GoldRows' \in SUBSET (GoldRows \cup new) /\ IsFiniteSet(GoldRows \cup new)
        BY <1>1, FS_Union DEF GoldInv
    <2>2. IsFiniteSet(GoldRows')
        BY <2>1, FS_Subset
    <2> QED
        BY <1>1, <2>2 DEF GoldInv
<1>0. ASSUME UNCHANGED objects, \A d \in Dates : silver'[d] \subseteq silver[d] PROVE GoldInv'
    <2>1. GoldRows' \subseteq GoldRows \cup {}
        BY <1>0 DEF GoldRows, PartFiles
    <2> QED
        BY <1>0, <1>1, <2>1, FS_EmptySet
<1>2. CASE Land
    <2>1. PICK key \in Keys \ {o.key : o \in objects}, lines \in SUBSET Lines :
              /\ IsFiniteSet(lines) /\ Cardinality({DateOf[l] : l \in lines}) = 1
              /\ objects' = objects \cup {[key |-> key, lines |-> lines]}
        BY <1>2 DEF Land
    <2>2. \A k, l \in lines : DateOf[k] = DateOf[l]
        BY <2>1, LinesOfOneDate
    <2>3. \A o \in objects' : o \in objects \/ o.lines = lines
        BY <2>1
    <2>4. \A o \in objects' : \A k, l \in o.lines : DateOf[k] = DateOf[l]
        BY <2>2, <2>3 DEF GoldInv
    <2>5. UNCHANGED silver
        BY <1>2 DEF Land
    <2> QED
        BY <2>4, <2>5 DEF GoldInv, GoldRows, PartFiles
<1>3. ASSUME Midnight \/ Sense \/ SenseFails \/ MaterializeGold \/ UNCHANGED vars PROVE GoldInv'
    BY <1>0, <1>3 DEF Midnight, Sense, SenseFails, MaterializeGold, vars
<1>4. ASSUME NEW r \in Runs, Leaves(r) PROVE GoldInv'
    BY <1>0, <1>4, LeavingSteps, LeavingFiles
<1>5. ASSUME NEW r \in Runs, Glob(r) \/ Remove(r) PROVE GoldInv'
    <2>1. UNCHANGED objects /\ \A d \in Dates : silver'[d] \subseteq silver[d]
        <3>1. CASE Glob(r)
            BY <3>1, GlobFacts
        <3>2. CASE Remove(r)
            BY <3>2, RemoveFacts
        <3> QED
            BY <1>5, <3>1, <3>2
    <2> QED
        BY <1>0, <2>1
<1>6. ASSUME NEW r \in Runs, OpenFile(r) PROVE GoldInv'
    <2>1. PICK f : f.rows = {} /\ silver' = [silver EXCEPT ![date[r]] = silver[date[r]] \cup {f}]
        BY <1>6, OpenFacts
    <2>2. \A d \in Dates : silver'[d] \subseteq silver[d] \cup {f}
        BY <2>1 DEF TypeInv, TypeOK
    <2>3. ASSUME NEW g \in GoldRows' PROVE g \in GoldRows
        <3>1. PICK h \in PartFiles' : \E row \in h.rows : g = <<h.name, row>>
            BY DEF GoldRows
        <3>2. h \in PartFiles
            BY <2>1, <2>2, <3>1 DEF PartFiles
        <3> QED
            BY <3>1, <3>2 DEF GoldRows
    <2>4. GoldRows' \subseteq GoldRows \cup {} /\ UNCHANGED objects
        BY <1>6, <2>3, OpenFacts
    <2> QED
        BY <1>1, <2>4, FS_EmptySet
<1>7. ASSUME NEW r \in Runs, CloseFile(r) PROVE GoldInv'
    <2>1. UNCHANGED objects /\ step[r] = "fill" /\ date[r] \in Dates
        BY <1>7, CloseFacts DEF TypeInv, TypeOK
    <2>2. RowsFrom(objects, rows[r], date[r])
        BY <2>1 DEF ExactInv
    <2>3. IsFiniteSet(rows[r])
        BY <2>1, <2>2, RowsOfWhole
    <2>4. IsFiniteSet(outPath[r])
        <3>1. outPath[r] \in SUBSET AllNames
            BY DEF AllNames
        <3> QED
            BY <3>1, FS_Subset DEF TypeInv
    <2>5. IsFiniteSet(outPath[r] \X rows[r])
        BY <2>3, <2>4, FS_Product
    <2>6. /\ silver'[date[r]] = {Closed(r, f) : f \in silver[date[r]]}
          /\ \A d \in Dates \ {date[r]} : silver'[d] = silver[d]
        <3>1. DOMAIN silver = Dates
            BY DEF TypeInv, TypeOK
        <3> QED
            BY <1>7, <2>1, <3>1, CloseFacts
    <2>7. ASSUME NEW g \in GoldRows' PROVE g \in GoldRows \cup (outPath[r] \X rows[r])
        <3>1. PICK h \in PartFiles' : \E row \in h.rows : g = <<h.name, row>>
            BY DEF GoldRows
        <3>2. PICK row \in h.rows : g = <<h.name, row>>
            BY <3>1
        <3>3. CASE h \in PartFiles
            BY <3>2, <3>3 DEF GoldRows
        <3>4. CASE h \notin PartFiles
            <4>1. PICK d \in Dates : h \in silver'[d]
                BY <3>1 DEF PartFiles
            <4>2. h \in silver'[date[r]] /\ h \notin silver[date[r]]
                BY <2>1, <2>6, <3>4, <4>1 DEF PartFiles
            <4>3. PICK f \in silver[date[r]] : h = Closed(r, f)
                BY <2>6, <4>2
            <4>4. f.name \in outPath[r]
                BY <4>2, <4>3 DEF Closed
            <4>5. h.name \in outPath[r] /\ h.rows = rows[r]
                BY <1>7, <4>3, <4>4, CloseFacts
            <4> QED
                BY <3>2, <4>5
        <3> QED
            BY <3>3, <3>4
    <2> QED
        BY <1>1, <2>1, <2>5, <2>7
<1> QED
    BY <1>2, <1>3, <1>4, <1>5, <1>6, <1>7, StepsOfRuns

(* The numbers of two rows differ unless both are of two different files.  *)
LEMMA OneFilePasses ==
    ASSUME TypeInv, WriteInv, ExactInv, GoldInv
    PROVE  Readable /\ KeyIsUnique <=> OneWholeFile
<1> DEFINE numbers == {g[2].sequence : g \in GoldRows}
           number == [g \in GoldRows |-> g[2].sequence]
<1>1. number \in Surjection(GoldRows, numbers)
    BY DEF Surjection
<1>2. KeyIsUnique <=> number \in Injection(GoldRows, numbers)
    BY <1>1, FS_Surjection DEF GoldInv, KeyIsUnique
<1>3. number \in Injection(GoldRows, numbers)
          <=> \A k, m \in GoldRows : k[2].sequence = m[2].sequence => k = m
    BY DEF Injection, IsInjective
<1> HIDE DEF numbers, number
<1>4. \A d \in Dates : \A f \in silver[d] :
          f.rows # {} =>
              /\ \E row \in f.rows : row.sequence = 1
              /\ \A a, b \in f.rows : a.sequence = b.sequence => a = b
              /\ \A row \in f.rows : DateOf[row.line] = d
    BY RowsOfWhole DEF ExactInv, GoldInv
<1>5. ASSUME OneWholeFile PROVE Readable /\ KeyIsUnique
    <2>0. PICK d \in Dates : \E f \in silver[d] :
              f.rows # {} /\ \A e \in Dates : \A g \in silver[e] : e = d /\ g = f
        BY <1>5 DEF OneWholeFile
    <2>1. PICK f \in silver[d] :
              f.rows # {} /\ \A e \in Dates : \A g \in silver[e] : e = d /\ g = f
        BY <2>0
    <2>2. PartFiles = {f}
        BY <2>1 DEF PartFiles
    <2>3. ASSUME NEW k \in GoldRows, NEW m \in GoldRows, k[2].sequence = m[2].sequence
          PROVE  k = m
        <3>1. PICK a \in f.rows, b \in f.rows : k = <<f.name, a>> /\ m = <<f.name, b>>
            BY <2>2 DEF GoldRows
        <3>2. a.sequence = b.sequence
            BY <2>3, <3>1
        <3> QED
            BY <1>4, <2>1, <3>1, <3>2
    <2> QED
        BY <1>2, <1>3, <2>1, <2>2, <2>3 DEF Readable
<1>6. ASSUME Readable, KeyIsUnique PROVE OneWholeFile
    <2>0. PICK d \in Dates : \E f \in silver[d] : TRUE
        BY <1>6 DEF Readable, PartFiles
    <2>1. PICK f \in silver[d] : TRUE
        BY <2>0
    <2>2. \A e \in Dates : \A g \in silver[e] : g.rows # {}
        BY <1>6 DEF Readable, PartFiles
    <2>3. ASSUME NEW e \in Dates, NEW g \in silver[e] PROVE e = d /\ g = f
        <3>1. PICK a \in f.rows : a.sequence = 1
            BY <1>4, <2>2
        <3>2. PICK b \in g.rows : b.sequence = 1
            BY <1>4, <2>2
        <3>3. <<f.name, a>> \in GoldRows /\ <<g.name, b>> \in GoldRows
            BY GoldRowsOfFiles DEF RowsOfFile
        <3>4. <<f.name, a>> = <<g.name, b>>
            BY <1>2, <1>3, <1>6, <3>1, <3>2, <3>3
        <3>5. f.name = g.name /\ a = b
            BY <3>4
        <3>6. DateOf[a.line] = d
            BY <1>4, <2>2, <3>1
        <3>7. DateOf[b.line] = e
            BY <1>4, <2>2, <3>2
        <3>8. e = d
            BY <3>5, <3>6, <3>7
        <3> QED
            BY <3>5, <3>8 DEF WriteInv
    <2> QED
        BY <2>2, <2>3 DEF OneWholeFile
<1> QED
    BY <1>5, <1>6

(* Every gold build, by a backfill or by hand, and whatever runs are at    *)
(* work or have died: it passes exactly when there is one part-file in     *)
(* all, and that is complete.                                              *)
THEOREM GoldPassesOnOneFile == Spec => GoldNeedsOneFile
<1>1. Init => ExactInv /\ GoldInv
    <2>1. Init => GoldRows = {}
        BY DEF Init, GoldRows, PartFiles
    <2>2. Init => ExactInv /\ \A d \in Dates : silver[d] = {}
        BY DEF Init, ExactInv
    <2> QED
        BY <2>1, <2>2, FS_EmptySet DEF Init, GoldInv
<1>2. ASSUME TypeInv, WriteInv, ExactInv, GoldInv
      PROVE  BuildGold => (gold' = "built" <=> OneWholeFile)
    <2>1. Readable /\ KeyIsUnique <=> OneWholeFile
        BY <1>2, OneFilePasses
    <2>2. BuildGold => (gold' = "built" <=> Readable /\ KeyIsUnique)
        BY DEF BuildGold
    <2> QED
        BY <2>1, <2>2
<1>3. TypeInv /\ WriteInv /\ ExactInv /\ GoldInv =>
          (BuildGold => (gold' = "built" <=> OneWholeFile))
    BY <1>2
<1> QED
    BY <1>1, <1>3, TypeInit, TypeStep, WriteInit, WriteStep, ExactStep, GoldStep, PTL
       DEF Spec, GoldNeedsOneFile
=============================================================================
