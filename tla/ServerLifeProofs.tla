-------------------------- MODULE ServerLifeProofs --------------------------
(***************************************************************************)
(* The tables a server leaves behind and the order in which it releases    *)
(* what its threads use, for every data file, every command line and every *)
(* number of processes one after the other.                                *)
(***************************************************************************)
EXTENDS ServerLife, FiniteSetTheorems, FunctionTheorems, TLAPS

(* The sequences of labels, one by one.                                    *)
LEMMA LoadsLemma ==
  /\ DOMAIN Loads = {1, 2, 3, 4} /\ Len(Loads) = 4
  /\ Loads[1] = "personal" /\ Loads[2] = "stocks"
  /\ Loads[3] = "currencies" /\ Loads[4] = "quotes"
  BY DEF Loads

LEMMA FilledLemma == Filled = {"personal", "stocks", "currencies", "quotes"}
  BY LoadsLemma DEF Filled

LEMMA KindsLemma ==
  /\ DOMAIN Kinds = {1, 2, 3} /\ Len(Kinds) = 3
  /\ Kinds[1] = "processing" /\ Kinds[2] = "update" /\ Kinds[3] = "listener"
  BY DEF Kinds

LEMMA ThreadsLemma == Threads = {"processing", "update", "listener"}
  BY KindsLemma DEF Threads

LEMMA TablesLemma == Len(Tables) = 8
  BY DEF Tables

(* What comes after each table and each kind of threads.                   *)
LEMMA AfterLoads ==
  /\ After(Loads, "personal", "unload") = "stocks"
  /\ After(Loads, "stocks", "unload") = "currencies"
  /\ After(Loads, "currencies", "unload") = "quotes"
  /\ After(Loads, "quotes", "unload") = "unload"
<1>1. (CHOOSE j \in DOMAIN Loads : Loads[j] = "personal") = 1
  BY LoadsLemma
<1>2. (CHOOSE j \in DOMAIN Loads : Loads[j] = "stocks") = 2
  BY LoadsLemma
<1>3. (CHOOSE j \in DOMAIN Loads : Loads[j] = "currencies") = 3
  BY LoadsLemma
<1>4. (CHOOSE j \in DOMAIN Loads : Loads[j] = "quotes") = 4
  BY LoadsLemma
<1>5. QED
  BY <1>1, <1>2, <1>3, <1>4, LoadsLemma DEF After

LEMMA AfterKinds ==
  /\ After(Kinds, "processing", Joins["listener"]) = "update"
  /\ After(Kinds, "update", Joins["listener"]) = "listener"
  /\ After(Kinds, "listener", Joins["listener"]) = "joinListener"
<1>1. (CHOOSE j \in DOMAIN Kinds : Kinds[j] = "processing") = 1
  BY KindsLemma
<1>2. (CHOOSE j \in DOMAIN Kinds : Kinds[j] = "update") = 2
  BY KindsLemma
<1>3. (CHOOSE j \in DOMAIN Kinds : Kinds[j] = "listener") = 3
  BY KindsLemma
<1>4. Joins["listener"] = "joinListener"
  BY DEF Joins
<1>5. QED
  BY <1>1, <1>2, <1>3, <1>4, KindsLemma DEF After

LEMMA LoadedLemma ==
  Loaded = {"openEnv", "open", "symbols", "items", "processing", "update",
            "listener", "joinListener", "joinUpdate", "joinProcessing"}
<1>1. {Joins[k] : k \in Threads}
        = {"joinListener", "joinUpdate", "joinProcessing"}
  BY ThreadsLemma DEF Joins
<1>2. QED
  BY <1>1, ThreadsLemma DEF Loaded
-----------------------------------------------------------------------------
(* Type correctness.  That the tables are finite makes the size of         *)
(* dataItemsArray a number; the tables are opened one by one.              *)
TypesInv == /\ ServerTypeOK
            /\ \A t \in Filled : IsFiniteSet(rows[t])
            /\ main = "create" => progress < Len(Tables)


(* The lines of the data files are keys.                                   *)
LEMMA LinesLemma ==
  ASSUME file \in Files, NEW t \in Filled
  PROVE  Lines(t) \in Seq(Nat)
<1>1. CASE t = "stocks"
  BY <1>1, ServerLifeAssumption DEF Lines
<1>2. CASE t # "stocks"
  BY <1>2 DEF Lines
<1>3. QED
  BY <1>1, <1>2

LEMMA PutRowTypes ==
  ASSUME TypesInv, main \in Filled, PutRow
  PROVE  TypesInv'
<1> DEFINE key == Lines(main)[progress + 1]
<1>1. key \in Nat
  BY LinesLemma DEF TypesInv, ServerTypeOK, PutRow
<1>2. rows' = [rows EXCEPT ![main] = @ \cup {key}]
  BY DEF PutRow
<1> HIDE DEF key
<1>3. rows' \in [Filled -> SUBSET Nat]
  BY <1>1, <1>2 DEF TypesInv, ServerTypeOK
<1>4. \A t \in Filled : IsFiniteSet(rows'[t])
  <2>1. IsFiniteSet(rows[main] \cup {key})
    BY FS_AddElement DEF TypesInv
  <2>2. QED
    BY <1>2, <2>1 DEF TypesInv, ServerTypeOK
<1>5. progress' \in Nat
  BY DEF PutRow, TypesInv, ServerTypeOK
<1>6. UNCHANGED <<file, regions, created, stuck, loader, starts, options, main,
                  rc, handle, items, szItems, running, timeToDie, asked,
                  failed, misused>>
  BY DEF PutRow, processVars, ownVars, threadVars, historyVars
<1>7. QED
  BY <1>3, <1>4, <1>5, <1>6, FilledLemma DEF TypesInv, ServerTypeOK

LEMMA EndsTypes ==
  ASSUME TypesInv, Ends, stuck' \in BOOLEAN
  PROVE  TypesInv'
<1>1. running' \in [Threads -> Nat]
  BY DEF Ends, Reset, NoThreads
<1>2. timeToDie' \in BOOLEAN /\ misused' \in BOOLEAN
  BY DEF Ends, Reset
<1>3. QED
  BY <1>1, <1>2 DEF TypesInv, ServerTypeOK, Ends, Reset, Goto

LEMMA TypesStep ==
  ASSUME TypesInv, [ServerNext]_serverVars
  PROVE  TypesInv'
<1> USE ServerLifeAssumption, FilledLemma, ThreadsLemma, LoadedLemma,
        TablesLemma
    DEF TypesInv, ServerTypeOK, tableVars, processVars, ownVars, threadVars,
        historyVars, Goto
<1>1. CASE Start
  BY <1>1 DEF Start
<1>2. CASE Kill
  <2>1. stuck' \in BOOLEAN
    BY <1>2 DEF Kill
  <2>2. QED
    BY <2>1, <1>2, EndsTypes DEF Kill
<1>3. CASE Setup
  BY <1>3 DEF Setup
<1>4. CASE OpenEnvironment
  <2>1. regions' \in BOOLEAN
    BY <1>4 DEF OpenEnvironment
  <2>2. QED
    BY <2>1, <1>4 DEF OpenEnvironment
<1>5. CASE Create
  <2>1. loader' \in 0 .. starts
    BY <1>5 DEF Create
  <2>2. created' \in 0 .. Len(Tables) /\ progress' \in Nat
    BY <1>5 DEF Create
  <2>3. main' \in {"create", "personal"}
    BY <1>5, LoadsLemma DEF Create
  <2>4. QED
    BY <2>1, <2>2, <2>3, <1>5 DEF Create
<1>6. CASE LoadPersonal
  BY <1>6, PutRowTypes DEF LoadPersonal
<1>7. CASE LoadStocks
  BY <1>7, PutRowTypes DEF LoadStocks
<1>8. CASE LoadCurrencies
  BY <1>8, PutRowTypes DEF LoadCurrencies
<1>9. CASE LoadQuotes
  BY <1>9, PutRowTypes DEF LoadQuotes
<1>10. CASE EndOfFile
  BY <1>10, AfterLoads DEF EndOfFile
<1>11. CASE Unload
  <2>1. misused' \in BOOLEAN
    BY <1>11 DEF Unload
  <2>2. failed' \subseteq {"start", "spawn", "close"}
    BY <1>11 DEF Unload
  <2>3. main' \in {"openEnv", "failXit"} /\ progress' \in Nat
    BY <1>11 DEF Unload
  <2>4. QED
    BY <2>1, <2>2, <2>3, <1>11 DEF Unload
<1>12. CASE Open
  BY <1>12 DEF Open
<1>13. CASE ReadSymbols
  BY <1>13 DEF ReadSymbols
<1>14. CASE MakeItems
  <2>1. Cardinality(rows["stocks"]) \in Nat
    BY FS_CardinalityType
  <2>2. QED
    BY <2>1, <1>14, KindsLemma DEF MakeItems
<1>15. CASE Spawn
  BY <1>15 DEF Spawn
<1>16. CASE Spawned
  BY <1>16, AfterKinds DEF Spawned
<1>17. CASE StepFails
  BY <1>17 DEF StepFails
<1>18. CASE Join
  BY <1>18 DEF Join
<1>19. CASE FailXit
  BY <1>19 DEF FailXit
<1>20. CASE FreeItems
  BY <1>20 DEF FreeItems
<1>21. CASE FreeHandle
  <2>1. stuck' \in BOOLEAN
    BY <1>21 DEF FreeHandle
  <2>2. QED
    BY <2>1, <1>21, EndsTypes DEF FreeHandle
<1>22. CASE FreeHandleFails
  BY <1>22 DEF FreeHandleFails
<1>23. CASE Sigint
  BY <1>23 DEF Sigint
<1>24. CASE Dispatched
  BY <1>24 DEF Dispatched
<1>25. ASSUME NEW k \in Threads, ThreadLeaves(k) PROVE TypesInv'
  BY <1>25 DEF ThreadLeaves
<1>26. ASSUME NEW s \in Symbols, Dispatch(s) PROVE TypesInv'
  BY <1>26 DEF Dispatch
<1>27. CASE UNCHANGED serverVars
  BY <1>27 DEF serverVars
<1>28. QED
  BY <1>1, <1>2, <1>3, <1>4, <1>5, <1>6, <1>7, <1>8, <1>9, <1>10, <1>11, <1>12, <1>13, <1>14, <1>15, <1>16, <1>17, <1>18, <1>19, <1>20, <1>21, <1>22, <1>23, <1>24, <1>25, <1>26, <1>27 DEF ServerNext
-----------------------------------------------------------------------------
(* The tables that are loaded before a table.                              *)
Earlier == [personal |-> {}, stocks |-> {"personal"},
            currencies |-> {"personal", "stocks"},
            quotes |-> {"personal", "stocks", "currencies"}]

WholeTable(t) == rows[t] = {Lines(t)[i] : i \in DOMAIN Lines(t)}

(* Where the load is when it reads the file of t: the earlier tables are    *)
(* whole, this one has the lines read so far, and the others are empty.    *)
Loading(t) ==
    /\ created = Len(Tables)
    /\ progress <= Len(Lines(t))
    /\ rows[t] = {Lines(t)[i] : i \in 1 .. progress}
    /\ \A e \in Earlier[t] : WholeTable(e)
    /\ \A l \in Filled \ (Earlier[t] \cup {t}) : rows[l] = {}

(* Nothing is in the tables before the last of them has been made, and the *)
(* process that loads them is the one that has made them.                  *)
LoadInv ==
    /\ created < Len(Tables) => \A t \in Filled : rows[t] = {}
    /\ \A t \in Filled : main = t => Loading(t) /\ loader = starts
    /\ main = "create" /\ progress > 0 => loader = starts
    /\ options.initialLoad /\ main \in Loaded \cup {"unload"} => Whole

(* Only two steps change the tables; after most others there is nothing to *)
(* say of them but that they are still whole.                              *)
LEMMA LoadFrame ==
  ASSUME LoadInv, UNCHANGED <<file, created, rows>>,
         main' \notin Filled, main' = "create" => ~(progress' > 0),
         options'.initialLoad /\ main' \in Loaded \cup {"unload"} => Whole
  PROVE  LoadInv'
<1>1. Whole' = Whole
  BY DEF Whole, Lines
<1>2. created' < Len(Tables) => \A t \in Filled : rows'[t] = {}
  BY DEF LoadInv
<1>3. QED
  BY <1>1, <1>2 DEF LoadInv

(* One more line.                                                          *)
LEMMA PutRowStep ==
  ASSUME TypesInv, LoadInv, NEW t \in Filled, main = t, PutRow
  PROVE  LoadInv' /\ loader' = starts
<1> DEFINE key == Lines(t)[progress + 1]
<1>1. /\ progress \in Nat /\ progress < Len(Lines(t))
      /\ Len(Lines(t)) \in Nat
  BY LinesLemma DEF TypesInv, ServerTypeOK, PutRow
<1>2. rows' = [rows EXCEPT ![t] = @ \cup {key}] /\ progress' = progress + 1
  BY DEF PutRow
<1>3. UNCHANGED <<file, regions, created, loader, starts, options, main>>
  BY DEF PutRow, processVars
<1>4. \A l : Lines(l)' = Lines(l)
  BY <1>3 DEF Lines
<1>5. Loading(t) /\ loader = starts
  BY DEF LoadInv
<1>6. rows[t] \cup {key} = {Lines(t)[i] : i \in 1 .. progress + 1}
  <2>1. 1 .. progress + 1 = (1 .. progress) \cup {progress + 1}
    BY <1>1
  <2>2. QED
    BY <1>5, <2>1 DEF Loading
<1> HIDE DEF key
<1>7. rows'[t] = {Lines(t)[i] : i \in 1 .. progress'}
  BY <1>2, <1>6 DEF TypesInv, ServerTypeOK
<1>8. \A l \in Filled \ {t} : rows'[l] = rows[l]
  BY <1>2 DEF TypesInv, ServerTypeOK
<1>9. t \notin Earlier[t] /\ Earlier[t] \subseteq Filled
  BY FilledLemma DEF Earlier
<1>10. \A e \in Earlier[t] : WholeTable(e)'
  BY <1>4, <1>5, <1>8, <1>9 DEF WholeTable, Loading
<1>11. Loading(t)'
  <2>1. created' = Len(Tables)
    BY <1>3, <1>5 DEF Loading
  <2>2. progress' <= Len(Lines(t))
    BY <1>1, <1>2
  <2>3. \A l \in Filled \ (Earlier[t] \cup {t}) : rows'[l] = {}
    BY <1>5, <1>8 DEF Loading
  <2>4. QED
    BY <1>4, <1>7, <1>10, <2>1, <2>2, <2>3 DEF Loading
<1>12. t \notin Loaded \cup {"unload", "create"}
  BY FilledLemma, LoadedLemma
<1>13. ~(created' < Len(Tables))
  BY <1>11, TablesLemma DEF Loading
<1>14. QED
  BY <1>3, <1>5, <1>11, <1>12, <1>13 DEF LoadInv

(* From one table to the next.                                             *)
LEMMA EndOfFileStep ==
  ASSUME TypesInv, LoadInv, NEW t \in Filled, main = t, EndOfFile
  PROVE  LoadInv'
<1>1. UNCHANGED <<file, created, rows, loader, starts, options>>
  BY DEF EndOfFile, tableVars, processVars
<1>2. /\ progress = Len(Lines(t))
      /\ main' = After(Loads, t, "unload") /\ progress' = 0
  BY DEF EndOfFile, Goto
<1>3. \A l : Lines(l)' = Lines(l)
  BY <1>1 DEF Lines
<1>4. Loading(t) /\ loader = starts
  BY DEF LoadInv
<1>5. WholeTable(t)
  <2>1. Lines(t) \in Seq(Nat)
    BY LinesLemma DEF TypesInv, ServerTypeOK
  <2>2. DOMAIN Lines(t) = 1 .. progress
    BY <1>2, <2>1
  <2>3. QED
    BY <1>4, <2>2 DEF Loading, WholeTable
<1>6. \A e \in Earlier[t] \cup {t} : WholeTable(e)'
  BY <1>1, <1>3, <1>4, <1>5 DEF Loading, WholeTable
<1>7. created' = Len(Tables)
  BY <1>1, <1>4 DEF Loading
<1>8. CASE t = "quotes"
  <2>1. main' = "unload"
    BY <1>2, <1>8, AfterLoads
  <2>2. Whole'
    BY <1>6, <1>8, FilledLemma DEF Earlier, Whole, WholeTable
  <2>3. QED
    BY <1>7, <2>1, <2>2, FilledLemma, TablesLemma DEF LoadInv
<1>9. CASE t # "quotes"
  <2>1. PICK n \in Filled : /\ main' = n
                            /\ Earlier[n] = Earlier[t] \cup {t}
                            /\ n \notin Earlier[n]
    BY <1>2, <1>9, AfterLoads, FilledLemma DEF Earlier
  <2>2. \A l \in Filled \ Earlier[n] : rows'[l] = {}
    BY <1>1, <1>4, <2>1 DEF Loading
  <2>3. 0 <= Len(Lines(n))
    BY LinesLemma DEF TypesInv, ServerTypeOK
  <2>4. {Lines(n)[i] : i \in 1 .. 0} = {}
    OBVIOUS
  <2>5. Loading(n)'
    BY <1>2, <1>3, <1>6, <1>7, <2>1, <2>2, <2>3, <2>4 DEF Loading
  <2>6. n \notin Loaded \cup {"unload", "create"}
    BY FilledLemma, LoadedLemma
  <2>7. QED
    BY <1>1, <1>4, <1>7, <2>1, <2>5, <2>6, TablesLemma DEF LoadInv
<1>10. QED
  BY <1>8, <1>9

(* The table that is made next, or the first to be loaded.                 *)
LEMMA CreateStep ==
  ASSUME TypesInv, LoadInv, Create
  PROVE  LoadInv' /\ loader' = starts
<1>1. /\ UNCHANGED <<file, rows, starts, options>>
      /\ main = "create" /\ created = progress /\ created' = created + 1
      /\ progress < 8 /\ progress \in Nat
      /\ loader' = IF created = 0 THEN starts ELSE loader
  BY TablesLemma DEF Create, processVars, TypesInv, ServerTypeOK
<1>2. loader' = starts
  BY <1>1 DEF LoadInv
<1>3. \A t \in Filled : rows'[t] = {}
  BY <1>1, TablesLemma DEF LoadInv
<1>4. CASE created + 1 < Len(Tables)
  <2>1. main' = "create"
    BY <1>1, <1>4 DEF Create
  <2>2. QED
    BY <1>1, <1>2, <1>3, <2>1, FilledLemma, LoadedLemma DEF LoadInv
<1>5. CASE ~(created + 1 < Len(Tables))
  <2>1. main' = "personal" /\ progress' = 0 /\ created' = Len(Tables)
    BY <1>1, <1>5, LoadsLemma, TablesLemma DEF Create, Goto
  <2>2. Lines("personal")' = <<0>> /\ Earlier["personal"] = {}
    BY DEF Lines, Earlier
  <2>3. "personal" \in Filled \ (Loaded \cup {"unload", "create"})
    BY FilledLemma, LoadedLemma
  <2>4. {Lines("personal")'[i] : i \in 1 .. 0} = {} /\ 0 <= Len(<<0>>)
    OBVIOUS
  <2>5. Loading("personal")'
    BY <1>3, <2>1, <2>2, <2>3, <2>4 DEF Loading
  <2>6. QED
    BY <1>1, <1>2, <1>3, <2>1, <2>3, <2>5 DEF LoadInv
<1>6. QED
  BY <1>2, <1>4, <1>5

LEMMA LoadStep ==
  ASSUME TypesInv, LoadInv, [ServerNext]_serverVars
  PROVE  /\ LoadInv'
         /\ created' # created \/ rows' # rows => loader' = starts
<1> USE FilledLemma, ThreadsLemma, LoadedLemma
    DEF tableVars, processVars, ownVars, threadVars, historyVars, Goto
<1> DEFINE Step == /\ LoadInv'
                   /\ created' # created \/ rows' # rows => loader' = starts
<1>0. SUFFICES Step
  OBVIOUS
<1>a. ASSUME UNCHANGED <<file, created, rows>>, main' \notin Filled,
             main' = "create" => ~(progress' > 0),
             options'.initialLoad /\ main' \in Loaded \cup {"unload"} => Whole
      PROVE  Step
  BY <1>a, LoadFrame
<1>b. options.initialLoad /\ main \in Loaded \cup {"unload"} => Whole
  BY DEF LoadInv
<1>c. ASSUME UNCHANGED <<file, created, rows, loader, starts, options, main,
                         progress>>
      PROVE  Step
  <2>1. Whole' = Whole /\ \A t : Lines(t)' = Lines(t)
    BY <1>c DEF Whole, Lines
  <2>2. \A t \in Filled : Loading(t)' = Loading(t)
    BY <1>c, <2>1 DEF Loading, WholeTable
  <2>3. QED
    BY <1>c, <2>1, <2>2 DEF LoadInv
<1> HIDE DEF Step
<1>1. CASE Start
  BY <1>1, <1>a DEF Start
<1>2. CASE Kill
  BY <1>2, <1>a DEF Kill, Ends
<1>3. CASE Setup
  <2>1. /\ main' \in {"createEnv", "openEnv"}
        /\ main' = "openEnv" => ~options.initialLoad
    BY <1>3 DEF Setup
  <2>2. QED
    BY <1>3, <2>1, <1>a DEF Setup
<1>4. CASE OpenEnvironment
  BY <1>4, <1>a, <1>b DEF OpenEnvironment
<1>5. CASE Create
  BY <1>5, CreateStep DEF Step
<1>6. CASE LoadPersonal \/ LoadStocks \/ LoadCurrencies \/ LoadQuotes
  BY <1>6, PutRowStep
     DEF LoadPersonal, LoadStocks, LoadCurrencies, LoadQuotes, Step
<1>7. CASE EndOfFile
  BY <1>7, EndOfFileStep DEF EndOfFile, Step
<1>8. CASE Unload
  BY <1>8, <1>a, <1>b DEF Unload
<1>9. CASE Open
  BY <1>9, <1>a, <1>b DEF Open
<1>10. CASE ReadSymbols
  BY <1>10, <1>a, <1>b DEF ReadSymbols
<1>11. CASE MakeItems
  BY <1>11, <1>a, <1>b, KindsLemma DEF MakeItems
<1>12. CASE Spawn
  BY <1>12, <1>a, <1>b DEF Spawn
<1>13. CASE Spawned
  BY <1>13, <1>a, <1>b, AfterKinds DEF Spawned
<1>14. CASE StepFails
  BY <1>14, <1>a DEF StepFails
<1>15. CASE Join
  BY <1>15, <1>a, <1>b DEF Join
<1>16. CASE FailXit
  BY <1>16, <1>a DEF FailXit
<1>17. CASE FreeItems
  BY <1>17, <1>a DEF FreeItems
<1>18. CASE FreeHandle
  BY <1>18, <1>a DEF FreeHandle, Ends
<1>19. CASE FreeHandleFails
  BY <1>19, <1>a DEF FreeHandleFails
<1>20. CASE Sigint \/ Dispatched \/ (\E k \in Threads : ThreadLeaves(k))
            \/ (\E s \in Symbols : Dispatch(s)) \/ UNCHANGED serverVars
  BY <1>20, <1>c DEF Sigint, Dispatched, ThreadLeaves, Dispatch, serverVars
<1>21. QED
  BY <1>1, <1>2, <1>3, <1>4, <1>5, <1>6, <1>7, <1>8, <1>9, <1>10, <1>11,
     <1>12, <1>13, <1>14, <1>15, <1>16, <1>17, <1>18, <1>19, <1>20
     DEF ServerNext
-----------------------------------------------------------------------------
(* Where main is before it makes its first thread.                         *)
Before == {"off", "setup", "createEnv", "create", "unload", "openEnv", "open",
           "symbols", "items"} \cup Filled

(* While nothing has failed once there were threads, main comes to the     *)
(* cleanup either without having made one or after it has joined them all, *)
(* and it comes there once.                                                *)
ReleaseInv ==
    failed \subseteq {"start"} =>
      /\ main \in Before \cup {"failXit", "cleanup", "free"}
            => running = NoThreads
      /\ main = "processing" => running["update"] = 0 /\ running["listener"] = 0
      /\ main = "update" => running["listener"] = 0
      /\ main = "joinUpdate" => running["listener"] = 0
      /\ main = "joinProcessing"
            => running["listener"] = 0 /\ running["update"] = 0
      /\ main # "free" => items # "freed"
      /\ handle # "broken"
      /\ ~misused

LEMMA ThreadsGone ==
  ASSUME TypesInv, \A k \in {"processing", "update", "listener"} : running[k] = 0
  PROVE  running = NoThreads
  BY ThreadsLemma DEF TypesInv, ServerTypeOK, NoThreads

LEMMA ReleaseStep ==
  ASSUME TypesInv, ReleaseInv, [ServerNext]_serverVars
  PROVE  ReleaseInv'
<1> USE FilledLemma, ThreadsLemma
    DEF tableVars, processVars, ownVars, threadVars, historyVars, Goto,
        ReleaseInv, Before
<1> SUFFICES ASSUME failed' \subseteq {"start"} PROVE ReleaseInv'
  OBVIOUS
<1>0. NoThreads' = NoThreads /\ \A k \in Threads : NoThreads[k] = 0
  BY DEF NoThreads
<1>1. CASE Start
  BY <1>1, <1>0 DEF Start
<1>2. CASE Kill \/ FreeHandle
  BY <1>2, <1>0 DEF Kill, FreeHandle, Ends, Reset
<1>3. CASE Setup \/ OpenEnvironment
  BY <1>3, <1>0 DEF Setup, OpenEnvironment
<1>4. CASE Create
  BY <1>4, <1>0, LoadsLemma DEF Create
<1>5. CASE LoadPersonal \/ LoadStocks \/ LoadCurrencies \/ LoadQuotes
  BY <1>5, <1>0
     DEF LoadPersonal, LoadStocks, LoadCurrencies, LoadQuotes, PutRow
<1>6. CASE EndOfFile
  BY <1>6, <1>0, AfterLoads DEF EndOfFile
<1>7. CASE Unload
  <2>1. "close" \notin failed'
    OBVIOUS
  <2>2. Goto("openEnv") /\ UNCHANGED historyVars
    BY <1>7, <2>1 DEF Unload
  <2>3. QED
    BY <1>7, <2>2, <1>0 DEF Unload
<1>8. CASE Open \/ ReadSymbols
  BY <1>8, <1>0 DEF Open, ReadSymbols
<1>9. CASE MakeItems
  BY <1>9, <1>0, KindsLemma DEF MakeItems
<1>10. CASE Spawn
  BY <1>10, <1>0 DEF Spawn, TypesInv, ServerTypeOK
<1>11. CASE Spawned
  BY <1>11, <1>0, AfterKinds DEF Spawned
<1>12. CASE StepFails
  BY <1>12, <1>0 DEF StepFails
<1>13. CASE Join
  <2>1. CASE main = "joinProcessing"
    BY <1>13, <2>1, <1>0, ThreadsGone DEF Join
  <2>2. CASE main # "joinProcessing"
    BY <1>13, <2>2, <1>0 DEF Join
  <2>3. QED
    BY <2>1, <2>2
<1>14. CASE FailXit
  BY <1>14, <1>0 DEF FailXit
<1>15. CASE FreeItems
  BY <1>15, <1>0 DEF FreeItems
<1>16. CASE FreeHandleFails
  BY <1>16 DEF FreeHandleFails
<1>17. CASE Sigint \/ Dispatched \/ (\E s \in Symbols : Dispatch(s))
            \/ UNCHANGED serverVars
  BY <1>17, <1>0 DEF Sigint, Dispatched, Dispatch, serverVars
<1>18. ASSUME NEW k \in Threads, ThreadLeaves(k) PROVE ReleaseInv'
  <2>1. running # NoThreads
    BY <1>18, <1>0 DEF ThreadLeaves
  <2>2. \A l \in Threads : running[l] = 0 => running'[l] = 0
    BY <1>18 DEF ThreadLeaves, TypesInv, ServerTypeOK
  <2>3. QED
    BY <1>18, <1>0, <2>1, <2>2 DEF ThreadLeaves
<1>19. QED
  BY <1>1, <1>2, <1>3, <1>4, <1>5, <1>6, <1>7, <1>8, <1>9, <1>10, <1>11,
     <1>12, <1>13, <1>14, <1>15, <1>16, <1>17, <1>18
     DEF ServerNext
-----------------------------------------------------------------------------
LEMMA InitTypes == ServerInit => TypesInv
<1> SUFFICES ASSUME ServerInit PROVE TypesInv
  OBVIOUS
<1>1. rows \in [Filled -> SUBSET Nat] /\ \A t \in Filled : IsFiniteSet(rows[t])
  BY FS_EmptySet DEF ServerInit
<1>2. running \in [Threads -> Nat]
  BY DEF ServerInit, NoThreads
<1>3. regions \in BOOLEAN /\ stuck \in BOOLEAN /\ timeToDie \in BOOLEAN
      /\ misused \in BOOLEAN
  BY DEF ServerInit
<1>4. created \in 0 .. Len(Tables) /\ starts \in 0 .. MaxStarts
      /\ loader \in 0 .. starts
  BY TablesLemma, ServerLifeAssumption DEF ServerInit
<1>5. QED
  BY <1>1, <1>2, <1>3, <1>4 DEF ServerInit, TypesInv, ServerTypeOK

LEMMA InitLoad == ServerInit => LoadInv
  BY FilledLemma, LoadedLemma DEF ServerInit, LoadInv

THEOREM TypesInvariant == ServerSpec => []TypesInv
<1>1. ServerInit => TypesInv
  BY InitTypes
<1>2. TypesInv /\ [ServerNext]_serverVars => TypesInv'
  BY TypesStep
<1>3. QED
  BY <1>1, <1>2, PTL DEF ServerSpec

THEOREM LoadInvariant == ServerSpec => []LoadInv
<1>1. ServerInit => LoadInv
  BY InitLoad
<1>2. TypesInv /\ LoadInv /\ [ServerNext]_serverVars => LoadInv'
  BY LoadStep
<1>3. QED
  BY <1>1, <1>2, TypesInvariant, PTL DEF ServerSpec

(* Every variable of a server has a value of its kind.                     *)
THEOREM ServerTypes == ServerSpec => []ServerTypeOK
<1>1. TypesInv => ServerTypeOK
  BY DEF TypesInv
<1>2. QED
  BY <1>1, TypesInvariant, PTL

(* A server that was to load its tables and is past the load has all the   *)
(* lines of the data files in them, whatever loads failed before.          *)
THEOREM LoadWhole == ServerSpec => []LoadIsWhole
<1>1. LoadInv => LoadIsWhole
  BY DEF LoadInv, LoadIsWhole
<1>2. QED
  BY <1>1, LoadInvariant, PTL

(* Only the process that has created the tables ever adds to them.         *)
THEOREM LoadedByOne == ServerSpec => OneLoader
<1>1. TypesInv /\ LoadInv /\ [ServerNext]_serverVars
        => [created' # created \/ rows' # rows => loader' = starts]_serverVars
  BY LoadStep
<1>2. QED
  BY <1>1, TypesInvariant, LoadInvariant, PTL DEF ServerSpec, OneLoader

THEOREM ReleaseInvariant == ServerSpec => []ReleaseInv
<1>1. ServerInit => ReleaseInv
  BY FilledLemma DEF ServerInit, ReleaseInv, Before
<1>2. TypesInv /\ ReleaseInv /\ [ServerNext]_serverVars => ReleaseInv'
  BY ReleaseStep
<1>3. QED
  BY <1>1, <1>2, TypesInvariant, PTL DEF ServerSpec

(* When every thread can be made and every table closed, nothing is        *)
(* released twice, nor while a thread that is joined is still there.       *)
THEOREM ReleasedInOrder == ServerSpec => []ReleasedLast
<1>1. ReleaseInv => ReleasedLast
  BY DEF ReleaseInv, ReleasedLast
<1>2. QED
  BY <1>1, ReleaseInvariant, PTL
-----------------------------------------------------------------------------
(* What dataItemsArray is made of.  The lines of companylist.txt are put   *)
(* with DB_NOOVERWRITE, so there are as many stocks as lines read; while   *)
(* there is a dataItemsArray the tables are not touched, and its size is   *)
(* the number of stocks.                                                   *)
FileLines == {file[i] : i \in DOMAIN file}

ItemsMade == Threads \cup {"joinListener", "joinUpdate", "joinProcessing",
                           "failXit", "cleanup"}

ItemsInv ==
    /\ rows["stocks"] \subseteq FileLines
    /\ main = "stocks" => Cardinality(rows["stocks"]) = progress
    /\ main \in {"currencies", "quotes", "unload"}
          => Cardinality(rows["stocks"]) = Len(file)
    /\ options.initialLoad /\ main \in Loaded
          => Cardinality(rows["stocks"]) = Len(file)
    /\ items = "live" =>
          /\ main \in ItemsMade
          /\ szItems = Cardinality(rows["stocks"])
          /\ options.initialLoad => szItems = Len(file)

LEMMA ItemsMadeLemma ==
  /\ ItemsMade = {"processing", "update", "listener", "joinListener",
                  "joinUpdate", "joinProcessing", "failXit", "cleanup"}
  /\ "stocks" \in Filled
  BY ThreadsLemma, FilledLemma DEF ItemsMade

(* A step that leaves the tables alone and goes from a place of main where *)
(* the stocks are all there only to another.                               *)
LEMMA ItemsFrame ==
  ASSUME ItemsInv, UNCHANGED <<file, rows, szItems>>, main' # "stocks",
         main' \in {"currencies", "quotes", "unload"}
            => Cardinality(rows["stocks"]) = Len(file),
         options'.initialLoad /\ main' \in Loaded
            => Cardinality(rows["stocks"]) = Len(file),
         items' = "live" => /\ items = "live" /\ main' \in ItemsMade
                            /\ options' = options
  PROVE  ItemsInv'
<1>1. FileLines' = FileLines
  BY DEF FileLines
<1>2. QED
  BY <1>1 DEF ItemsInv

(* A row of another table.                                                 *)
LEMMA OtherRow ==
  ASSUME TypesInv, ItemsInv, main \in Filled, PutRow, main # "stocks"
  PROVE  ItemsInv'
<1>1. rows'["stocks"] = rows["stocks"]
  BY ItemsMadeLemma DEF PutRow, TypesInv, ServerTypeOK
<1>2. /\ UNCHANGED <<file, szItems, main, options, items>>
      /\ FileLines' = FileLines
  BY DEF PutRow, processVars, ownVars, FileLines
<1>3. QED
  BY <1>1, <1>2 DEF ItemsInv

(* A stock: its key is a line of the file, and it is new.                  *)
LEMMA StockRow ==
  ASSUME TypesInv, ItemsInv, LoadStocks
  PROVE  ItemsInv'
<1> DEFINE key == file[progress + 1]
<1>1. /\ main = "stocks" /\ PutRow
      /\ progress < Len(file)
      /\ rows' = [rows EXCEPT !["stocks"] = @ \cup {key}]
      /\ key \notin rows["stocks"]
      /\ progress' = progress + 1
      /\ UNCHANGED <<file, szItems, main, options, items>>
  BY DEF LoadStocks, PutRow, NewKey, Lines, processVars, ownVars
<1>2. rows'["stocks"] = rows["stocks"] \cup {key}
  BY <1>1, ItemsMadeLemma DEF TypesInv, ServerTypeOK
<1>3. key \in FileLines
  <2>1. file \in Seq(Nat) /\ progress \in Nat
    BY ServerLifeAssumption DEF TypesInv, ServerTypeOK
  <2>2. progress + 1 \in DOMAIN file
    BY <1>1, <2>1
  <2>3. QED
    BY <2>2 DEF FileLines
<1> HIDE DEF key
<1>4. Cardinality(rows'["stocks"]) = progress'
  BY <1>1, <1>2, FS_AddElement, ItemsMadeLemma DEF ItemsInv, TypesInv
<1>5. FileLines' = FileLines
  BY <1>1 DEF FileLines
<1>6. main \notin Loaded /\ main \notin ItemsMade
  BY <1>1, LoadedLemma, ItemsMadeLemma
<1>7. QED
  BY <1>1, <1>2, <1>3, <1>4, <1>5, <1>6 DEF ItemsInv

(* From one file to the next: no stock has been put before the first, and  *)
(* after their last there are as many as there are lines.                  *)
LEMMA ItemsEndOfFile ==
  ASSUME TypesInv, LoadInv, ItemsInv, EndOfFile
  PROVE  ItemsInv'
<1> USE FilledLemma
<1>1. /\ main \in Filled
      /\ progress = Len(Lines(main))
      /\ main' = After(Loads, main, "unload") /\ progress' = 0
      /\ UNCHANGED <<file, rows, options, items, szItems>>
      /\ FileLines' = FileLines
  BY DEF EndOfFile, Goto, tableVars, processVars, ownVars, FileLines
<1>2. items # "live"
  BY <1>1, ItemsMadeLemma DEF ItemsInv
<1>3. main' \notin Loaded /\ main' # "personal"
  BY <1>1, AfterLoads, LoadedLemma
<1>4. CASE main = "personal"
  <2>1. rows["stocks"] = {}
    BY <1>4 DEF LoadInv, Loading, Earlier
  <2>2. Cardinality(rows'["stocks"]) = progress'
    BY <1>1, <2>1, FS_EmptySet
  <2>3. main' = "stocks"
    BY <1>1, <1>4, AfterLoads
  <2>4. QED
    BY <1>1, <1>2, <2>2, <2>3, LoadedLemma DEF ItemsInv
<1>5. CASE main = "stocks"
  <2>1. Cardinality(rows["stocks"]) = Len(file)
    BY <1>1, <1>5 DEF ItemsInv, Lines
  <2>2. main' # "stocks"
    BY <1>1, <1>5, AfterLoads
  <2>3. QED
    BY <1>1, <1>2, <1>3, <2>1, <2>2 DEF ItemsInv
<1>6. CASE main \in {"currencies", "quotes"}
  <2>1. Cardinality(rows["stocks"]) = Len(file)
    BY <1>6 DEF ItemsInv
  <2>2. main' # "stocks"
    BY <1>1, <1>6, AfterLoads
  <2>3. QED
    BY <1>1, <1>2, <1>3, <2>1, <2>2 DEF ItemsInv
<1>7. QED
  BY <1>1, <1>4, <1>5, <1>6

LEMMA ItemsStep ==
  ASSUME TypesInv, LoadInv, ItemsInv, [ServerNext]_serverVars
  PROVE  ItemsInv'
<1> USE FilledLemma, ThreadsLemma, LoadedLemma, ItemsMadeLemma
    DEF tableVars, processVars, ownVars, threadVars, historyVars, Goto
<1>a. ASSUME UNCHANGED <<file, rows, szItems>>, main' # "stocks",
             main' \in {"currencies", "quotes", "unload"}
                => Cardinality(rows["stocks"]) = Len(file),
             options'.initialLoad /\ main' \in Loaded
                => Cardinality(rows["stocks"]) = Len(file),
             items' = "live" => /\ items = "live" /\ main' \in ItemsMade
                                /\ options' = options
      PROVE  ItemsInv'
  BY <1>a, ItemsFrame
<1>b. /\ options.initialLoad /\ main \in Loaded
            => Cardinality(rows["stocks"]) = Len(file)
      /\ items = "live" => main \in ItemsMade
  BY DEF ItemsInv
<1>c. main = "unload" => Cardinality(rows["stocks"]) = Len(file)
  BY DEF ItemsInv
<1>d. ASSUME UNCHANGED <<file, rows, szItems, main, progress, options, items>>
      PROVE  ItemsInv'
  BY <1>d DEF ItemsInv, FileLines
<1>1. CASE Start
  BY <1>1, <1>a, <1>b DEF Start
<1>2. CASE Kill \/ FreeHandle
  <2>1. UNCHANGED <<file, rows>> /\ main' = "off" /\ items' = "null"
    BY <1>2 DEF Kill, FreeHandle, Ends, Reset
  <2>2. FileLines' = FileLines
    BY <2>1 DEF FileLines
  <2>3. QED
    BY <2>1, <2>2 DEF ItemsInv
<1>3. CASE Setup
  <2>1. /\ main' \in {"createEnv", "openEnv"}
        /\ main' = "openEnv" => ~options.initialLoad
    BY <1>3 DEF Setup
  <2>2. QED
    BY <1>3, <2>1, <1>a, <1>b DEF Setup
<1>4. CASE OpenEnvironment
  BY <1>4, <1>a, <1>b DEF OpenEnvironment
<1>5. CASE Create
  <2>1. main' \in {"create", "personal"}
    BY <1>5, LoadsLemma DEF Create
  <2>2. QED
    BY <1>5, <2>1, <1>a, <1>b DEF Create
<1>6. CASE LoadPersonal \/ LoadCurrencies \/ LoadQuotes
  BY <1>6, OtherRow DEF LoadPersonal, LoadCurrencies, LoadQuotes
<1>7. CASE LoadStocks
  BY <1>7, StockRow
<1>8. CASE EndOfFile
  BY <1>8, ItemsEndOfFile
<1>9. CASE Unload
  BY <1>9, <1>a, <1>b, <1>c DEF Unload
<1>10. CASE Open
  BY <1>10, <1>a, <1>b DEF Open
<1>11. CASE ReadSymbols
  BY <1>11, <1>a, <1>b DEF ReadSymbols
<1>12. CASE MakeItems
  <2>1. /\ main = "items" /\ main' = "processing"
        /\ items' = "live" /\ szItems' = Cardinality(rows["stocks"])
        /\ UNCHANGED <<file, rows, options>>
        /\ FileLines' = FileLines
    BY <1>12, KindsLemma DEF MakeItems, FileLines
  <2>2. QED
    BY <2>1 DEF ItemsInv
<1>13. CASE Spawn
  BY <1>13, <1>a, <1>b DEF Spawn
<1>14. CASE Spawned
  BY <1>14, <1>a, <1>b, AfterKinds DEF Spawned
<1>15. CASE StepFails
  <2>1. main \in Threads \/ items # "live"
    BY <1>15, <1>b DEF StepFails
  <2>2. QED
    BY <1>15, <2>1, <1>a, <1>b DEF StepFails
<1>16. CASE Join
  BY <1>16, <1>a, <1>b DEF Join
<1>17. CASE FailXit
  BY <1>17, <1>a, <1>b DEF FailXit
<1>18. CASE FreeItems
  BY <1>18, <1>a DEF FreeItems
<1>19. CASE FreeHandleFails
  BY <1>19, <1>a, <1>b DEF FreeHandleFails
<1>20. CASE Sigint \/ Dispatched \/ (\E k \in Threads : ThreadLeaves(k))
            \/ (\E s \in Symbols : Dispatch(s)) \/ UNCHANGED serverVars
  BY <1>20, <1>d DEF Sigint, Dispatched, ThreadLeaves, Dispatch, serverVars
<1>21. QED
  BY <1>1, <1>2, <1>3, <1>4, <1>5, <1>6, <1>7, <1>8, <1>9, <1>10, <1>11,
     <1>12, <1>13, <1>14, <1>15, <1>16, <1>17, <1>18, <1>19, <1>20
     DEF ServerNext

THEOREM ItemsInvariant == ServerSpec => []ItemsInv
<1>1. ServerInit => ItemsInv
  <2>1. ServerInit => rows["stocks"] = {} /\ main = "off" /\ items = "null"
    BY ItemsMadeLemma DEF ServerInit
  <2>2. QED
    BY <2>1, LoadedLemma DEF ItemsInv
<1>2. TypesInv /\ LoadInv /\ ItemsInv /\ [ServerNext]_serverVars => ItemsInv'
  BY ItemsStep
<1>3. QED
  BY <1>1, <1>2, TypesInvariant, LoadInvariant, PTL DEF ServerSpec
-----------------------------------------------------------------------------
(* The slices of the update threads: one ends before the next begins.      *)
LEMMA SlicesApart ==
  ASSUME NEW u \in Nat, NEW v \in Nat, u < v
  PROVE  FirstItem(u) + UpdatesPerThread <= FirstItem(v)
<1> DEFINE d == v - (u + 1)
<1>1. UpdatesPerThread \in Nat
  BY ServerLifeAssumption
<1>2. d \in Nat /\ v = u + 1 + d
  OBVIOUS
<1> HIDE DEF d
<1>3. v * UpdatesPerThread
        = u * UpdatesPerThread + UpdatesPerThread + d * UpdatesPerThread
  BY <1>1, <1>2
<1>4. /\ d * UpdatesPerThread \in Nat /\ u * UpdatesPerThread \in Nat
  BY <1>1, <1>2
<1>5. QED
  BY <1>1, <1>3, <1>4 DEF FirstItem

LEMMA SlicesWithin ==
  ASSUME NEW n \in Nat, NEW u \in 0 .. n - 1
  PROVE  /\ Slice(u) \subseteq 0 .. n * UpdatesPerThread - 1
         /\ \A v \in 0 .. n - 1 : u # v => Slice(u) \cap Slice(v) = {}
<1>1. UpdatesPerThread \in Nat
  BY ServerLifeAssumption
<1>2. \A v \in 0 .. n : FirstItem(v) \in Nat
  BY <1>1 DEF FirstItem
<1>3. FirstItem(u) + UpdatesPerThread <= FirstItem(n)
  BY SlicesApart
<1>4. Slice(u) \subseteq 0 .. n * UpdatesPerThread - 1
  <2>1. FirstItem(n) = n * UpdatesPerThread
    BY DEF FirstItem
  <2>2. n * UpdatesPerThread \in Nat
    BY <1>1
  <2>3. QED
    BY <1>1, <1>2, <1>3, <2>1, <2>2 DEF Slice
<1>5. ASSUME NEW v \in 0 .. n - 1, u # v
      PROVE  Slice(u) \cap Slice(v) = {}
  <2>1. \/ FirstItem(u) + UpdatesPerThread <= FirstItem(v)
        \/ FirstItem(v) + UpdatesPerThread <= FirstItem(u)
    BY <1>5, SlicesApart
  <2>2. QED
    BY <1>1, <1>2, <2>1 DEF Slice
<1>6. QED
  BY <1>4, <1>5

(* No two update threads have an item in common, and what the command line *)
(* asks for is there when the server has loaded the tables.                *)
THEOREM UpdatesWithinItems == ServerSpec => []SlicesFit
<1>1. TypesInv /\ ItemsInv => SlicesFit
  <2> SUFFICES ASSUME TypesInv, ItemsInv, items = "live" PROVE SlicesFit
    BY DEF SlicesFit
  <2> DEFINE n == options.numUpdateThreads
  <2>1. n \in Nat
    BY ServerLifeAssumption DEF TypesInv, ServerTypeOK, NoOptions
  <2>2. options.initialLoad => szItems = Len(file)
    BY DEF ItemsInv
  <2>3. n * UpdatesPerThread \in Nat /\ Len(file) \in Nat
    BY <2>1, ServerLifeAssumption DEF TypesInv, ServerTypeOK
  <2> HIDE DEF n
  <2>4. ASSUME NEW u \in 0 .. n - 1
        PROVE  /\ \A v \in 0 .. n - 1 : u # v => Slice(u) \cap Slice(v) = {}
               /\ options.initialLoad /\ n * UpdatesPerThread <= Len(file)
                     => Slice(u) \subseteq 0 .. szItems - 1
    <3>1. /\ Slice(u) \subseteq 0 .. n * UpdatesPerThread - 1
          /\ \A v \in 0 .. n - 1 : u # v => Slice(u) \cap Slice(v) = {}
      BY <2>1, SlicesWithin
    <3>2. QED
      BY <2>2, <2>3, <3>1
  <2>5. QED
    BY <2>4 DEF SlicesFit, n
<1>2. QED
  BY <1>1, TypesInvariant, ItemsInvariant, PTL
-----------------------------------------------------------------------------
(* The items and the cache of a client.  In a file in the order of the     *)
(* keys, before the key of line j are those of the lines before it.        *)
LEMMA KeysBefore ==
  ASSUME NEW f \in Seq(Nat), \A i, j \in DOMAIN f : i < j => f[i] < f[j],
         NEW j \in DOMAIN f
  PROVE  LET K == {f[i] : i \in DOMAIN f}
         IN  Cardinality({k \in K : k < f[j]}) = j - 1
<1> DEFINE K == {f[i] : i \in DOMAIN f}
           B == {k \in K : k < f[j]}
           g == [i \in 1 .. j - 1 |-> f[i]]
<1>1. /\ DOMAIN f = 1 .. Len(f) /\ Len(f) \in Nat
      /\ \A i \in DOMAIN f : f[i] \in Nat
      /\ j \in Nat /\ j - 1 \in Nat /\ 1 .. j - 1 \subseteq DOMAIN f
  OBVIOUS
<1>2. \A i \in DOMAIN f : f[i] < f[j] <=> i < j
  BY <1>1
<1>3. B = {f[i] : i \in 1 .. j - 1}
  <2>1. \A i \in 1 .. j - 1 : f[i] \in B
    BY <1>1, <1>2
  <2>2. \A k \in B : \E i \in 1 .. j - 1 : k = f[i]
    BY <1>1, <1>2
  <2>3. QED
    BY <2>1, <2>2
<1>4. g \in Bijection(1 .. j - 1, B)
  <2>1. \A i, l \in 1 .. j - 1 : f[i] = f[l] => i = l
    <3> SUFFICES ASSUME NEW i \in 1 .. j - 1, NEW l \in 1 .. j - 1, i # l
                 PROVE  f[i] # f[l]
      OBVIOUS
    <3>1. /\ i \in DOMAIN f /\ l \in DOMAIN f
          /\ f[i] \in Nat /\ f[l] \in Nat
      BY <1>1
    <3>2. i < l \/ l < i
      BY <1>1
    <3>3. f[i] < f[l] \/ f[l] < f[i]
      BY <3>1, <3>2
    <3>4. QED
      BY <3>1, <3>3
  <2> HIDE DEF B
  <2>2. g \in [1 .. j - 1 -> B]
    BY <1>3
  <2>3. \A k \in B : \E i \in 1 .. j - 1 : g[i] = k
    BY <1>3
  <2>4. \A i, l \in 1 .. j - 1 : g[i] = g[l] => i = l
    BY <2>1
  <2> HIDE DEF g
  <2>5. g \in Injection(1 .. j - 1, B)
    BY <2>2, <2>4, Fun_IsInj
  <2>6. g \in Surjection(1 .. j - 1, B)
    BY <2>2, <2>3, Fun_IsSurj
  <2>7. QED
    BY <2>5, <2>6 DEF Bijection
<1> HIDE DEF B, g
<1>5. /\ IsFiniteSet(1 .. j - 1) /\ Cardinality(1 .. j - 1) = j - 1
  <2>1. /\ 1 \in Int /\ j - 1 \in Int
        /\ (IF 1 > j - 1 THEN 0 ELSE j - 1 - 1 + 1) = j - 1
    BY <1>1
  <2>2. QED
    BY <2>1, FS_Interval
<1>6. Cardinality(B) = j - 1
  <2>1. ExistsBijection(1 .. j - 1, B)
    BY <1>4 DEF ExistsBijection
  <2>2. QED
    BY <1>5, <2>1, FS_Bijection
<1>7. QED
  BY <1>6 DEF B

(* As many stocks as lines, each of them a line: they are all the lines.   *)
LEMMA AllLines ==
  ASSUME TypesInv, ItemsInv, Cardinality(rows["stocks"]) = Len(file)
  PROVE  rows["stocks"] = FileLines
<1>1. file \in Seq(Nat)
  BY ServerLifeAssumption DEF TypesInv, ServerTypeOK
<1>2. DOMAIN file = 1 .. Len(file) /\ Len(file) \in Nat
  BY <1>1
<1>3. IsFiniteSet(DOMAIN file) /\ Cardinality(DOMAIN file) = Len(file)
  <2>1. /\ 1 \in Int /\ Len(file) \in Int
        /\ (IF 1 > Len(file) THEN 0 ELSE Len(file) - 1 + 1) = Len(file)
    BY <1>2
  <2>2. QED
    BY <1>2, <2>1, FS_Interval
<1> DEFINE g == [i \in DOMAIN file |-> file[i]]
<1>4. g \in Surjection(DOMAIN file, FileLines)
  BY DEF Surjection, FileLines
<1> HIDE DEF g
<1>5. IsFiniteSet(FileLines) /\ Cardinality(FileLines) <= Len(file)
  BY <1>3, <1>4, FS_Surjection
<1>6. rows["stocks"] \subseteq FileLines
  BY DEF ItemsInv
<1>7. QED
  BY <1>2, <1>3, <1>5, <1>6, FS_Subset, FS_CardinalityType

(* An item of dataItemsArray for every symbolId a client can send, and the *)
(* one it means when companylist.txt is sorted.                            *)
THEOREM ItemsForSymbols == ServerSpec => []CountedItem
<1>1. TypesInv /\ ItemsInv => CountedItem
  <2> SUFFICES ASSUME TypesInv, ItemsInv, asked # NoSymbol, items = "live",
                      szItems = Len(file)
               PROVE  CountedItem
    BY DEF CountedItem
  <2>1. /\ file \in Seq(Nat) /\ NumStocks <= Len(file)
        /\ asked \in 0 .. NumStocks - 1 /\ NumStocks \in Nat
    BY ServerLifeAssumption, CacheAssumption
       DEF TypesInv, ServerTypeOK, Symbols
  <2>2. /\ asked < szItems /\ asked \in Nat
        /\ asked + 1 \in DOMAIN file /\ Len(file) \in Nat
    BY <2>1
  <2>3. rows["stocks"] = FileLines
    BY AllLines DEF ItemsInv
  <2>4. ASSUME \A i, j \in DOMAIN file : i < j => file[i] < file[j]
        PROVE  Item(asked) = Cached(asked)
    <3> DEFINE Below(s) == Cardinality({k \in FileLines : k < s})
    <3>1. \A j \in DOMAIN file : Below(file[j]) = j - 1
      BY <2>1, <2>4, KeysBefore DEF FileLines
    <3> HIDE DEF Below
    <3>2. Below(file[asked + 1]) = asked /\ file[asked + 1] \in FileLines
      BY <2>2, <3>1 DEF FileLines
    <3>3. \A s \in FileLines : Below(s) = asked => s = file[asked + 1]
      <4> SUFFICES ASSUME NEW j \in DOMAIN file, Below(file[j]) = asked
                   PROVE  file[j] = file[asked + 1]
        BY DEF FileLines
      <4>1. j = asked + 1
        BY <2>1, <2>2, <3>1
      <4>2. QED
        BY <4>1
    <3>4. Item(asked) = CHOOSE s \in FileLines : Below(s) = asked
      BY <2>3 DEF Item, Below
    <3>5. QED
      BY <3>2, <3>3, <3>4 DEF Cached
  <2>5. QED
    BY <2>2, <2>4 DEF CountedItem
<1>2. QED
  BY <1>1, TypesInvariant, ItemsInvariant, PTL
=============================================================================
