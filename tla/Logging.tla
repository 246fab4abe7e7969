------------------------------- MODULE Logging ------------------------------
(***************************************************************************)
(* The statements of apsara/stone/logging that write a record: the plain   *)
(* and conditional ones (STONE_LOG_X_IF), the blocks (STONE_LOG_X_BEGIN,   *)
(* STONE_LOG_FIELD, STONE_LOG_X_END), the sampled ones                     *)
(* (STONE_LOG_X_SAMPLED) and LOG_TRACE_IF.  Every place in the program     *)
(* that has one, a site, keeps a static LogInfo, shared by all threads and *)
(* changed at any time by whoever administers the logs; a sampled site     *)
(* also keeps the count at which it logs next.  The text of a record is    *)
(* left out; the logger beyond its minimal level is external.              *)
(***************************************************************************)
EXTENDS Integers, Sequences, FiniteSets

CONSTANTS
    LogThread,
    Form,          \* the form of the site: "if", "block", "sampled", "trace"
    NextFunc,      \* of a sampled site: "const", "linear", "double"
    InitNext,      \* of a sampled site: the counts to begin with
    Level,         \* the levels, numbers
    MaxTouch,      \* bound: statements executed that pass the test
    MaxAdmin       \* bound: changes by the administrator

NoOne == "nobody"

ASSUME LoggingAssumption ==
    /\ InitNext \subseteq Nat /\ Level \subseteq Nat
    /\ Form \subseteq {"if", "block", "sampled", "trace"}
    /\ NextFunc \subseteq {"const", "linear", "double"}
    /\ MaxTouch \in Nat /\ MaxAdmin \in Nat
    /\ NoOne \notin LogThread

VARIABLES
    form, nextFunc, initNext, level,   \* what the source text of the site says
    mEnabled, mLevel, mCounter,        \* its LogInfo
    sNext, siteLock,                   \* the statics of a sampled site
    mMinLevel,                         \* of the logger
    gThreadLogEnabled,                 \* of each thread
    traced,                            \* whether each thread has a trace id
    lpc,         \* where each thread is in the statement
    lv,          \* the local copy of the level: of a block, or of a record
    count,       \* STONE_LOG_COUNTER
    records,     \* the records appended: the level in it and the one it was appended with
    begun,       \* history: statements begun
    admin,       \* history: changes by the administrator
    steady,      \* history: the level of the LogInfo was not changed during the statement
    minAt        \* history: the minimal level that the statement was tested against

siteVars == <<form, nextFunc, initNext, level>>
infoVars == <<mEnabled, mLevel, mMinLevel, gThreadLogEnabled, traced>>
logVars == <<siteVars, infoVars, mCounter, sNext, siteLock, lpc, lv, count, records, begun, admin, steady, minAt>>

LoggingInit ==
    /\ form \in Form /\ level \in Level /\ mMinLevel \in Level
    /\ IF form = "sampled" THEN nextFunc \in NextFunc /\ initNext \in InitNext
                           ELSE nextFunc = "const" /\ initNext = 1
    /\ mEnabled = TRUE /\ mLevel = level /\ mCounter = 0
    /\ sNext = initNext /\ siteLock = NoOne
    /\ gThreadLogEnabled = [t \in LogThread |-> TRUE]
    /\ IF form = "trace" THEN traced \in [LogThread -> BOOLEAN] ELSE traced = [t \in LogThread |-> FALSE]
    /\ lpc = [t \in LogThread |-> "idle"] /\ lv = [t \in LogThread |-> level]
    /\ count = [t \in LogThread |-> 0]
    /\ records = <<>> /\ begun = 0 /\ admin = 0
    /\ steady = [t \in LogThread |-> TRUE] /\ minAt = [t \in LogThread |-> mMinLevel]

LGoto(t, l) == lpc' = [lpc EXCEPT ![t] = l]

-----------------------------------------------------------------------------
(* How far the count is moved on behind a sample. *)
NextCount(cur) ==
    CASE nextFunc = "const" -> initNext
      [] nextFunc = "linear" -> cur + initNext
      [] nextFunc = "double" -> cur * 2

(* The test at the head of a statement. *)
Passes(t) == mMinLevel <= mLevel /\ mEnabled /\ gThreadLogEnabled[t]

Begins(t) ==
    /\ lpc[t] = "idle" /\ begun < MaxTouch
    /\ begun' = begun + 1 /\ steady' = [steady EXCEPT ![t] = TRUE]
    /\ minAt' = [minAt EXCEPT ![t] = mMinLevel]

(* STONE_LOG_X_IF: the condition of the caller, the test, and the record,   *)
(* whose level and that of AppendLog are read again.                        *)
IfTest(t, condition) ==
    /\ form = "if" /\ Begins(t)
    /\ LGoto(t, IF condition /\ Passes(t) THEN "build" ELSE "idle")
    /\ UNCHANGED <<siteVars, infoVars, mCounter, sNext, siteLock, lv, count, records, admin>>

BuildRecord(t) ==
    /\ lpc[t] \in {"build", "buildTracer"}
    /\ lv' = [lv EXCEPT ![t] = mLevel]
    /\ LGoto(t, IF lpc[t] = "build" THEN "append" ELSE "appendTracer")
    /\ UNCHANGED <<siteVars, infoVars, mCounter, sNext, siteLock, count, records, begun, admin, steady, minAt>>

Appended(t, with) ==
    records' = Append(records, [in |-> lv[t], with |-> with, at |-> count[t],
                                min |-> minAt[t], steady |-> steady[t]])

AppendLog(t) ==
    /\ lpc[t] = "append" /\ form \in {"if", "trace"}
    /\ Appended(t, mLevel) /\ LGoto(t, "idle")
    /\ UNCHANGED <<siteVars, infoVars, mCounter, sNext, siteLock, lv, count, begun, admin, steady, minAt>>

(* STONE_LOG_X_BEGIN: the level and the outcome of the test are kept in     *)
(* local variables; STONE_LOG_X_END appends with the level of the beginning.*)
BlockBegin(t) ==
    /\ form = "block" /\ Begins(t)
    /\ lv' = [lv EXCEPT ![t] = mLevel]
    /\ LGoto(t, IF Passes(t) THEN "end" ELSE "idle")
    /\ UNCHANGED <<siteVars, infoVars, mCounter, sNext, siteLock, count, records, admin>>

EndLevelAgain(t) == mLevel   \* deviation: the level is read again at the end
EndLevel(t) == lv[t]

BlockEnd(t) ==
    /\ lpc[t] = "end" /\ form = "block"
    /\ Appended(t, EndLevel(t)) /\ LGoto(t, "idle")
    /\ UNCHANGED <<siteVars, infoVars, mCounter, sNext, siteLock, lv, count, begun, admin, steady, minAt>>

(* STONE_LOG_X_SAMPLED: the test, the lock of the site, Touch and the       *)
(* comparison, the record, the next count, the end of the locked block.     *)
SampledTest(t) ==
    /\ form = "sampled" /\ Begins(t)
    /\ LGoto(t, IF Passes(t) THEN "lock" ELSE "idle")
    /\ UNCHANGED <<siteVars, infoVars, mCounter, sNext, siteLock, lv, count, records, admin>>

SiteAlwaysFree(t) == TRUE   \* deviation: the count is not locked
SiteFree(t) == siteLock = NoOne

SampledLock(t) ==
    /\ lpc[t] = "lock" /\ SiteFree(t)
    /\ siteLock' = t /\ LGoto(t, "touch")
    /\ UNCHANGED <<siteVars, infoVars, mCounter, sNext, lv, count, records, begun, admin, steady, minAt>>

Touch(t) ==
    /\ lpc[t] = "touch"
    /\ mCounter' = mCounter + 1 /\ count' = [count EXCEPT ![t] = mCounter + 1]
    /\ LGoto(t, "compare")
    /\ UNCHANGED <<siteVars, infoVars, sNext, siteLock, lv, records, begun, admin, steady, minAt>>

Compare(t) ==
    /\ lpc[t] = "compare"
    /\ LGoto(t, IF count[t] = sNext THEN "build" ELSE "unlock")
    /\ UNCHANGED <<siteVars, infoVars, mCounter, sNext, siteLock, lv, count, records, begun, admin, steady, minAt>>

SampledAppend(t) ==
    /\ lpc[t] = "append" /\ form = "sampled"
    /\ Appended(t, mLevel) /\ LGoto(t, "next")
    /\ UNCHANGED <<siteVars, infoVars, mCounter, sNext, siteLock, lv, count, begun, admin, steady, minAt>>

MoveOn(t) ==
    /\ lpc[t] = "next"
    /\ sNext' = NextCount(count[t]) /\ LGoto(t, "unlock")
    /\ UNCHANGED <<siteVars, infoVars, mCounter, siteLock, lv, count, records, begun, admin, steady, minAt>>

SampledUnlock(t) ==
    /\ lpc[t] = "unlock"
    /\ siteLock' = NoOne /\ LGoto(t, "idle")
    /\ UNCHANGED <<siteVars, infoVars, mCounter, sNext, lv, count, records, begun, admin, steady, minAt>>

(* LOG_TRACE_IF: a record for the tracer if the thread has a trace id, and  *)
(* one for the logger if the level in the source, not that of the LogInfo,  *)
(* passes; whether the site is enabled is not looked at.                    *)
TraceTest(t, condition) ==
    /\ form = "trace" /\ Begins(t)
    /\ LGoto(t, IF ~condition THEN "idle" ELSE IF traced[t] THEN "buildTracer" ELSE "trace")
    /\ UNCHANGED <<siteVars, infoVars, mCounter, sNext, siteLock, lv, count, records, admin>>

AppendTracer(t) ==
    /\ lpc[t] = "appendTracer"
    /\ Appended(t, mLevel) /\ LGoto(t, "trace")
    /\ UNCHANGED <<siteVars, infoVars, mCounter, sNext, siteLock, lv, count, begun, admin, steady, minAt>>

TraceLogger(t) ==
    /\ lpc[t] = "trace"
    /\ LGoto(t, IF mMinLevel <= level /\ gThreadLogEnabled[t] THEN "build" ELSE "idle")
    /\ UNCHANGED <<siteVars, infoVars, mCounter, sNext, siteLock, lv, count, records, begun, admin, steady, minAt>>

-----------------------------------------------------------------------------
(* LogInfo::Enable, SetLevel and Reset, Logger::SetMinLevel, called by      *)
(* anybody at any time, and EnableThreadLog, by the thread for itself.      *)
Administers ==
    /\ admin < MaxAdmin /\ admin' = admin + 1
    /\ UNCHANGED <<siteVars, traced, mCounter, sNext, siteLock, lpc, lv, count, records, begun, minAt>>

Unsteady == steady' = [t \in LogThread |-> FALSE]

Enable(enabled) ==
    /\ Administers /\ mEnabled' = enabled
    /\ UNCHANGED <<mLevel, mMinLevel, gThreadLogEnabled, steady>>

SetLevel(l) ==
    /\ Administers /\ mLevel' = l /\ Unsteady
    /\ UNCHANGED <<mEnabled, mMinLevel, gThreadLogEnabled>>

Reset ==
    /\ Administers /\ mEnabled' = TRUE /\ mLevel' = level /\ Unsteady
    /\ UNCHANGED <<mMinLevel, gThreadLogEnabled>>

SetMinLevel(l) ==
    /\ Administers /\ mMinLevel' = l
    /\ UNCHANGED <<mEnabled, mLevel, gThreadLogEnabled, steady>>

EnableThreadLog(t, enabled) ==
    /\ lpc[t] = "idle" /\ Administers
    /\ gThreadLogEnabled' = [gThreadLogEnabled EXCEPT ![t] = enabled]
    /\ UNCHANGED <<mEnabled, mLevel, mMinLevel, steady>>

LoggingNext ==
    \/ \E t \in LogThread :
          \/ \E c \in BOOLEAN : IfTest(t, c) \/ TraceTest(t, c) \/ EnableThreadLog(t, c)
          \/ BuildRecord(t) \/ AppendLog(t) \/ BlockBegin(t) \/ BlockEnd(t)
          \/ SampledTest(t) \/ SampledLock(t) \/ Touch(t) \/ Compare(t)
          \/ SampledAppend(t) \/ MoveOn(t) \/ SampledUnlock(t)
          \/ AppendTracer(t) \/ TraceLogger(t)
    \/ \E e \in BOOLEAN : Enable(e)
    \/ \E l \in Level : SetLevel(l) \/ SetMinLevel(l)
    \/ Reset

LoggingSpec == LoggingInit /\ [][LoggingNext]_logVars

-----------------------------------------------------------------------------
(* The counts at which a sampled site logs: the first only, its multiples,  *)
(* or the least set that it is in and that is closed under doubling.        *)
Doubled(c) ==
    /\ initNext <= c
    /\ \A S \in SUBSET (initNext .. c) :
          initNext \in S /\ (\A x \in S : 2 * x <= c => 2 * x \in S) => c \in S

Sampled(c) ==
    /\ initNext > 0
    /\ CASE nextFunc = "const" -> c = initNext
         [] nextFunc = "linear" -> c % initNext = 0
         [] nextFunc = "double" -> Doubled(c)

(* Whenever nobody is in its locked block, a sampled site has logged every  *)
(* count that its function asks for, once and in order, whichever threads   *)
(* executed it: no race makes the count pass sNext, which would silence the *)
(* site for good.  CONST_NEXT asks for one count only.                      *)
SampledAsPromised ==
    form = "sampled" /\ siteLock = NoOne =>
        /\ {records[i].at : i \in DOMAIN records} = {c \in 1 .. mCounter : Sampled(c)}
        /\ \A i, j \in DOMAIN records : i < j => records[i].at < records[j].at

(* A record is appended with the level that is in it, and one that passed   *)
(* the minimal level, if nobody changed the site's level meanwhile; the     *)
(* record of a block always, for it keeps the level it tested.              *)
RecordsAsTested ==
    \A i \in DOMAIN records :
        form = "block" \/ records[i].steady =>
            /\ records[i].in = records[i].with
            /\ form # "trace" => records[i].in >= records[i].min
=============================================================================
