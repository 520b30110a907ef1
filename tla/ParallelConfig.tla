--------------------------- MODULE ParallelConfig ---------------------------
(***************************************************************************)
(* ParallelVerificationConfig (validation/parallel_config.cpp, .h) and the *)
(* route POST /parallel-config that writes it.                             *)
(*                                                                         *)
(* enabled and max_threads are plain fields: validations read them while   *)
(* the route writes them, with no lock, and get_thread_count() reads       *)
(* max_threads twice.  The four statistics are atomics, each bumped on its *)
(* own.  An HTTP value of max_threads is a 64-bit integer that the route   *)
(* stores in an int: Narrow keeps it modulo IntModulus (2^32 in the code,  *)
(* smaller in the instances).                                              *)
(***************************************************************************)
EXTENDS Integers, FiniteSets

CONSTANTS Admins,         \* the threads that serve POST /parallel-config
          ThreadArgs,     \* the values of max_threads clients send
          IntModulus,     \* the number of values of an int
          ThreadLimit,    \* the 64 of the route
          HwThreads,      \* what hardware_concurrency() may return, 0 included
          Absent          \* a field the request does not have

ASSUME ThreadArgsAssumption == ThreadArgs \subseteq Int
ASSUME IntModulusAssumption ==
  IntModulus \in Nat /\ IntModulus % 2 = 0 /\ IntModulus > 2 * ThreadLimit
ASSUME ThreadLimitAssumption == ThreadLimit \in Nat /\ ThreadLimit >= 16
ASSUME HwThreadsAssumption == HwThreads \subseteq Nat
ASSUME AbsentAssumption == Absent \notin Int /\ Absent \notin BOOLEAN

VARIABLES enabled, maxThreads,                    \* the plain fields
          parallelValidations, totalInputsParallel,
          sequentialValidations, totalInputsSequential,
          adminPc,        \* where each admin's handler stands
          adminReq,       \* the request it serves
          adminReply,     \* the answer it builds
          overtaken       \* history: the admins between whose two reads in
                          \* get_thread_count() max_threads was written

settings == <<enabled, maxThreads>>
counters == <<parallelValidations, totalInputsParallel,
              sequentialValidations, totalInputsSequential>>
adminVars == <<adminPc, adminReq, adminReply, overtaken>>
configVars == <<settings, counters, adminVars>>

ConfigRequests ==
  [enabled : BOOLEAN \cup {Absent}, maxThreads : ThreadArgs \cup {Absent}]

ConfigReplies ==
  [status : {0, 200, 400}, enabled : BOOLEAN \cup {Absent},
   maxThreads : Int \cup {Absent}, detected : Int \cup {Absent}]

NoConfigRequest == [enabled |-> Absent, maxThreads |-> Absent]
NoConfigReply ==
  [status |-> 0, enabled |-> Absent, maxThreads |-> Absent, detected |-> Absent]

\* int64_t to int: two's complement.
Narrow(n) ==
  LET half == IntModulus \div 2 IN ((n + half) % IntModulus) - half

\* get_thread_count() when no number is configured, on a machine that reports
\* hw threads.
Detected(hw) == IF hw = 0 THEN 4 ELSE IF hw < 16 THEN hw ELSE 16

ConfigInit ==
  /\ enabled = TRUE
  /\ maxThreads = 0
  /\ parallelValidations = 0
  /\ totalInputsParallel = 0
  /\ sequentialValidations = 0
  /\ totalInputsSequential = 0
  /\ adminPc = [a \in Admins |-> "idle"]
  /\ adminReq = [a \in Admins |-> NoConfigRequest]
  /\ adminReply = [a \in Admins |-> NoConfigReply]
  /\ overtaken = {}

AdminGoto(a, stage) == adminPc' = [adminPc EXCEPT ![a] = stage]

ConfigReceive(a) ==
  /\ adminPc[a] = "idle"
  /\ \E r \in ConfigRequests : adminReq' = [adminReq EXCEPT ![a] = r]
  /\ AdminGoto(a, "enabled")
  /\ UNCHANGED <<settings, counters, adminReply, overtaken>>

\* enabled is assigned before max_threads is looked at.
ConfigEnabled(a) ==
  /\ adminPc[a] = "enabled"
  /\ enabled' = IF adminReq[a].enabled = Absent
                THEN enabled ELSE adminReq[a].enabled
  /\ AdminGoto(a, "threads")
  /\ UNCHANGED <<maxThreads, counters, adminReq, adminReply, overtaken>>

\* Mutant: the upper end of the range is not tested.
InRangeBelowOnly(n) == n >= 0

\* The test of the route, on the narrowed value.
InRange(n) == n >= 0 /\ n <= ThreadLimit

ConfigRefused(a) ==
  /\ adminPc[a] = "threads"
  /\ adminReq[a].maxThreads # Absent
  /\ ~ InRange(Narrow(adminReq[a].maxThreads))
  /\ adminReply' = [adminReply EXCEPT ![a].status = 400]
  /\ AdminGoto(a, "replying")
  /\ UNCHANGED <<settings, counters, adminReq, overtaken>>

ConfigThreads(a) ==
  /\ adminPc[a] = "threads"
  /\ \/ adminReq[a].maxThreads = Absent /\ UNCHANGED <<maxThreads, overtaken>>
     \/ /\ adminReq[a].maxThreads # Absent
        /\ InRange(Narrow(adminReq[a].maxThreads))
        /\ maxThreads' = Narrow(adminReq[a].maxThreads)
        /\ overtaken' = overtaken \cup {b \in Admins : adminPc[b] = "rereading threads"}
  /\ AdminGoto(a, "reading enabled")
  /\ UNCHANGED <<enabled, counters, adminReq, adminReply>>

\* The answer reads the fields back one by one, whoever wrote them last.
ReportEnabled(a) ==
  /\ adminPc[a] = "reading enabled"
  /\ adminReply' = [adminReply EXCEPT ![a].enabled = enabled]
  /\ AdminGoto(a, "reading max_threads")
  /\ UNCHANGED <<settings, counters, adminReq, overtaken>>

ReportThreads(a) ==
  /\ adminPc[a] = "reading max_threads"
  /\ adminReply' = [adminReply EXCEPT ![a].maxThreads = maxThreads]
  /\ AdminGoto(a, "reading threads")
  /\ UNCHANGED <<settings, counters, adminReq, overtaken>>

\* Mutant: the test also lets 0 through.
ConfiguredFromZero(a) ==
  /\ adminPc[a] = "reading threads"
  /\ maxThreads >= 0
  /\ AdminGoto(a, "rereading threads")
  /\ UNCHANGED <<settings, counters, adminReq, adminReply, overtaken>>

\* get_thread_count(): the first read finds a number, to be read again.
ThreadsConfigured(a) ==
  /\ adminPc[a] = "reading threads"
  /\ maxThreads > 0
  /\ AdminGoto(a, "rereading threads")
  /\ UNCHANGED <<settings, counters, adminReq, adminReply, overtaken>>

\* The second read is what is returned, whatever was written meanwhile.
ReportConfigured(a) ==
  /\ adminPc[a] = "rereading threads"
  /\ adminReply' =
       [adminReply EXCEPT ![a].status = 200, ![a].detected = maxThreads]
  /\ AdminGoto(a, "replying")
  /\ UNCHANGED <<settings, counters, adminReq, overtaken>>

\* None is configured.
ReportDetected(a) ==
  /\ adminPc[a] = "reading threads"
  /\ maxThreads = 0
  /\ \E hw \in HwThreads :
       adminReply' =
         [adminReply EXCEPT ![a].status = 200, ![a].detected = Detected(hw)]
  /\ AdminGoto(a, "replying")
  /\ UNCHANGED <<settings, counters, adminReq, overtaken>>

ConfigRespond(a) ==
  /\ adminPc[a] = "replying"
  /\ AdminGoto(a, "idle")
  /\ adminReq' = [adminReq EXCEPT ![a] = NoConfigRequest]
  /\ adminReply' = [adminReply EXCEPT ![a] = NoConfigReply]
  /\ overtaken' = overtaken \ {a}
  /\ UNCHANGED <<settings, counters>>

AdminStep(a) ==
  \/ ConfigReceive(a)
  \/ ConfigEnabled(a) \/ ConfigRefused(a) \/ ConfigThreads(a)
  \/ ReportEnabled(a) \/ ReportThreads(a)
  \/ ThreadsConfigured(a) \/ ReportConfigured(a) \/ ReportDetected(a)
  \/ ConfigRespond(a)

ConfigSpec == ConfigInit /\ [][\E a \in Admins : AdminStep(a)]_configVars
-----------------------------------------------------------------------------
(* The two halves of record_parallel_validation and of                     *)
(* record_sequential_validation, for the callers in Validator.             *)

RecordParallel ==
  /\ parallelValidations' = parallelValidations + 1
  /\ UNCHANGED <<totalInputsParallel, sequentialValidations,
                 totalInputsSequential>>

RecordParallelInputs(n) ==
  /\ totalInputsParallel' = totalInputsParallel + n
  /\ UNCHANGED <<parallelValidations, sequentialValidations,
                 totalInputsSequential>>

RecordSequential ==
  /\ sequentialValidations' = sequentialValidations + 1
  /\ UNCHANGED <<parallelValidations, totalInputsParallel,
                 totalInputsSequential>>

RecordSequentialInputs(n) ==
  /\ totalInputsSequential' = totalInputsSequential + n
  /\ UNCHANGED <<parallelValidations, totalInputsParallel,
                 sequentialValidations>>
-----------------------------------------------------------------------------
(* Properties                                                              *)

AdminStages ==
  {"idle", "enabled", "threads", "reading enabled", "reading max_threads",
   "reading threads", "rereading threads", "replying"}

ConfigTypeOK ==
  /\ enabled \in BOOLEAN
  /\ maxThreads \in Int
  /\ parallelValidations \in Nat /\ totalInputsParallel \in Nat
  /\ sequentialValidations \in Nat /\ totalInputsSequential \in Nat
  /\ adminPc \in [Admins -> AdminStages]
  /\ adminReq \in [Admins -> ConfigRequests]
  /\ adminReply \in [Admins -> ConfigReplies]
  /\ overtaken \subseteq Admins

\* Whatever 64-bit value a client sends and whichever handlers race, no
\* answered thread count exceeds ThreadLimit or is negative: the range test is
\* made on the value that is stored.  And none is 0, which parallel_config.h has
\* for "auto-detect", unless max_threads was written between the two reads of the
\* call that counts.
ThreadCountInRange ==
  \A a \in Admins :
    adminReply[a].detected # Absent =>
      /\ adminReply[a].detected \in 0 .. ThreadLimit
      /\ adminReply[a].detected = 0 => a \in overtaken

\* The inductive invariant behind ThreadCountInRange.
ConfigInv ==
  /\ ConfigTypeOK
  /\ maxThreads \in 0 .. ThreadLimit
  /\ \A a \in Admins :
       adminPc[a] = "rereading threads" /\ a \notin overtaken => maxThreads > 0
  /\ ThreadCountInRange
=============================================================================
