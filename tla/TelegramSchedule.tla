--------------------------- MODULE TelegramSchedule ---------------------------
(***************************************************************************)
(* Prompts that run on a schedule (telegram/scheduler.py).  The jobs are a *)
(* file; the scheduler's loop stamps a job in it before it runs the job,   *)
(* while the telegram_schedule tool creates and deletes jobs from worker   *)
(* threads.  Each operation of the store reads the file, writes a copy     *)
(* beside it, and puts that in its place; nothing excludes two of them.    *)
(* Skills with a schedule (AssistantScheduler) are stamped in memory.*)
(* Every time unit makes every job due.                                    *)
(***************************************************************************)
EXTENDS Naturals, FiniteSets, FiniteSetsExt, Functions

CONSTANTS
    Jobs,          \* job ids, numbers in the order a tick takes them
    Tools,         \* threads that run the telegram_schedule tool
    Loop,          \* the thread of the scheduler's loop
    MaxTime,       \* bound: time units
    MaxCalls,      \* bound: calls of the tool
    MaxFaults      \* bound: crashes, unreadable files, writes that fail

ASSUME ScheduleAssumption ==
    /\ Jobs \subseteq Nat /\ {MaxTime, MaxCalls, MaxFaults} \subseteq Nat
    /\ Loop \notin Tools

VARIABLES
    file,      \* the jobs and their last_run_at
    spare,     \* the .tmp file: <<>> or one copy
    thread,    \* store operation of each thread
    tick,      \* the loop: its pc, the time and jobs of this tick, the job at hand
    memo,      \* AssistantScheduler._last_run, for skills
    kind,      \* "prompts" or "skills": whose loop this is
    time,
    runs,      \* history: how often each job ran for each stamp
    promised,  \* history: jobs whose creation was confirmed, and no deletion
    missed,    \* history: a tick passed over a job that was due
    crossed,   \* history: store operations overlapped, or one read nothing
    calls, faults

scheduleVars == <<file, spare, thread, tick, memo, kind, time, runs, promised,
                  missed, crossed, calls, faults>>

Threads == Tools \cup {Loop}
NoJobs == [j \in {} |-> 0]
Rest == [pc |-> "rest", op |-> "none", job |-> 0, copy |-> NoJobs]
Asleep == [pc |-> "asleep", now |-> 0, listed |-> NoJobs, todo |-> {}, job |-> 0]

ScheduleInit ==
    /\ kind \in {"prompts", "skills"}
    /\ file = NoJobs /\ spare = << >>
    /\ thread = [t \in Threads |-> Rest]
    /\ tick = Asleep
    /\ \E D \in SUBSET Jobs :
         memo = IF kind = "skills" THEN [j \in D |-> 0] ELSE NoJobs
    /\ time = 0 /\ runs = [j \in Jobs |-> [n \in 0..MaxTime |-> 0]]
    /\ promised = {} /\ missed = FALSE /\ crossed = FALSE
    /\ calls = 0 /\ faults = 0

Without(f, j) == Restrict(f, DOMAIN f \ {j})
With(f, j, n) == [i \in DOMAIN f \cup {j} |-> IF i = j THEN n ELSE f[i]]

Fault == faults < MaxFaults /\ faults' = faults + 1
Fine == UNCHANGED faults

-----------------------------------------------------------------------------
(* The store, one file operation at a time *)

Begin(t, op, j) ==
    thread' = [thread EXCEPT ![t] = [pc |-> "load", op |-> op, job |-> j, copy |-> NoJobs]]

(* create_job, delete_job: a call of the tool.  The id of a job is new.    *)
Call(t) ==
    /\ kind = "prompts" /\ t \in Tools /\ thread[t].pc = "rest"
    /\ calls < MaxCalls /\ calls' = calls + 1
    /\ \E j \in Jobs :
         \/ /\ j \notin promised \cup DOMAIN file \cup DOMAIN tick.listed
            /\ \A n \in 0..MaxTime : runs[j][n] = 0
            /\ \A u \in Threads : thread[u].job # j
            /\ Begin(t, "create", j)
         \/ j \in promised /\ Begin(t, "delete", j)
    /\ UNCHANGED <<file, spare, tick, memo, kind, time, runs, promised, missed, crossed, faults>>

(* _load; a file that cannot be read counts as empty.                      *)
Load(t) ==
    /\ thread[t].pc = "load"
    /\ \E c \in {file, NoJobs} :
         /\ IF c = file THEN Fine ELSE Fault
         /\ LET j == thread[t].job
                unchanged == thread[t].op # "create" /\ j \notin DOMAIN c
            IN /\ thread' = [thread EXCEPT
                    ![t].copy = CASE unchanged -> c
                                  [] thread[t].op = "create" -> With(c, j, time)
                                  [] thread[t].op = "delete" -> Without(c, j)
                                  [] OTHER -> With(c, j, tick.now),
                    ![t].pc = IF unchanged THEN "done" ELSE "write"]
         /\ crossed' = (crossed \/ c # file
              \/ \E u \in Threads \ {t} : thread[u].pc \in {"write", "replace"})
    /\ UNCHANGED <<file, spare, tick, memo, kind, time, runs, promised, missed, calls>>

(* _save: the copy goes to a file next to it first...                      *)
WriteCopy(t) ==
    /\ thread[t].pc = "write"
    /\ \/ spare' = <<thread[t].copy>> /\ Fine
          /\ thread' = [thread EXCEPT ![t].pc = "replace"]
       \/ Fault /\ UNCHANGED spare /\ thread' = [thread EXCEPT ![t].pc = "failed"]
    /\ UNCHANGED <<file, tick, memo, kind, time, runs, promised, missed, crossed, calls>>

(* ... which then takes its name, if nobody else has moved it away.        *)
Replace(t) ==
    /\ thread[t].pc = "replace"
    /\ IF spare = << >>
       THEN thread' = [thread EXCEPT ![t].pc = "failed"] /\ UNCHANGED <<file, spare>>
       ELSE /\ file' = spare[1] /\ spare' = << >>
            /\ thread' = [thread EXCEPT ![t].pc = "done"]
    /\ UNCHANGED <<tick, memo, kind, time, runs, promised, missed, crossed, calls, faults>>

(* The tool answers. *)
Answer(t) ==
    /\ t \in Tools /\ thread[t].pc \in {"done", "failed"}
    /\ LET j == thread[t].job
           ok == thread[t].pc = "done"
       IN promised' = CASE ok /\ thread[t].op = "create" -> promised \cup {j}
                        [] ok /\ thread[t].op = "delete" -> promised \ {j}
                        [] OTHER -> promised
    /\ thread' = [thread EXCEPT ![t] = Rest]
    /\ UNCHANGED <<file, spare, tick, memo, kind, time, runs, missed, crossed, calls, faults>>

-----------------------------------------------------------------------------
(* The loop *)

(* _tick: what the loop is to look at is read once. *)
TickBegins ==
    /\ tick.pc = "asleep" /\ tick.now < time
    /\ LET jobs == IF kind = "prompts" THEN file ELSE [j \in Jobs |-> 0] IN
         tick' = [pc |-> "next", now |-> time, listed |-> jobs, todo |-> DOMAIN jobs, job |-> 0]
    /\ UNCHANGED <<file, spare, thread, memo, kind, time, runs, promised, missed, crossed, calls, faults>>

(* _is_due, by the stamp the listing had when the tick began.              *)
Due(j) == IF kind = "prompts" THEN tick.listed[j] < tick.now
          ELSE j \in DOMAIN memo /\ memo[j] < tick.now

(* Mutant: the job is stamped when it has run. *)
StampsLast(step) == CASE step = "due" -> "run" [] step = "run" -> "stamp" [] step = "stamp" -> "next"

(* What follows when a job is due, stamped, and has run. *)
Then(step) == CASE step = "due" -> "stamp" [] step = "stamp" -> "run" [] step = "run" -> "next"

NextJob ==
    /\ tick.pc = "next" /\ tick.todo # {}
    /\ LET j == Min(tick.todo) IN
       /\ IF Due(j)
          THEN tick' = [tick EXCEPT !.todo = @ \ {j}, !.job = j, !.pc = Then("due")]
          ELSE tick' = [tick EXCEPT !.todo = @ \ {j}]
       /\ memo' = IF kind = "skills" /\ j \notin DOMAIN memo THEN With(memo, j, tick.now) ELSE memo
    /\ UNCHANGED <<file, spare, thread, kind, time, runs, promised, missed, crossed, calls, faults>>

(* _execute_job stamps first: update_last_run, which does nothing when the *)
(* job has been deleted meanwhile; _execute_trigger stamps in memory.      *)
Stamp ==
    /\ tick.pc = "stamp"
    /\ IF kind = "skills"
       THEN /\ memo' = With(memo, tick.job, time)
            /\ tick' = [tick EXCEPT !.pc = Then("stamp")] /\ UNCHANGED thread
       ELSE /\ thread[Loop].pc = "rest" /\ Begin(Loop, "stamp", tick.job)
            /\ tick' = [tick EXCEPT !.pc = "stamping"] /\ UNCHANGED memo
    /\ UNCHANGED <<file, spare, kind, time, runs, promised, missed, crossed, calls, faults>>

(* A store that fails ends the loop, which still counts as running, so     *)
(* that start() would not start it again.                                  *)
Stamped ==
    /\ tick.pc = "stamping" /\ thread[Loop].pc \in {"done", "failed"}
    /\ thread' = [thread EXCEPT ![Loop] = Rest]
    /\ tick' = IF thread[Loop].pc = "failed" THEN [tick EXCEPT !.pc = "dead"]
               ELSE [tick EXCEPT !.pc = Then("stamp")]
    /\ UNCHANGED <<file, spare, memo, kind, time, runs, promised, missed, crossed, calls, faults>>

(* The agent runs the job, up to its timeout, and the chat is told; the    *)
(* next job waits.                                                         *)
Run ==
    /\ tick.pc = "run"
    /\ LET n == IF kind = "skills" THEN memo[tick.job] ELSE tick.now IN
         runs' = [runs EXCEPT ![tick.job][n] = @ + 1]
    /\ tick' = [tick EXCEPT !.pc = Then("run")]
    /\ UNCHANGED <<file, spare, thread, memo, kind, time, promised, missed, crossed, calls, faults>>

TickEnds ==
    /\ tick.pc = "next" /\ tick.todo = {}
    /\ LET stamps == IF kind = "prompts" THEN file ELSE memo IN
         missed' = (missed \/ \E j \in DOMAIN tick.listed \cap DOMAIN stamps : stamps[j] < tick.now)
    /\ tick' = [Asleep EXCEPT !.now = tick.now]
    /\ UNCHANGED <<file, spare, thread, memo, kind, time, runs, promised, crossed, calls, faults>>

TimePasses ==
    /\ time < MaxTime /\ time' = time + 1
    /\ UNCHANGED <<file, spare, thread, tick, memo, kind, runs, promised, missed, crossed, calls, faults>>

(* The process ends, anywhere, and starts again; skills count from now on. *)
Restart ==
    /\ Fault
    /\ thread' = [t \in Threads |-> Rest] /\ tick' = Asleep
    /\ memo' = IF kind = "skills" THEN [j \in Jobs |-> time] ELSE memo
    /\ promised' = promised \ {thread[t].job : t \in {u \in Threads : thread[u].op = "delete"}}
    /\ UNCHANGED <<file, spare, kind, time, runs, missed, crossed, calls>>

ScheduleNext ==
    \/ \E t \in Threads : Call(t) \/ Load(t) \/ WriteCopy(t) \/ Replace(t) \/ Answer(t)
    \/ TickBegins \/ NextJob \/ Stamp \/ Stamped \/ Run \/ TickEnds
    \/ TimePasses \/ Restart

ScheduleSpec == ScheduleInit /\ [][ScheduleNext]_scheduleVars

-----------------------------------------------------------------------------
(* Properties *)

(* A job runs once for what it was due for, wherever the process ends: it  *)
(* may lose a run, never repeat one (scheduler._execute_job), unless a     *)
(* stamp was lost to another operation of the store.                       *)
RunsOnce ==
    ~crossed => \A j \in Jobs : \A n \in 0..MaxTime : runs[j][n] <= 1

(* What the tool confirmed is in the file, and a tick passes over nobody,  *)
(* as long as no two operations of the store overlapped and none failed    *)
(* (TelegramScheduleStore).                                                *)
JobsAreKept ==
    ~crossed /\ faults = 0 =>
        /\ (\A t \in Tools : thread[t].pc = "rest") => DOMAIN file = promised
        /\ ~missed /\ tick.pc # "dead"

(* A job runs once for what it was due for, and no job is lost             *)
(* (TelegramScheduleStore, _execute_job).                                  *)
JobsRunOnce == RunsOnce /\ JobsAreKept

=============================================================================
