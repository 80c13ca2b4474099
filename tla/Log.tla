---------------------------------- MODULE Log ----------------------------------
(***************************************************************************)
(* The asynchronous logger (src/base/log.h, log.cc): any thread appends     *)
(* lines to curr_buffer_ under mtx_; full buffers wait in buffer_ for the   *)
(* log thread, which takes them, writes them to fp_ and keeps two empty     *)
(* buffers for later.  A critical section is one step.  A line counts as    *)
(* one unit of SIZE, and only whether a spare buffer is there matters.      *)
(***************************************************************************)
EXTENDS Naturals, Sequences, SequencesExt

CONSTANTS SIZE,      \* room in a buffer
          MaxLines,  \* bound on the lines logged
          MaxInits,  \* bound on the calls of init
          MaxLoads   \* bound on the calls of loading

ASSUME LogAssumption ==
  /\ {SIZE, MaxLines, MaxInits, MaxLoads} \subseteq Nat
  /\ SIZE > 1  \* 4000 in log.h:20: an empty buffer takes a line

VARIABLES curr_buffer_,            \* the lines in the current buffer
          next_buffer_,            \* TRUE iff the spare is there (it is empty)
          buffer_,                 \* the buffers waiting for the log thread
          newBuffer1, newBuffer2,  \* TRUE iff the log thread has that spare
          buffer_write,            \* the buffers the log thread has taken
          running_,
          fp_,        \* "null", "open" or "closed"
          tpc,        \* where thread_func is
          opc,        \* where init, stop or ~Log is
          file,       \* the lines written
          lines,      \* lines logged so far; line n is the n-th
          inits, loads,
          kept,       \* history: the lines logged and not discarded by init
          discarded,  \* history: init discarded a buffer of buffer_
          fault       \* a failed assertion, on running_ or on the spares, the use of a
                      \* file that is not open, or a join that throws

poolVars == <<curr_buffer_, next_buffer_, buffer_>>
threadVars == <<newBuffer1, newBuffer2, buffer_write, file, tpc>>
ownerVars == <<running_, fp_, opc, inits>>
callVars == <<lines, loads, kept>>
vars == <<curr_buffer_, next_buffer_, buffer_, newBuffer1, newBuffer2, buffer_write,
          running_, fp_, tpc, opc, file, lines, inits, loads, kept, discarded, fault>>

Lines == Seq(1..MaxLines)

(* The types; a buffer holds less than SIZE, whatever hands it on. *)
TypeOK ==
  /\ \A b \in {curr_buffer_} \cup ToSet(buffer_) : Len(b) < SIZE
  /\ curr_buffer_ \in Lines /\ file \in Lines /\ kept \in Lines
  /\ buffer_ \in Seq(Lines) /\ buffer_write \in Seq(Lines)
  /\ {next_buffer_, newBuffer1, newBuffer2, running_, discarded} \subseteq BOOLEAN
  /\ fp_ \in {"null", "open", "closed"}
  /\ tpc \in {"spin", "started", "test", "lock", "wait", "woken", "write", "recycle",
              "exited", "joined"}
  /\ opc \in {"idle", "switched", "closed", "notify", "join", "done"}
  /\ lines \in 0..MaxLines /\ inits \in 0..MaxInits /\ loads \in 0..MaxLoads
  /\ fault \in {"none", "running", "spares", "file", "join"}

(* The static Log object: running_ and fp_ are zero, the thread has started and
   the two buffers are made before anyone can call init. *)
Init ==
  /\ curr_buffer_ = <<>> /\ file = <<>> /\ kept = <<>>
  /\ buffer_ = <<>> /\ buffer_write = <<>>
  /\ next_buffer_ = TRUE /\ newBuffer1 = TRUE /\ newBuffer2 = TRUE
  /\ running_ = FALSE /\ discarded = FALSE
  /\ fp_ = "null"
  /\ tpc = "spin"
  /\ opc = "idle"
  /\ lines = 0 /\ inits = 0 /\ loads = 0
  /\ fault = "none"

-------------------------------------------------------------------------------
(* The threads that log.                                                       *)

(* Fault: the notification is left out. *)
NotifyOne_Lost == tpc

(* cond_.notify_one(). *)
NotifyOne == IF tpc = "wait" THEN "woken" ELSE tpc

(* refresh_: the current buffer is handed over and the spare, or a new buffer,
   takes its place with the line in it. *)
Refresh(l) ==
  /\ buffer_' = Append(buffer_, curr_buffer_)
  /\ curr_buffer_' = l
  /\ next_buffer_' = FALSE
  /\ tpc' = NotifyOne

(* curr_buffer_->read_able_bytes() + len < SIZE *)
Fits == Len(curr_buffer_) + 1 < SIZE

(* write and append. *)
AppendLine ==
  /\ lines < MaxLines /\ opc # "done"
  /\ lines' = lines + 1
  /\ kept' = Append(kept, lines')
  /\ IF Fits
       THEN curr_buffer_' = Append(curr_buffer_, lines')
              /\ UNCHANGED <<next_buffer_, buffer_, tpc>>
       ELSE Refresh(<<lines'>>)
  /\ UNCHANGED <<newBuffer1, newBuffer2, buffer_write, file, ownerVars, loads,
                 discarded, fault>>

(* loading, which HttpServer::start schedules on the base loop. *)
Loading ==
  /\ loads < MaxLoads /\ opc # "done"
  /\ loads' = loads + 1
  /\ Refresh(<<>>)
  /\ UNCHANGED <<newBuffer1, newBuffer2, buffer_write, file, ownerVars, lines, kept,
                 discarded, fault>>

-------------------------------------------------------------------------------
(* init, stop and ~Log, on the thread that owns the logger.                    *)

(* init up to the end of switch_log: what is stored is dropped, the file is
   closed if there is one, and opened.  The log thread uses fp_ without mtx_:
   it may be caught with the closed file, or find the new one. *)
SwitchLog ==
  /\ opc = "idle" /\ inits < MaxInits
  /\ inits' = inits + 1
  /\ opc' = "switched"
  /\ discarded' = (discarded \/ buffer_ # <<>>)
  /\ curr_buffer_' = <<>>
  /\ buffer_' = <<>>
  /\ kept' = file \o FlattenSeq(buffer_write)
  /\ fp_' = "open"
  /\ fault' \in {fault} \cup IF tpc \in {"write", "recycle"} THEN {"file"} ELSE {}
  /\ UNCHANGED <<next_buffer_, threadVars, running_, lines, loads>>

(* The rest of init. *)
InitRuns ==
  /\ opc = "switched"
  /\ opc' = "idle"
  /\ running_' = TRUE
  /\ tpc' = IF running_ THEN tpc ELSE NotifyOne
  /\ UNCHANGED <<poolVars, newBuffer1, newBuffer2, buffer_write, file, fp_, inits,
                 callVars, discarded, fault>>

(* stop, which anyone may call, once, twice or before init: running_ = false ... *)
StopSets ==
  /\ opc \in {"idle", "closed"}
  /\ opc' = "notify"
  /\ running_' = FALSE
  /\ UNCHANGED <<poolVars, threadVars, fp_, inits, callVars, discarded, fault>>

(* ... the notification, without mtx_ ... *)
StopNotifies ==
  /\ opc = "notify"
  /\ opc' = "join"
  /\ tpc' = NotifyOne
  /\ UNCHANGED <<poolVars, newBuffer1, newBuffer2, buffer_write, file, running_, fp_,
                 inits, callVars, discarded, fault>>

(* ... and thread_.join(), which throws if the thread was joined before. *)
StopJoins ==
  /\ opc = "join"
  /\ tpc \in {"exited", "joined"}
  /\ tpc' = "joined"
  /\ opc' = IF fp_ = "closed" THEN "done" ELSE "idle"
  /\ fault' = IF tpc = "joined" THEN "join" ELSE fault
  /\ UNCHANGED <<poolVars, newBuffer1, newBuffer2, buffer_write, file, running_, fp_,
                 inits, callVars, discarded>>

(* ~Log closes the file first, and then stops a thread that is running. *)
Destroy ==
  /\ opc = "idle"
  /\ opc' = IF running_ THEN "closed" ELSE "done"
  /\ fp_' = "closed"
  /\ fault' = IF fp_ = "open" THEN fault ELSE "file"
  /\ UNCHANGED <<poolVars, threadVars, running_, inits, callVars, discarded>>

-------------------------------------------------------------------------------
(* thread_func.                                                                *)

(* Fault: the thread does not wait for init. *)
ThreadStarts_NoSpin ==
  /\ tpc = "spin"
  /\ tpc' = "started"
  /\ UNCHANGED <<poolVars, newBuffer1, newBuffer2, buffer_write, file, ownerVars,
                 callVars, discarded, fault>>

(* while (!running_); *)
ThreadStarts ==
  /\ tpc = "spin"
  /\ running_
  /\ tpc' = "started"
  /\ UNCHANGED <<poolVars, newBuffer1, newBuffer2, buffer_write, file, ownerVars,
                 callVars, discarded, fault>>

(* assert(running_ == true), which reads running_ again. *)
ThreadAsserts ==
  /\ tpc = "started"
  /\ tpc' = "test"
  /\ fault' = IF running_ THEN fault ELSE "running"
  /\ UNCHANGED <<poolVars, newBuffer1, newBuffer2, buffer_write, file, ownerVars,
                 callVars, discarded>>

(* while (running_); past the loop comes the last fflush. *)
ThreadTests ==
  /\ tpc = "test"
  /\ tpc' = IF running_ THEN "lock" ELSE "exited"
  /\ fault' = IF ~running_ /\ fp_ # "open" THEN "file" ELSE fault
  /\ UNCHANGED <<poolVars, newBuffer1, newBuffer2, buffer_write, file, ownerVars,
                 callVars, discarded>>

(* Nothing to write: cond_.wait(lk). *)
ThreadWaits ==
  /\ tpc = "lock"
  /\ buffer_ = <<>>
  /\ tpc' = "wait"
  /\ UNCHANGED <<poolVars, newBuffer1, newBuffer2, buffer_write, file, ownerVars,
                 callVars, discarded, fault>>

(* A condition variable may wake up by itself. *)
SpuriousWake ==
  /\ tpc = "wait"
  /\ tpc' = "woken"
  /\ UNCHANGED <<poolVars, newBuffer1, newBuffer2, buffer_write, file, ownerVars,
                 callVars, discarded, fault>>

(* Fault: the current buffer is taken ahead of the full ones. *)
Taken_CurrFirst == <<curr_buffer_>> \o buffer_

(* buffer_.push_back(std::move(curr_buffer_)) and the swap. *)
Taken == Append(buffer_, curr_buffer_)

(* The critical section past the wait; the spares take the empty places. *)
ThreadTakes ==
  /\ tpc = "woken" \/ (tpc = "lock" /\ buffer_ # <<>>)
  /\ tpc' = "write"
  /\ buffer_write' = Taken
  /\ buffer_' = <<>>
  /\ curr_buffer_' = <<>>
  /\ newBuffer1' = FALSE
  /\ newBuffer2' = (newBuffer2 /\ next_buffer_)
  /\ next_buffer_' = (next_buffer_ \/ newBuffer2)
  /\ UNCHANGED <<file, ownerVars, callVars, discarded, fault>>

(* fputs of every buffer taken, after which they are empty. *)
ThreadWrites ==
  /\ tpc = "write"
  /\ tpc' = "recycle"
  /\ file' = file \o FlattenSeq(buffer_write)
  /\ buffer_write' = [i \in 1..Len(buffer_write) |-> <<>>]
  /\ fault' = IF fp_ = "open" THEN fault ELSE "file"
  /\ UNCHANGED <<poolVars, newBuffer1, newBuffer2, ownerVars, callVars, discarded>>

(* Fault: one written buffer is kept back, not two. *)
Recyclable_One == IF Len(buffer_write) > 1 THEN 1 ELSE Len(buffer_write)

(* buffer_write.resize(2) when there are more. *)
Recyclable == IF Len(buffer_write) > 2 THEN 2 ELSE Len(buffer_write)

(* The spares are made of written buffers, of which there must be enough; the
   others are freed, and the file is flushed. *)
ThreadRecycles ==
  /\ tpc = "recycle"
  /\ tpc' = "test"
  /\ newBuffer1' = (newBuffer1 \/ Recyclable >= 1)
  /\ newBuffer2' = (newBuffer2 \/ Recyclable >= IF newBuffer1 THEN 1 ELSE 2)
  /\ buffer_write' = <<>>
  /\ fault' = IF ~(newBuffer1' /\ newBuffer2') THEN "spares"
              ELSE IF fp_ = "open" THEN fault ELSE "file"
  /\ UNCHANGED <<poolVars, file, ownerVars, callVars, discarded>>

-------------------------------------------------------------------------------
ThreadStep == \/ ThreadStarts \/ ThreadAsserts \/ ThreadTests \/ ThreadWaits
              \/ ThreadTakes \/ ThreadWrites \/ ThreadRecycles
OwnerStep == SwitchLog \/ InitRuns \/ StopSets \/ StopNotifies \/ StopJoins \/ Destroy

Next ==
  /\ fault = "none"
  /\ ThreadStep \/ SpuriousWake \/ OwnerStep \/ AppendLine \/ Loading

(* The log thread is scheduled, and nothing is assumed of spurious wake-ups. *)
Spec == Init /\ [][Next]_vars /\ WF_vars(fault = "none" /\ ThreadStep)

-------------------------------------------------------------------------------
(* Properties.                                                                 *)

(* No line is lost, doubled or overtaken on its way: what is in the file, what
   the log thread has taken, what waits and what is in the current buffer are
   the lines logged, in order, except for those init discarded. *)
LinesConserved ==
  file \o FlattenSeq(buffer_write) \o FlattenSeq(buffer_) \o curr_buffer_ = kept

(* The assertions on buffer_write hold (log.cc:95, 107, 114): with the spare
   used up there are two buffers to make spares of, as long as init has not
   discarded full ones. *)
EnoughBuffers == fault = "spares" => discarded

(* The assertion at log.cc:74, that running_ is still set when the log thread has
   seen it set, can fail in one way only: a stop(), called or from ~Log, has come
   in between and is on its way to join the thread. *)
StartsRunning == fault = "running" => opc \in {"notify", "join"}

(* A full buffer is written while the logger runs and has its thread: refresh_
   wakes it.  (A thread that was stopped does not come back with init.) *)
FullBuffersWritten ==
  (buffer_ # <<>> /\ running_ /\ tpc \notin {"exited", "joined"})
    ~> (buffer_ = <<>> \/ ~running_ \/ fault # "none")
===============================================================================
