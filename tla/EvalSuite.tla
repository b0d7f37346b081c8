----------------------------- MODULE EvalSuite -----------------------------
(***************************************************************************)
(* One evaluation suite: the harness drives every run of every scenario,   *)
(* folds each finished run into the package it holds, writes the run to an *)
(* append-only sidecar file, and at the end replaces the package file and  *)
(* removes the sidecar.  The process may be killed anywhere and started    *)
(* again, fresh, with --resume, or with --retry-infra-failed.  A viewer    *)
(* follows the suite over a stream.                                        *)
(*                                                                         *)
(* The writer is a BufWriter: a short line stays in memory until the flush *)
(* that ends a run; a line longer than the buffer is written at once, but  *)
(* its newline is a write of its own and waits for that flush.             *)
(***************************************************************************)
EXTENDS Naturals, FiniteSets, SequencesExt

CONSTANTS
  Runs,          \* runs are 1 .. Runs, in (scenario, run) order
  Concurrency,   \* permits of run_all
  Capacity,      \* of the broadcast channel
  MaxStarts, MaxDrives, MaxEvents   \* bounds

VARIABLES
  sidecar,   \* NoFile, or the .jsonl file: its lines, and whether the last lacks its newline
  out,       \* NoFile, or the package file: run |-> its records
  proc,      \* the harness process
  viewer,    \* the console that follows it
  count,     \* [starts, drives] counters of the bounds
  kept,      \* ghost: run |-> the first genuine record it completed since a fresh start
  spoiled    \* ghost: killed since then within a line, or before the package was written again

vars == <<sidecar, out, proc, viewer, count, kept, spoiled>>

Run == 1 .. Runs
NoFile == [lines |-> <<>>, open |-> FALSE, there |-> FALSE]
EmptyFile == [NoFile EXCEPT !.there = TRUE]
NoPackage == [r \in {} |-> <<>>]
Record == [n : 1 .. MaxDrives, infra : BOOLEAN]
Manifest == [kind |-> "manifest"]
Started == [kind |-> "started"]
Completed(r, rec) == [kind |-> "completed", run |-> r, rec |-> rec]
Garbage == [kind |-> "garbage"]
Newline == [kind |-> "newline"]   \* the newline of a long line, still in the buffer

Stopped == [pc |-> "off", package |-> [r \in Run |-> <<>>], pending |-> {}, driving |-> {},
            events |-> [r \in Run |-> 0], buffer |-> <<>>, seeds |-> <<>>, writing |-> 0]
NoViewer == [on |-> FALSE, view |-> [r \in Run |-> <<"idle">>], queue |-> <<>>, lagged |-> FALSE]

Init ==
  /\ sidecar = NoFile
  /\ out = NoPackage
  /\ proc = Stopped
  /\ viewer = NoViewer
  /\ count = [starts |-> 0, drives |-> 0]
  /\ kept = [r \in Run |-> <<>>]
  /\ spoiled = FALSE

-----------------------------------------------------------------------------
(* The sidecar: writing it and reading it back. *)

\* Bytes appended to the file: on a line left without its newline, the next line continues it.
Written(file, ls) ==
  IF ls = <<>> THEN file
  ELSE IF Head(ls) = Newline THEN [file EXCEPT !.lines = @ \o Tail(ls), !.open = FALSE]
  ELSE IF ~file.open THEN [file EXCEPT !.lines = @ \o ls]
  ELSE [file EXCEPT !.lines = Front(@) \o <<Garbage>> \o Tail(ls), !.open = FALSE]

Readable(file) ==
  /\ \E i \in DOMAIN file.lines : file.lines[i].kind = "manifest"
  /\ \A i \in DOMAIN file.lines : file.lines[i].kind # "garbage"

\* read_sidecar: the records of each run, the last one written winning.
LastWins(file) ==
  [r \in Run |->
     LET at == {i \in DOMAIN file.lines :
                  /\ file.lines[i].kind = "completed"
                  /\ file.lines[i].run = r}
     IN  IF at = {} THEN <<>> ELSE <<file.lines[Max(at)].rec>>]

ReadSidecar(file) == LastWins(file)

\* Bug: the runs that merely missed their verdicts are retried too.
TakeEveryRun(completed) == [r \in Run |-> <<>>]

\* take_infra_failed: only the poisoned records are dropped.
TakeInfraFailed(completed) ==
  [r \in Run |-> SelectSeq(completed[r], LAMBDA rec : ~rec.infra)]

DoneRuns(package) == {r \in Run : package[r] # <<>>}

-----------------------------------------------------------------------------
(* The live stream. *)

Current == [r \in Run |->
              IF r \in proc.driving THEN <<"driving", proc.events[r]>>
              ELSE IF proc.package[r] = <<>> THEN <<"idle">>
              ELSE <<"done", Last(proc.package[r]).n>>]

\* broadcast_locked: a receiver that falls more than Capacity behind loses the oldest frame.
Broadcast(delta) ==
  viewer' = IF ~viewer.on THEN viewer
            ELSE IF Len(viewer.queue) < Capacity
            THEN [viewer EXCEPT !.queue = Append(@, delta)]
            ELSE [viewer EXCEPT !.queue = Append(Tail(@), delta), !.lagged = TRUE]

\* subscribe: the summary, the runs in flight and the receiver, under one lock.
Subscribe ==
  /\ proc.pc \in {"drive", "unlink"} /\ proc.writing = 0
  /\ ~viewer.on
  /\ viewer' = [NoViewer EXCEPT !.on = TRUE, !.view = Current]
  /\ UNCHANGED <<sidecar, out, proc, count, kept, spoiled>>

\* The stream yields the next delta; a lagged receiver ends it.
Receive ==
  /\ viewer.on /\ viewer.queue # <<>>
  /\ viewer' =
       IF viewer.lagged THEN NoViewer
       ELSE LET d == Head(viewer.queue)
            IN  [viewer EXCEPT !.queue = Tail(@), !.view[d.run] = d.to]
  /\ UNCHANGED <<sidecar, out, proc, count, kept, spoiled>>

-----------------------------------------------------------------------------
(* Starting a suite. *)

ResumeSource(resume, retry) ==
  IF resume /\ sidecar.there THEN "sidecar"
  ELSE IF resume /\ retry /\ out # NoPackage THEN "package"
  ELSE "fresh"

Begin(package) ==
  [Stopped EXCEPT !.pc = "drive", !.package = package, !.pending = Run \ DoneRuns(package)]

\* EvalSink::new: the file truncated, the manifest written, in the buffer or past it.
NewSink(p) ==
  \E long \in BOOLEAN :
    /\ sidecar' = IF long THEN [EmptyFile EXCEPT !.lines = <<Manifest>>, !.open = TRUE]
                  ELSE EmptyFile
    /\ proc' = [p EXCEPT !.buffer = <<IF long THEN Newline ELSE Manifest>>]

Start(resume, retry) ==
  /\ proc.pc = "off" /\ count.starts < MaxStarts
  /\ retry => resume
  /\ count' = [count EXCEPT !.starts = @ + 1]
  /\ \/ /\ ResumeSource(resume, retry) = "sidecar"
        /\ Readable(sidecar)
        /\ LET read == ReadSidecar(sidecar)
           IN  proc' = Begin(IF retry THEN TakeInfraFailed(read) ELSE read)
        /\ UNCHANGED <<sidecar, kept, spoiled>>
     \/ /\ ResumeSource(resume, retry) = "package"
        /\ LET genuine == TakeInfraFailed(out)
           IN  NewSink([Stopped EXCEPT
                          !.pc = "seed",
                          !.pending = Run \ DoneRuns(genuine),
                          !.seeds = SetToSortSeq(DoneRuns(genuine), LAMBDA a, b : a < b)])
        /\ UNCHANGED <<kept, spoiled>>
     \/ /\ ResumeSource(resume, retry) = "fresh"
        /\ NewSink(Begin([r \in Run |-> <<>>]))
        /\ kept' = [r \in Run |-> <<>>]
        /\ spoiled' = FALSE
  /\ UNCHANGED <<out, viewer>>

-----------------------------------------------------------------------------
(* run_finished, under the sink's lock: the record is pushed and its line written, then the *)
(* summary is broadcast and the writer flushed.                                            *)

Push(r, rec) ==
  /\ sidecar' = [Written(sidecar, proc.buffer \o <<Completed(r, rec)>>) EXCEPT !.open = TRUE]
  /\ proc' = [proc EXCEPT !.package[r] = Append(@, rec), !.driving = @ \ {r},
                          !.buffer = <<Newline>>, !.writing = r]

FlushRecord ==
  /\ proc.writing # 0
  /\ LET r == proc.writing
         rec == Last(proc.package[r])
     IN  /\ sidecar' = Written(sidecar, proc.buffer)
         /\ proc' = [proc EXCEPT !.writing = 0, !.buffer = <<>>,
                                 !.pc = IF @ = "seed" /\ proc.seeds = <<>> THEN "drive" ELSE @]
         /\ Broadcast([run |-> r, to |-> <<"done", rec.n>>])
         /\ kept' = IF rec.infra \/ kept[r] # <<>> THEN kept ELSE [kept EXCEPT ![r] = <<rec>>]
  /\ UNCHANGED <<out, count, spoiled>>

\* A heal from the package writes the genuine runs into the new sidecar, one by one.
Seed ==
  /\ proc.pc = "seed" /\ proc.writing = 0 /\ proc.seeds # <<>>
  /\ LET r == Head(proc.seeds)
     IN  /\ sidecar' = [Written(sidecar, proc.buffer \o <<Completed(r, out[r][1])>>)
                          EXCEPT !.open = TRUE]
         /\ proc' = [proc EXCEPT !.package[r] = <<out[r][1]>>, !.seeds = Tail(@),
                                 !.buffer = <<Newline>>, !.writing = r]
  /\ UNCHANGED <<out, viewer, count, kept, spoiled>>

SeedNothing ==
  /\ proc.pc = "seed" /\ proc.writing = 0 /\ proc.seeds = <<>>
  /\ proc' = [proc EXCEPT !.pc = "drive"]
  /\ UNCHANGED <<sidecar, out, viewer, count, kept, spoiled>>

-----------------------------------------------------------------------------
(* run_all. *)

\* A permit is free: the next run in order starts.
Drive ==
  /\ proc.pc = "drive" /\ proc.writing = 0
  /\ proc.pending # {} /\ Cardinality(proc.driving) < Concurrency
  /\ LET r == Min(proc.pending)
     IN  /\ proc' = [proc EXCEPT !.pending = @ \ {r}, !.driving = @ \cup {r},
                                 !.events[r] = 0, !.buffer = Append(@, Started)]
         /\ Broadcast([run |-> r, to |-> <<"driving", 0>>])
  /\ UNCHANGED <<sidecar, out, count, kept, spoiled>>

\* run_event: buffered for late viewers and broadcast, never written.
RunEvent(r) ==
  /\ r \in proc.driving /\ proc.writing = 0 /\ proc.events[r] < MaxEvents
  /\ proc' = [proc EXCEPT !.events[r] = @ + 1]
  /\ Broadcast([run |-> r, to |-> <<"driving", proc.events[r] + 1>>])
  /\ UNCHANGED <<sidecar, out, count, kept, spoiled>>

\* The run ends, its outcome genuine or an infrastructure failure.
RunFinished(r, infra) ==
  /\ r \in proc.driving /\ proc.writing = 0 /\ count.drives < MaxDrives
  /\ count' = [count EXCEPT !.drives = @ + 1]
  /\ Push(r, [n |-> count.drives + 1, infra |-> infra])
  /\ UNCHANGED <<out, viewer, kept, spoiled>>

-----------------------------------------------------------------------------
(* The end of a suite: finish, write_package (a rename), the history line, the unlink. *)

Fold ==
  /\ proc.pc = "drive" /\ proc.writing = 0
  /\ proc.pending = {} /\ proc.driving = {}
  /\ sidecar' = [Written(sidecar, proc.buffer \o <<[kind |-> "finished"]>>) EXCEPT !.open = FALSE]
  /\ out' = proc.package
  /\ proc' = [proc EXCEPT !.pc = "unlink", !.buffer = <<>>]
  /\ UNCHANGED <<viewer, count, kept, spoiled>>

Unlink ==
  /\ proc.pc = "unlink"
  /\ sidecar' = NoFile
  /\ proc' = Stopped
  /\ viewer' = NoViewer
  /\ UNCHANGED <<out, count, kept, spoiled>>

-----------------------------------------------------------------------------
(* The process is killed: what it buffered is gone, and a record being written may be torn; a *)
(* line left without its newline runs into the one a resume writes next.                     *)

Kill ==
  /\ proc.pc # "off"
  /\ \/ UNCHANGED sidecar
     \/ /\ proc.writing # 0
        /\ sidecar' = [sidecar EXCEPT !.lines = Append(Front(@), Garbage)]
  /\ spoiled' = (spoiled \/ sidecar.open \/ (proc.pc = "seed" /\ proc.seeds # <<>>))
  /\ proc' = Stopped
  /\ viewer' = NoViewer
  /\ UNCHANGED <<out, count, kept>>

Next ==
  \/ \E resume, retry \in BOOLEAN : Start(resume, retry)
  \/ Seed \/ SeedNothing \/ FlushRecord
  \/ Drive
  \/ \E r \in Run : RunEvent(r) \/ \E infra \in BOOLEAN : RunFinished(r, infra)
  \/ Fold \/ Unlink \/ Kill
  \/ Subscribe \/ Receive

Spec == Init /\ [][Next]_vars

-----------------------------------------------------------------------------

\* What the next --resume or --retry-infra-failed finds of run r.
Found(r) ==
  IF sidecar.there THEN IF Readable(sidecar) THEN ReadSidecar(sidecar)[r] ELSE <<>>
  ELSE IF out # NoPackage THEN out[r] ELSE <<>>

\* A genuine result, once flushed, is never lost and never driven again, however often the suite
\* is killed, resumed and healed, until the operator starts afresh: what a resume finds of the run
\* is exactly that record, and so does the package the suite folds to.  "The sidecar always holds
\* whole runs" (run_finished): it does not when the kill falls within a line, and a heal holds only
\* part of the package until it has written the last of its runs.
ResultsSurvive ==
  \A r \in Run : kept[r] # <<>> =>
    /\ proc.writing = 0 /\ proc.pc # "seed" => Found(r) = kept[r]
    /\ proc.pc = "drive" => proc.package[r] = kept[r]

\* ResultsSurvive for every other kill: between lines, while runs are driven and recorded, after
\* a heal has written its runs, and around the fold and the unlink.
RunsAreKept == ~spoiled => ResultsSurvive

\* A viewer that has drained its stream sees each run as the suite holds it, whenever it joined.
ViewIsExact ==
  viewer.on /\ viewer.queue = <<>> /\ proc.writing = 0 => viewer.view = Current
=============================================================================
