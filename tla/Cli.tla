-------------------------------- MODULE Cli ---------------------------------
(***************************************************************************)
(* The command pltz: rust/src/main.rs, main and process_file, and what     *)
(* rust/src/visualize.rs does to the disk.                                 *)
(*                                                                         *)
(* A run takes its files in order.  Each one is read whole, converted in   *)
(* memory, written beside the input and then the input is removed.  Every  *)
(* system call is a step, so that two runs interleave at them and a crash  *)
(* falls between any two; fs::write is two steps, the truncation of the    *)
(* file and the write of its bytes.                                        *)
(*                                                                         *)
(* What a file holds is abstracted to the version of the user's data it    *)
(* stands for.  A file cut short is Cut: as an archive decode refuses it   *)
(* or panics (every read of codec.rs is bounded or indexed), as data it is *)
(* one more file of bytes.                                                 *)
(***************************************************************************)
EXTENDS Integers, Sequences, FiniteSets

CONSTANTS
  Processes,    \* names of the processes that run pltz
  Names,        \* names of the user's files, without ".pltz"
  Versions,     \* what the user may put in a file
  Options,      \* the command lines: see OptionSet
  ArgLists,     \* the lists of paths given on it
  Disks,        \* what the user and earlier runs have left on the disk
  MaxRuns,      \* bound on the runs launched
  SvgOf,        \* the name of the picture of a path that --visualize is given
  Cut,          \* what is left of a file whose write was cut short
  Picture,      \* what --visualize draws
  Absent        \* no file

\* sink: where the output goes; Show is --analyze, Svg is --visualize; size: what
\* parse_size makes of -C.
OptionSet ==
  [decompress : BOOLEAN, sink : {"File", "Stdout", "Test", "Show", "Svg"}, keep : BOOLEAN,
   force : BOOLEAN, size : {"Valid", "Unparsable", "Zero"}]

\* <<n, "pltz">> is the path n.pltz
Paths == Names \X {"plain", "pltz"}

Contents == [form : {"Plain", "Archive"}, of : Versions \union {Cut, Picture}]

\* The files that hold a version of the user's data.
Whole(form) == [form : {form}, of : Versions]

ASSUME CliAssumption ==
  /\ Options \subseteq OptionSet
  /\ ArgLists \subseteq Seq(Paths) /\ <<>> \notin ArgLists
  /\ {Cut, Picture} \intersect Versions = {} /\ Cut # Picture
  /\ SvgOf \in [DOMAIN SvgOf -> Names] /\ DOMAIN SvgOf \subseteq Paths
  /\ \A path \in DOMAIN SvgOf : SvgOf[path] # path[1]
  /\ MaxRuns \in Nat
  /\ Absent \notin Contents
  /\ \A d \in Disks : d \in [Paths -> Whole("Plain") \union Whole("Archive") \union {Absent}]
  /\ \A d \in Disks, n \in Names : /\ d[<<n, "plain">>] \in Whole("Plain") \union {Absent}
                                  /\ d[<<n, "pltz">>] \in Whole("Archive") \union {Absent}

Stages == {"Idle", "Reading", "Made", "Checked", "Open", "Written", "Exited", "Crashed"}

VARIABLES
  disk,     \* what each path holds
  proc,     \* the processes
  kept,     \* the versions of each file the user counts on
  runs,     \* runs launched so far
  history,  \* which of the events of Events have happened
  pictured  \* names whose file a picture has replaced, without -f

vars == <<disk, proc, kept, runs, history, pictured>>

Idle ==
  [stage |-> "Idle", opts |-> Absent, args |-> <<>>, at |-> 0,
   exit |-> 0, done |-> 0, data |-> Absent, linked |-> FALSE]

Events == {"Overlap", "Crash", "Failure", "Force", "Decompress", "Visualize"}

-----------------------------------------------------------------------------
(* process_file *)

Path(p) == proc[p].args[proc[p].at]

Live(p) == proc[p].stage \notin {"Idle", "Exited", "Crashed"}

Decompressing(o, path) == o.decompress \/ o.sink = "Test" \/ path[2] = "pltz"

\* path + ".pltz", or the path without its suffix
OutputPath(path) == <<path[1], IF path[2] = "pltz" THEN "plain" ELSE "pltz">>

Error == [form |-> "Error", of |-> Absent]
Panic == [form |-> "Panic", of |-> Absent]

\* Where fs::write goes
Out(p) ==
  IF proc[p].opts.sink = "Svg" THEN <<SvgOf[Path(p)], "plain">> ELSE OutputPath(Path(p))

\* What decode or encode answers: contents, an error or a panic.
Converted(o, path, c) ==
  IF o.sink \in {"Show", "Svg"} THEN {[form |-> "Plain", of |-> Picture]}
  ELSE IF Decompressing(o, path)
  THEN IF c.form = "Plain" THEN {Error}                        \* bad magic
       ELSE (IF c.of = Cut THEN {Error, Panic} ELSE {})        \* or of a file cut short
            \union (IF o.sink = "File" /\ path[2] # "pltz" THEN {Error}  \* no name for it
                    ELSE {[form |-> "Plain", of |-> c.of]})
  ELSE IF o.size = "Unparsable" THEN {Error}
  ELSE IF o.size = "Zero" THEN {Panic}                        \* no chunk of 0 bytes
  ELSE {[form |-> "Archive", of |-> c.of]}

\* Mutant of AfterFile: the exit code is that of the last file.
AfterFileLast(r, ok) ==
  [r EXCEPT !.stage = IF r.at = Len(r.args) THEN "Exited" ELSE "Reading",
            !.at = IF r.at = Len(r.args) THEN @ ELSE @ + 1,
            !.exit = IF ok THEN 0 ELSE 1,
            !.done = IF ok THEN @ + 1 ELSE @,
            !.data = Absent, !.linked = FALSE]

\* Mutant of AfterFile: a file that failed is tried again.
AfterFileAgain(r, ok) ==
  [r EXCEPT !.stage = IF ok /\ r.at = Len(r.args) THEN "Exited" ELSE "Reading",
            !.at = IF ok /\ r.at < Len(r.args) THEN @ + 1 ELSE @,
            !.exit = IF ok THEN @ ELSE 1,
            !.done = IF ok THEN @ + 1 ELSE @,
            !.data = Absent, !.linked = FALSE]

\* Mutant of AfterFile: the loop ends one file too late.
AfterFileLate(r, ok) ==
  [r EXCEPT !.stage = IF r.at > Len(r.args) THEN "Exited" ELSE "Reading",
            !.at = IF r.at > Len(r.args) THEN @ ELSE @ + 1,
            !.exit = IF ok THEN @ ELSE 1,
            !.done = IF ok THEN @ + 1 ELSE @,
            !.data = Absent, !.linked = FALSE]

\* The loop of main: the outcome of a file is noted and the next one begun.
AfterFile(r, ok) ==
  [r EXCEPT !.stage = IF r.at = Len(r.args) THEN "Exited" ELSE "Reading",
            !.at = IF r.at = Len(r.args) THEN @ ELSE @ + 1,
            !.exit = IF ok THEN @ ELSE 1,
            !.done = IF ok THEN @ + 1 ELSE @,
            !.data = Absent, !.linked = FALSE]

\* process_file returns.
Finish(p, ok) == proc' = [proc EXCEPT ![p] = AfterFile(@, ok)]

-----------------------------------------------------------------------------
(* The steps of a run *)

Launch(p) ==
  /\ ~Live(p) /\ runs < MaxRuns
  /\ \E o \in Options, args \in ArgLists :
       /\ o.sink = "Svg" => \A i \in DOMAIN args : args[i] \in DOMAIN SvgOf
       /\ proc' = [proc EXCEPT ![p] =
            [stage |-> "Reading", opts |-> o, args |-> args, at |-> 1,
             exit |-> 0, done |-> 0, data |-> Absent, linked |-> FALSE]]
       /\ history' = history
            \union (IF \E q \in Processes : Live(q) THEN {"Overlap"} ELSE {})
            \union (IF o.force THEN {"Force"} ELSE {})
            \union (IF o.sink = "Svg" THEN {"Visualize"} ELSE {})
            \union (IF \E i \in DOMAIN args : Decompressing(o, args[i])
                    THEN {"Decompress"} ELSE {})
  /\ runs' = runs + 1
  /\ UNCHANGED <<disk, kept, pictured>>

\* fs::read and the conversion, which touches nothing but memory
ReadInput(p) ==
  /\ proc[p].stage = "Reading"
  /\ IF disk[Path(p)] = Absent
     THEN Finish(p, FALSE)
     ELSE \E out \in Converted(proc[p].opts, Path(p), disk[Path(p)]) :
            IF out = Error THEN Finish(p, FALSE)
            ELSE IF out = Panic
            THEN proc' = [proc EXCEPT ![p].stage = "Exited", ![p].exit = 101]
            ELSE proc' = [proc EXCEPT ![p].stage = "Made", ![p].data = out]
  /\ UNCHANGED <<disk, kept, runs, history, pictured>>

\* -t and --analyze are done; -c writes to standard output, which may be closed
WriteStdout(p) ==
  /\ proc[p].stage = "Made" /\ proc[p].opts.sink \notin {"File", "Svg"}
  /\ \E ok \in BOOLEAN : (proc[p].opts.sink # "Stdout" => ok) /\ Finish(p, ok)
  /\ UNCHANGED <<disk, kept, runs, history, pictured>>

\* Mutant of CheckOutput: what is there is not looked at.
CheckNothing(p) ==
  /\ proc[p].stage = "Made" /\ proc[p].opts.sink \in {"File", "Svg"}
  /\ proc' = [proc EXCEPT ![p].stage = "Checked"]
  /\ UNCHANGED <<disk, kept, runs, history, pictured>>

\* An output that exists is an error without -f; a picture is written all the same.
CheckOutput(p) ==
  /\ proc[p].stage = "Made" /\ proc[p].opts.sink \in {"File", "Svg"}
  /\ IF proc[p].opts.sink = "File" /\ ~proc[p].opts.force /\ disk[Out(p)] # Absent
     THEN Finish(p, FALSE)
     ELSE proc' = [proc EXCEPT ![p].stage = "Checked"]
  /\ UNCHANGED <<disk, kept, runs, history, pictured>>

\* fs::write begins: the file is created, or cut to nothing.  Whoever gave -f
\* gives up what it overwrites.
OpenOutput(p) ==
  LET out  == Out(p)
      data == proc[p].data IN
  /\ proc[p].stage = "Checked"
  /\ disk' = [disk EXCEPT ![out] = [form |-> data.form, of |-> Cut]]
  /\ kept' = IF proc[p].opts.force /\ disk[out] # Absent /\ disk[out].of # data.of
             THEN [kept EXCEPT ![out[1]] = @ \ {disk[out].of}] ELSE kept
  /\ pictured' = IF proc[p].opts.sink = "Svg" /\ disk[out] # Absent
                 THEN pictured \union {out[1]} ELSE pictured
  /\ proc' = [proc EXCEPT ![p].stage = "Open", ![p].linked = TRUE]
  /\ UNCHANGED <<runs, history>>

\* fs::write ends: the bytes are in the file the process opened, if that still
\* has its name.
WriteOutput(p) ==
  /\ proc[p].stage = "Open"
  /\ disk' = IF proc[p].linked THEN [disk EXCEPT ![Out(p)] = proc[p].data] ELSE disk
  /\ IF proc[p].opts.keep \/ proc[p].opts.sink = "Svg" THEN Finish(p, TRUE)
     ELSE proc' = [proc EXCEPT ![p].stage = "Written"]
  /\ UNCHANGED <<kept, runs, history, pictured>>

\* fs::write fails, before the file is opened or with a part of it written.
WriteFails(p) ==
  /\ proc[p].stage \in {"Checked", "Open"}
  /\ Finish(p, FALSE)
  /\ history' = history \union {"Failure"}
  /\ UNCHANGED <<disk, kept, runs, pictured>>

\* Mutant of RemoveInput: a run that finds its input gone takes its output back.
RemoveInputCleanup(p) ==
  /\ proc[p].stage = "Written"
  /\ disk' = IF disk[Path(p)] = Absent
             THEN [disk EXCEPT ![OutputPath(Path(p))] = Absent]
             ELSE [disk EXCEPT ![Path(p)] = Absent]
  /\ proc' = [proc EXCEPT ![p] = AfterFile(@, disk[Path(p)] # Absent)]
  /\ UNCHANGED <<kept, runs, history, pictured>>

\* fs::remove_file of the input; a process that still writes it writes to no name
RemoveInput(p) ==
  /\ proc[p].stage = "Written"
  /\ disk' = [disk EXCEPT ![Path(p)] = Absent]
  /\ proc' = [q \in Processes |->
       IF q = p THEN AfterFile(proc[p], disk[Path(p)] # Absent)
       ELSE IF proc[q].stage = "Open" /\ Out(q) = Path(p)
            THEN [proc[q] EXCEPT !.linked = FALSE]
            ELSE proc[q]]
  /\ UNCHANGED <<kept, runs, history, pictured>>

\* The process is killed.
Crash(p) ==
  /\ Live(p)
  /\ proc' = [proc EXCEPT ![p] = [Idle EXCEPT !.stage = "Crashed"]]
  /\ history' = history \union {"Crash"}
  /\ UNCHANGED <<disk, kept, runs, pictured>>

\* Between runs the user writes a version of a file he has not had before, and
\* gives up the one it overwrites.
UserWrites(n) ==
  /\ \A p \in Processes : ~Live(p)
  /\ runs < MaxRuns
  /\ \E v \in Versions :
       LET old == disk[<<n, "plain">>] IN
       /\ v \notin kept[n] /\ {disk[<<n, "plain">>], disk[<<n, "pltz">>]}
                              \intersect [form : {"Plain", "Archive"}, of : {v}] = {}
       /\ disk' = [disk EXCEPT ![<<n, "plain">>] = [form |-> "Plain", of |-> v]]
       /\ kept' = [kept EXCEPT ![n] =
                    (IF old = Absent THEN @ ELSE @ \ {old.of}) \union {v}]
  /\ UNCHANGED <<proc, runs, history, pictured>>

-----------------------------------------------------------------------------
\* Files the user has, and archives that earlier runs have left him.
Init ==
  /\ disk \in Disks
  /\ kept = [n \in Names |-> {disk[x].of : x \in {y \in {n} \X {"plain", "pltz"} : disk[y] # Absent}}]
  /\ proc = [p \in Processes |-> Idle]
  /\ runs = 0 /\ history = {} /\ pictured = {}

\* A step of the code of a run
Step(p) ==
  \/ ReadInput(p) \/ WriteStdout(p) \/ CheckOutput(p) \/ OpenOutput(p)
  \/ WriteOutput(p) \/ WriteFails(p) \/ RemoveInput(p)

Next ==
  \/ \E p \in Processes : Launch(p) \/ Step(p) \/ Crash(p)
  \/ \E n \in Names : UserWrites(n)

Spec == Init /\ [][Next]_vars

\* The system goes on running a process that is not killed.
FairSpec == Spec /\ \A p \in Processes : WF_vars(Step(p))

-----------------------------------------------------------------------------
(* Properties *)

\* Every variable has its type.
TypeOK ==
  /\ disk \in [Paths -> Contents \union {Absent}]
  /\ kept \in [Names -> SUBSET Versions]
  /\ runs \in 0 .. MaxRuns /\ history \subseteq Events /\ pictured \subseteq Names
  /\ \A p \in Processes :
       /\ proc[p].stage \in Stages
       /\ Live(p) => /\ proc[p].opts \in Options /\ proc[p].args \in ArgLists
                     /\ proc[p].at \in DOMAIN proc[p].args
       /\ proc[p].exit \in {0, 1, 101}
       /\ proc[p].done \in 0 .. Len(proc[p].args)
       /\ proc[p].data \in Contents \union {Absent}
       /\ proc[p].linked \in BOOLEAN

OnDisk(n, v) ==
  \/ disk[<<n, "plain">>] = [form |-> "Plain", of |-> v]
  \/ disk[<<n, "pltz">>] = [form |-> "Archive", of |-> v]

\* While runs follow one another nothing the user counts on is lost, whatever
\* the options, the failures and the moment a run is killed: the input is there
\* until the whole output is.  The one exception is a file with the name of a picture.
NeverLost ==
  "Overlap" \notin history =>
    \A n \in Names \ pictured : \A v \in kept[n] : OnDisk(n, v)

\* Runs that overlap may each find no output and both write it.  As long as they
\* only compress, without -f, and none fails or is killed, what one cut short is
\* still in its memory and in no danger.
CompressorsNeverLose ==
  history \subseteq {"Overlap"} =>
    \A n \in Names : \A v \in kept[n] :
      OnDisk(n, v) \/ \E p \in Processes : /\ proc[p].stage = "Open" /\ proc[p].linked
                                           /\ Path(p) = <<n, "plain">>
                                           /\ proc[p].data.of = v

\* Exit code 0 says that every file of the command line was processed.
ExitZeroComplete ==
  \A p \in Processes :
    proc[p].stage = "Exited" /\ proc[p].exit = 0 => proc[p].done = Len(proc[p].args)

\* A run ends, whatever its files are, unless it is killed first.
EveryRunEnds == \A p \in Processes : Live(p) ~> ~Live(p)
=============================================================================
