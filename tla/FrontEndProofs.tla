--------------------------- MODULE FrontEndProofs ---------------------------
(***************************************************************************)
(* Proofs about the two ways into the codec.                               *)
(*                                                                         *)
(* Cli, for any number of processes, files, versions, command lines and    *)
(* runs: what the user counts on is on the disk while runs follow one      *)
(* another; compressors that overlap lose nothing; exit code 0 is kept for *)
(* runs that processed every file.                                         *)
(*                                                                         *)
(* Ffi, for data of every length, buffers of every size, every chunk size  *)
(* and every range of the length fields: how often a caller has to call    *)
(* pltz_decompress, and that the sizes it is told are sizes.               *)
(***************************************************************************)
EXTENDS Cli, Ffi, WellFoundedInduction, TLAPS

-----------------------------------------------------------------------------
(* The inductive invariant *)

(* A run that was launched and has neither ended nor been killed.  Live(p), PathOf and *)
(* OutOf are those of Cli for the record of a process.                                 *)
Active(r) == r.stage \notin {"Idle", "Exited", "Crashed"}

PathOf(r) == r.args[r.at]

OutOf(r) == IF r.opts.sink = "Svg" THEN <<SvgOf[PathOf(r)], "plain">> ELSE OutputPath(PathOf(r))

(* What was read and converted is in memory. *)
InMemory == {"Made", "Checked", "Open", "Written"}

(* What a file of that name holds, if it is there. *)
FormAt(path) == IF path[2] = "plain" THEN "Plain" ELSE "Archive"

RunType ==
  [stage : Stages, opts : Options \union {Absent}, args : ArgLists \union {<<>>}, at : Nat,
   exit : {0, 1, 101}, done : Nat, data : Contents \union {Absent}, linked : BOOLEAN]

(* What a process knows by itself: how far it is, how many of its files went well, and *)
(* what is in its memory.                                                              *)
RunOK(r) ==
  /\ r.done <= Len(r.args)
  /\ r.stage = "Exited" /\ r.exit = 0 => r.done = Len(r.args)
  /\ Active(r) =>
       /\ r.opts \in Options /\ r.args \in ArgLists /\ r.at \in DOMAIN r.args
       /\ r.done <= r.at - 1 /\ r.exit \in {0, 1}
       /\ r.exit = 0 => r.done = r.at - 1
       /\ r.opts.sink = "Svg" => \A i \in DOMAIN r.args : r.args[i] \in DOMAIN SvgOf
  /\ r.stage \in InMemory => r.data \in Contents
  /\ r.stage \in InMemory /\ r.opts.sink \in {"File", "Svg"} => r.data.form = FormAt(OutOf(r))
  /\ r.stage \in {"Checked", "Open"} => r.opts.sink \in {"File", "Svg"}
  /\ r.stage = "Written" => r.opts.sink = "File"

(* The type invariant, with the records of the processes and the forms of the files. *)
TypeInv ==
  /\ disk \in [Paths -> Contents \union {Absent}]
  /\ \A x \in Paths : disk[x] # Absent => disk[x].form = FormAt(x)
  /\ kept \in [Names -> SUBSET Versions]
  /\ runs \in 0 .. MaxRuns /\ history \subseteq Events /\ pictured \subseteq Names
  /\ proc \in [Processes -> RunType]
  /\ \A p \in Processes : RunOK(proc[p])

(* One process at a time, as long as runs follow one another. *)
Solo == \A p, q \in Processes : Active(proc[p]) /\ Active(proc[q]) => p = q

(* What process p relies on while it is alone: the input is still what it read, the *)
(* output is what it left there.                                                    *)
Relies(p) ==
  /\ proc[p].stage \in InMemory /\ proc[p].opts.sink = "File" =>
       /\ disk[PathOf(proc[p])] # Absent
       /\ disk[PathOf(proc[p])].of = proc[p].data.of
  /\ proc[p].stage = "Checked" /\ proc[p].opts.sink = "File" /\ ~proc[p].opts.force =>
       disk[OutOf(proc[p])] = Absent
  /\ proc[p].stage = "Open" =>
       proc[p].linked /\ disk[OutOf(proc[p])] # Absent /\ disk[OutOf(proc[p])].of = Cut
  /\ proc[p].stage = "Written" => disk[OutOf(proc[p])] = proc[p].data

(* The invariant of runs that follow one another. *)
OneByOne ==
  "Overlap" \notin history =>
    Solo /\ NeverLost /\ \A p \in Processes : Relies(p)

(* Version v of file n is about to be written by process q, which has it in memory. *)
Holds(q, n, v) ==
  /\ proc[q].stage = "Open" /\ proc[q].linked
  /\ PathOf(proc[q]) = <<n, "plain">> /\ proc[q].data.of = v

(* A command line that only compresses, without -f. *)
Compressing(r) ==
  /\ ~r.opts.force /\ r.opts.sink # "Svg"
  /\ \A i \in DOMAIN r.args : ~Decompressing(r.opts, r.args[i])

(* What compressor p relies on, whoever else compresses: its input is what it read or  *)
(* gone; once it found no output, the user counts on no other version of this file;    *)
(* and when it removes the input, that version is in the output or about to be.        *)
SharesWith(p) ==
  LET path == PathOf(proc[p])
      out  == OutputPath(path) IN
  /\ proc[p].stage \in InMemory /\ proc[p].opts.sink = "File" =>
       disk[path] \in {Absent, [form |-> "Plain", of |-> proc[p].data.of]}
  /\ proc[p].stage \in {"Checked", "Open", "Written"} => kept[path[1]] \subseteq {proc[p].data.of}
  /\ proc[p].stage = "Open" => proc[p].linked
  /\ proc[p].stage \in {"Open", "Written"} => disk[out] # Absent
  /\ proc[p].stage = "Written" =>
       \A v \in kept[path[1]] :
         \/ disk[out] = [form |-> "Archive", of |-> v]
         \/ \E q \in Processes : Holds(q, path[1], v)

(* The invariant of compressors that overlap. *)
SideBySide ==
  history \subseteq {"Overlap"} =>
    /\ CompressorsNeverLose
    /\ \A p \in Processes : Active(proc[p]) => Compressing(proc[p]) /\ SharesWith(p)

IInv == TypeInv /\ OneByOne /\ SideBySide

-----------------------------------------------------------------------------
(* One process *)

\* The operators of Cli on a process are those above on its record.
LEMMA OfTheRecord ==
  ASSUME NEW p
  PROVE  /\ Live(p) <=> Active(proc[p])
         /\ Path(p) = PathOf(proc[p])
         /\ Out(p) = OutOf(proc[p])
BY DEF Live, Active, Path, PathOf, Out, OutOf

\* An active process is at a path, and writes to another.
LEMMA Places ==
  ASSUME NEW r \in RunType, RunOK(r), Active(r)
  PROVE  /\ r.opts \in OptionSet
         /\ PathOf(r) \in Paths
         /\ OutputPath(PathOf(r)) \in Paths /\ OutputPath(PathOf(r)) # PathOf(r)
         /\ OutputPath(PathOf(r))[1] = PathOf(r)[1]
         /\ OutOf(r) \in Paths /\ OutOf(r) # PathOf(r)
         /\ OutOf(r)[1] \in Names
         /\ r.opts.sink = "Svg" => OutOf(r)[2] = "plain"
         /\ r.opts.sink # "Svg" => OutOf(r) = OutputPath(PathOf(r))
<1>1. r.opts \in OptionSet /\ r.args \in Seq(Paths) /\ r.at \in DOMAIN r.args
  BY CliAssumption DEF RunOK
<1>2. PICK path : path = PathOf(r)
  OBVIOUS
<1>3. path \in Paths
  BY <1>1, <1>2 DEF PathOf
<1>4. PICK n \in Names, suffix \in {"plain", "pltz"} : path = <<n, suffix>>
  BY <1>3 DEF Paths
<1>5. /\ OutputPath(path) \in Paths /\ OutputPath(path) # path
      /\ OutputPath(path)[1] = n
  BY <1>4 DEF OutputPath, Paths
<1>6. ASSUME r.opts.sink = "Svg"
      PROVE  /\ OutOf(r) = <<SvgOf[path], "plain">> /\ SvgOf[path] \in Names
             /\ SvgOf[path] # path[1]
  <2>1. path \in DOMAIN SvgOf
    BY <1>1, <1>2, <1>6 DEF RunOK, PathOf
  <2> QED BY <1>2, <1>6, <2>1, CliAssumption DEF OutOf
<1>7. ASSUME r.opts.sink = "Svg"
      PROVE  OutOf(r) \in Paths /\ OutOf(r) # path /\ OutOf(r)[1] \in Names /\ OutOf(r)[2] = "plain"
  BY <1>4, <1>6, <1>7 DEF Paths
<1>8. ASSUME r.opts.sink # "Svg"
      PROVE  OutOf(r) = OutputPath(path)
  BY <1>2, <1>8 DEF OutOf
<1> QED BY <1>1, <1>2, <1>3, <1>4, <1>5, <1>7, <1>8

\* A file done, well or not, leaves the process a run that counts right.
LEMMA AfterFileOK ==
  ASSUME NEW r \in RunType, RunOK(r), Active(r), NEW ok \in BOOLEAN
  PROVE  /\ AfterFile(r, ok) \in RunType /\ RunOK(AfterFile(r, ok))
         /\ AfterFile(r, ok).stage \in {"Exited", "Reading"}
         /\ AfterFile(r, ok).opts = r.opts /\ AfterFile(r, ok).args = r.args
<1>1. r.args \in Seq(Paths) /\ Len(r.args) \in Nat /\ r.at \in 1 .. Len(r.args) /\ r.done \in Nat
  BY CliAssumption DEF RunOK, RunType
<1>2. PICK s : s = AfterFile(r, ok)
  OBVIOUS
<1>3. /\ s.stage = (IF r.at = Len(r.args) THEN "Exited" ELSE "Reading")
      /\ s.at = (IF r.at = Len(r.args) THEN r.at ELSE r.at + 1)
      /\ s.exit = (IF ok THEN r.exit ELSE 1)
      /\ s.done = (IF ok THEN r.done + 1 ELSE r.done)
      /\ s.opts = r.opts /\ s.args = r.args /\ s.data = Absent /\ s.linked = FALSE
  BY <1>2 DEF AfterFile, RunType
<1>4. s \in RunType
  <2>1. s.stage \in Stages /\ s.at \in Nat /\ s.done \in Nat
    BY <1>1, <1>3 DEF Stages
  <2>3. s.exit \in {0, 1, 101}
    BY <1>3 DEF RunType
  <2>4. s.opts \in Options \union {Absent} /\ s.args \in ArgLists \union {<<>>}
    BY <1>3 DEF RunType
  <2>5. s.data \in Contents \union {Absent} /\ s.linked \in BOOLEAN
    BY <1>3
  <2>2. s = [stage |-> s.stage, opts |-> s.opts, args |-> s.args, at |-> s.at,
             exit |-> s.exit, done |-> s.done, data |-> s.data, linked |-> s.linked]
    BY <1>2 DEF AfterFile, RunType
  <2> QED BY <2>1, <2>2, <2>3, <2>4, <2>5 DEF RunType
<1>5. RunOK(s)
  <2>1. r.done <= r.at - 1 /\ r.exit \in {0, 1} /\ (r.exit = 0 => r.done = r.at - 1)
    BY DEF RunOK
  <2>2. s.done <= Len(s.args)
    BY <1>1, <1>3, <2>1
  <2>3. s.stage = "Exited" /\ s.exit = 0 => s.done = Len(s.args)
    BY <1>1, <1>3, <2>1
  <2>4. Active(s) => /\ s.at \in DOMAIN s.args /\ s.done <= s.at - 1 /\ s.exit \in {0, 1}
                     /\ s.exit = 0 => s.done = s.at - 1
    BY <1>1, <1>3, <2>1 DEF Active
  <2>5. /\ s.opts \in Options /\ s.args \in ArgLists
        /\ s.opts.sink = "Svg" => \A i \in DOMAIN s.args : s.args[i] \in DOMAIN SvgOf
    BY <1>3 DEF RunOK
  <2>6. s.stage \in {"Exited", "Reading"}
    BY <1>3
  <2>7. s.stage \notin InMemory /\ s.stage \notin {"Checked", "Open"} /\ s.stage # "Written"
    BY <2>6 DEF InMemory
  <2> QED BY <2>2, <2>3, <2>4, <2>5, <2>7 DEF RunOK
<1> QED BY <1>2, <1>3, <1>4, <1>5

\* What the conversion makes is contents, of the version that was read, and of the form
\* that belongs to the name it will get.
LEMMA ConvertedIs ==
  ASSUME NEW r \in RunType, RunOK(r), Active(r), NEW c \in Contents,
         NEW out \in Converted(r.opts, PathOf(r), c), out # Error, out # Panic
  PROVE  /\ out \in Contents
         /\ r.opts.sink = "File" => out.of = c.of
         /\ r.opts.sink \in {"File", "Svg"} => out.form = FormAt(OutOf(r))
<1>1. PICK path \in Paths : path = PathOf(r)
  BY Places
<1>2. r.opts.sink # "Svg" => OutOf(r) = OutputPath(path)
  BY <1>1, Places
<1>3. r.opts.sink = "Svg" => OutOf(r)[2] = "plain"
  BY Places
<1>4. c.of \in Versions \union {Cut, Picture}
  BY DEF Contents
<1>5. CASE r.opts.sink \in {"Show", "Svg"}
  <2>1. out = [form |-> "Plain", of |-> Picture]
    BY <1>1, <1>5 DEF Converted
  <2> QED BY <1>3, <1>5, <2>1 DEF Contents, FormAt
<1>6. CASE r.opts.sink \notin {"Show", "Svg"} /\ Decompressing(r.opts, path)
  <2>1. out = [form |-> "Plain", of |-> c.of] /\ (r.opts.sink = "File" => path[2] = "pltz")
    BY <1>1, <1>6 DEF Converted
  <2>2. r.opts.sink = "File" => OutputPath(path)[2] = "plain"
    BY <2>1 DEF OutputPath
  <2> QED BY <1>2, <1>4, <1>6, <2>1, <2>2 DEF Contents, FormAt
<1>7. CASE r.opts.sink \notin {"Show", "Svg"} /\ ~Decompressing(r.opts, path)
  <2>1. out = [form |-> "Archive", of |-> c.of] /\ path[2] # "pltz"
    BY <1>1, <1>7 DEF Converted, Decompressing
  <2>2. OutputPath(path)[2] = "pltz"
    BY <2>1 DEF OutputPath
  <2> QED BY <1>2, <1>4, <1>7, <2>1, <2>2 DEF Contents, FormAt
<1> QED BY <1>5, <1>6, <1>7

-----------------------------------------------------------------------------
(* Types *)

\* What the first disk holds.
LEMMA InitialDisk ==
  ASSUME Init
  PROVE  /\ disk \in [Paths -> Contents \union {Absent}]
         /\ \A x \in Paths : disk[x] # Absent => disk[x].form = FormAt(x) /\ disk[x].of \in Versions
<1>1. disk \in [Paths -> Whole("Plain") \union Whole("Archive") \union {Absent}]
  BY CliAssumption DEF Init
<1>2. Whole("Plain") \subseteq Contents /\ Whole("Archive") \subseteq Contents
  BY DEF Whole, Contents
<1>3. ASSUME NEW x \in Paths, disk[x] # Absent
      PROVE  disk[x].form = FormAt(x) /\ disk[x].of \in Versions
  <2>1. PICK n \in Names, suffix \in {"plain", "pltz"} : x = <<n, suffix>>
    BY DEF Paths
  <2>2. CASE suffix = "plain"
    <3>1. disk[x] \in Whole("Plain")
      BY <1>3, <2>1, <2>2, CliAssumption DEF Init
    <3> QED BY <2>1, <2>2, <3>1 DEF Whole, FormAt
  <2>3. CASE suffix = "pltz"
    <3>1. disk[x] \in Whole("Archive")
      BY <1>3, <2>1, <2>3, CliAssumption DEF Init
    <3> QED BY <2>1, <2>3, <3>1 DEF Whole, FormAt
  <2> QED BY <2>1, <2>2, <2>3
<1> QED BY <1>1, <1>2, <1>3

\* A process that has not started.
LEMMA IdleOK == Idle \in RunType /\ RunOK(Idle) /\ ~Active(Idle)
BY DEF Idle, RunType, RunOK, Active, Stages, InMemory

\* The variables have their types at the start.
LEMMA InitTypeInv == Init => TypeInv
<1> SUFFICES ASSUME Init PROVE TypeInv
  OBVIOUS
<1>1. /\ disk \in [Paths -> Contents \union {Absent}]
      /\ \A x \in Paths : disk[x] # Absent => disk[x].form = FormAt(x)
  BY InitialDisk
<1>2. kept \in [Names -> SUBSET Versions]
  <2>1. ASSUME NEW n \in Names
        PROVE  {disk[x].of : x \in {y \in {n} \X {"plain", "pltz"} : disk[y] # Absent}}
                 \subseteq Versions
    <3>1. {n} \X {"plain", "pltz"} \subseteq Paths
      BY DEF Paths
    <3> QED BY <3>1, InitialDisk
  <2> QED BY <2>1 DEF Init
<1>3. runs \in 0 .. MaxRuns /\ history \subseteq Events /\ pictured \subseteq Names
  BY CliAssumption DEF Init
<1>4. proc \in [Processes -> RunType] /\ \A p \in Processes : RunOK(proc[p])
  BY IdleOK DEF Init
<1> QED BY <1>1, <1>2, <1>3, <1>4 DEF TypeInv

\* One process changes, to a record that makes sense.
LEMMA OneProcess ==
  ASSUME TypeInv, NEW p \in Processes, NEW r \in RunType, RunOK(r),
         proc' = [proc EXCEPT ![p] = r]
  PROVE  /\ proc' \in [Processes -> RunType] /\ \A q \in Processes : RunOK(proc'[q])
         /\ proc'[p] = r /\ \A q \in Processes : q # p => proc'[q] = proc[q]
BY DEF TypeInv

\* The types of a step of process p that leaves the files alone.
LEMMA ProcessTypeInv ==
  ASSUME TypeInv, NEW p \in Processes, NEW r \in RunType, RunOK(r),
         proc' = [proc EXCEPT ![p] = r],
         UNCHANGED <<disk, kept, pictured>>,
         runs' \in 0 .. MaxRuns, history' \subseteq Events
  PROVE  TypeInv'
BY OneProcess DEF TypeInv

(* What launching p makes of it. *)
Launched(o, args) ==
  [stage |-> "Reading", opts |-> o, args |-> args, at |-> 1,
   exit |-> 0, done |-> 0, data |-> Absent, linked |-> FALSE]

\* A run that is launched has done nothing yet.
LEMMA LaunchedOK ==
  ASSUME NEW o \in Options, NEW args \in ArgLists,
         o.sink = "Svg" => \A i \in DOMAIN args : args[i] \in DOMAIN SvgOf
  PROVE  Launched(o, args) \in RunType /\ RunOK(Launched(o, args))
<1>1. args \in Seq(Paths) /\ args # <<>>
  BY CliAssumption
<1>2. 1 \in DOMAIN args
  BY <1>1
<1> QED BY <1>1, <1>2 DEF Launched, RunType, RunOK, Active, Stages, InMemory

\* Launch keeps the types.
LEMMA LaunchTypeInv ==
  ASSUME TypeInv, NEW p \in Processes, Launch(p)
  PROVE  TypeInv'
<1>1. PICK o \in Options, args \in ArgLists :
        /\ o.sink = "Svg" => \A i \in DOMAIN args : args[i] \in DOMAIN SvgOf
        /\ proc' = [proc EXCEPT ![p] = Launched(o, args)]
  BY DEF Launch, Launched
<1>2. runs' \in 0 .. MaxRuns
  BY CliAssumption DEF Launch, TypeInv
<1>3. history' \subseteq Events
  BY DEF Launch, TypeInv, Events
<1>4. UNCHANGED <<disk, kept, pictured>>
  BY DEF Launch
<1> QED BY <1>1, <1>2, <1>3, <1>4, LaunchedOK, ProcessTypeInv

(* Process p alone makes a step; every record makes sense afterwards. *)
OnlyProcess(p) ==
  /\ proc' \in [Processes -> RunType] /\ \A q \in Processes : RunOK(proc'[q])
  /\ \A q \in Processes : q # p => proc'[q] = proc[q]

(* The record t of a process that is through with a file of record r. *)
Ended(r, t) == t.stage \in {"Exited", "Reading"} /\ t.opts = r.opts /\ t.args = r.args

(* The record t of a process that goes on to stage s with its file. *)
MovesTo(r, t, s) ==
  /\ t.stage = s /\ t.opts = r.opts /\ t.args = r.args /\ t.at = r.at
  /\ t.exit = r.exit /\ t.done = r.done /\ t.data = r.data

\* A process that comes to the end of a file.
LEMMA FinishIs ==
  ASSUME TypeInv, NEW p \in Processes, Active(proc[p]), NEW ok \in BOOLEAN, Finish(p, ok)
  PROVE  OnlyProcess(p) /\ Ended(proc[p], proc'[p])
<1>1. PICK r \in RunType : r = proc[p] /\ RunOK(r) /\ Active(r)
  BY DEF TypeInv
<1>2. PICK t \in RunType : /\ t = AfterFile(r, ok) /\ RunOK(t) /\ Ended(r, t)
  BY <1>1, AfterFileOK DEF Ended
<1>3. proc' = [proc EXCEPT ![p] = t]
  BY <1>1, <1>2 DEF Finish
<1> QED BY <1>1, <1>2, <1>3, OneProcess DEF OnlyProcess

\* A process that goes on with its file.
LEMMA MovesToOK ==
  ASSUME NEW r \in RunType, RunOK(r), r.stage \in InMemory, NEW t \in RunType,
         NEW s \in {"Checked", "Open", "Written"}, MovesTo(r, t, s),
         s = "Written" => r.opts.sink = "File",
         s # "Written" => r.opts.sink \in {"File", "Svg"}
  PROVE  /\ RunOK(t) /\ Active(r) /\ Active(t)
         /\ PathOf(t) = PathOf(r) /\ OutOf(t) = OutOf(r)
<1>1. /\ t.stage = s /\ t.exit = r.exit /\ t.done = r.done /\ t.args = r.args
      /\ t.opts = r.opts /\ t.at = r.at /\ t.data = r.data
  BY DEF MovesTo
<1>2. OutOf(t) = OutOf(r) /\ PathOf(t) = PathOf(r) /\ Active(r) /\ Active(t)
  BY <1>1 DEF OutOf, PathOf, Active, InMemory
<1>3. RunOK(t)
  BY <1>1, <1>2 DEF RunOK, Active, InMemory
<1> QED BY <1>2, <1>3

\* So it does when only its stage and its link change.
LEMMA StageIs ==
  ASSUME TypeInv, NEW p \in Processes, proc[p].stage \in InMemory,
         NEW s \in {"Checked", "Open", "Written"},
         s = "Written" => proc[p].opts.sink = "File",
         s # "Written" => proc[p].opts.sink \in {"File", "Svg"},
         NEW t \in RunType, MovesTo(proc[p], t, s), proc' = [proc EXCEPT ![p] = t]
  PROVE  /\ OnlyProcess(p) /\ proc'[p] = t
         /\ PathOf(t) = PathOf(proc[p]) /\ OutOf(t) = OutOf(proc[p])
<1>1. proc[p] \in RunType /\ RunOK(proc[p])
  BY DEF TypeInv
<1>2. /\ RunOK(t) /\ PathOf(t) = PathOf(proc[p]) /\ OutOf(t) = OutOf(proc[p])
  BY <1>1, MovesToOK
<1> QED BY <1>2, OneProcess DEF OnlyProcess

\* What ReadInput makes of its process.
LEMMA ReadInputIs ==
  ASSUME TypeInv, NEW p \in Processes, ReadInput(p)
  PROVE  /\ Active(proc[p])
         /\ \E r \in RunType :
              /\ RunOK(r) /\ proc' = [proc EXCEPT ![p] = r]
              /\ r.opts = proc[p].opts /\ r.args = proc[p].args
              /\ \/ r.stage \in {"Exited", "Reading"}
                 \/ /\ r.stage = "Made" /\ r.at = proc[p].at
                    /\ disk[PathOf(proc[p])] # Absent
                    /\ r.opts.sink = "File" => r.data.of = disk[PathOf(proc[p])].of
<1>1. proc[p] \in RunType /\ RunOK(proc[p]) /\ proc[p].stage = "Reading" /\ Active(proc[p])
  BY DEF ReadInput, TypeInv, Active
<1>2. PICK s \in RunType : s = proc[p]
  BY <1>1
<1>3. PICK path \in Paths : path = PathOf(s) /\ path = Path(p)
  BY <1>1, <1>2, Places, OfTheRecord
<1>4. ASSUME Finish(p, FALSE)
      PROVE  \E r \in RunType : /\ RunOK(r) /\ proc' = [proc EXCEPT ![p] = r]
                                /\ r.opts = s.opts /\ r.args = s.args
                                /\ r.stage \in {"Exited", "Reading"}
  <2>1. proc' = [proc EXCEPT ![p] = AfterFile(s, FALSE)]
    BY <1>2, <1>4 DEF Finish
  <2> QED BY <1>1, <1>2, <2>1, AfterFileOK
<1>5. CASE disk[path] = Absent
  <2>1. Finish(p, FALSE)
    BY <1>3, <1>5 DEF ReadInput
  <2> QED BY <1>1, <1>2, <1>4, <2>1
<1>6. CASE disk[path] # Absent
  <2>1. disk[path] \in Contents
    BY <1>6 DEF TypeInv
  <2>2. PICK out \in Converted(s.opts, path, disk[path]) :
          IF out = Error THEN Finish(p, FALSE)
          ELSE IF out = Panic
          THEN proc' = [proc EXCEPT ![p].stage = "Exited", ![p].exit = 101]
          ELSE proc' = [proc EXCEPT ![p].stage = "Made", ![p].data = out]
    BY <1>2, <1>3, <1>6 DEF ReadInput
  <2>3. CASE out = Error
    BY <1>1, <1>2, <1>4, <2>2, <2>3
  <2>4. CASE out # Error /\ out = Panic
    <3>1. PICK r : r = [s EXCEPT !.stage = "Exited", !.exit = 101]
      OBVIOUS
    <3>2. proc' = [proc EXCEPT ![p] = r]
      BY <1>2, <2>2, <2>4, <3>1 DEF TypeInv
    <3>3. r \in RunType
      BY <3>1 DEF RunType, Stages
    <3>4. /\ r.stage = "Exited" /\ r.exit = 101 /\ r.done = s.done /\ r.args = s.args
          /\ r.opts = s.opts
      BY <3>1 DEF RunType
    <3>5. RunOK(r)
      BY <1>1, <1>2, <3>4 DEF RunOK, Active, InMemory
    <3> QED BY <1>1, <1>2, <3>2, <3>3, <3>4, <3>5
  <2>5. CASE out # Error /\ out # Panic
    <3>1. PICK r : r = [s EXCEPT !.stage = "Made", !.data = out]
      OBVIOUS
    <3>2. proc' = [proc EXCEPT ![p] = r]
      BY <1>2, <2>2, <2>5, <3>1 DEF TypeInv
    <3>3. /\ out \in Contents
          /\ s.opts.sink = "File" => out.of = disk[path].of
          /\ s.opts.sink \in {"File", "Svg"} => out.form = FormAt(OutOf(s))
      BY <1>1, <1>2, <1>3, <2>1, <2>5, ConvertedIs
    <3>4. r \in RunType
      BY <3>1, <3>3 DEF RunType, Stages
    <3>5. /\ r.stage = "Made" /\ r.exit = s.exit /\ r.done = s.done /\ r.args = s.args
          /\ r.opts = s.opts /\ r.at = s.at /\ r.data = out
      BY <3>1 DEF RunType
    <3>6. OutOf(r) = OutOf(s)
      BY <3>5 DEF OutOf, PathOf
    <3>7. RunOK(r)
      BY <1>1, <1>2, <3>3, <3>5, <3>6 DEF RunOK, Active, InMemory
    <3> QED BY <1>1, <1>2, <1>3, <1>6, <3>2, <3>3, <3>4, <3>5, <3>7
  <2> QED BY <2>3, <2>4, <2>5
<1> QED BY <1>5, <1>6

\* WriteStdout ends a file.
LEMMA WriteStdoutIs ==
  ASSUME TypeInv, NEW p \in Processes, WriteStdout(p)
  PROVE  Active(proc[p]) /\ OnlyProcess(p) /\ Ended(proc[p], proc'[p])
<1>1. Active(proc[p])
  BY DEF WriteStdout, Active
<1>2. PICK ok \in BOOLEAN : Finish(p, ok)
  BY DEF WriteStdout
<1> QED BY <1>1, <1>2, FinishIs

\* WriteFails does.
LEMMA WriteFailsIs ==
  ASSUME TypeInv, NEW p \in Processes, WriteFails(p)
  PROVE  Active(proc[p]) /\ OnlyProcess(p) /\ Ended(proc[p], proc'[p])
<1>1. Active(proc[p])
  BY DEF WriteFails, Active
<1>2. Finish(p, FALSE)
  BY DEF WriteFails
<1> QED BY <1>1, <1>2, FinishIs

\* CheckOutput ends it, or finds that the output may be written.
LEMMA CheckOutputIs ==
  ASSUME TypeInv, NEW p \in Processes, CheckOutput(p)
  PROVE  /\ Active(proc[p]) /\ OnlyProcess(p)
         /\ \/ Ended(proc[p], proc'[p])
            \/ /\ proc[p].stage = "Made" /\ MovesTo(proc[p], proc'[p], "Checked")
               /\ PathOf(proc'[p]) = PathOf(proc[p]) /\ OutOf(proc'[p]) = OutOf(proc[p])
               /\ proc[p].opts.sink \in {"File", "Svg"}
               /\ proc[p].opts.sink = "File" /\ ~proc[p].opts.force =>
                    disk[OutOf(proc[p])] = Absent
<1>1. proc[p] \in RunType /\ proc[p].stage = "Made" /\ proc[p].opts.sink \in {"File", "Svg"}
  BY DEF CheckOutput, TypeInv
<1>2. Active(proc[p]) /\ proc[p].stage \in InMemory
  BY <1>1 DEF Active, InMemory
<1>3. CASE Finish(p, FALSE)
  BY <1>2, <1>3, FinishIs
<1>4. CASE ~Finish(p, FALSE)
  <2>1. /\ proc' = [proc EXCEPT ![p].stage = "Checked"]
        /\ proc[p].opts.sink = "File" /\ ~proc[p].opts.force => disk[Out(p)] = Absent
    BY <1>4 DEF CheckOutput
  <2>2. PICK t : t = [proc[p] EXCEPT !.stage = "Checked"]
    OBVIOUS
  <2>3. t \in RunType /\ MovesTo(proc[p], t, "Checked")
    BY <1>1, <2>2 DEF RunType, Stages, MovesTo
  <2>4. proc' = [proc EXCEPT ![p] = t]
    BY <2>1, <2>2
  <2>5. /\ OnlyProcess(p) /\ proc'[p] = t
        /\ PathOf(t) = PathOf(proc[p]) /\ OutOf(t) = OutOf(proc[p])
    BY <1>1, <1>2, <2>3, <2>4, StageIs
  <2> QED BY <1>1, <1>2, <2>1, <2>3, <2>5, OfTheRecord
<1> QED BY <1>3, <1>4

\* OpenOutput.
LEMMA OpenOutputIs ==
  ASSUME TypeInv, NEW p \in Processes, OpenOutput(p)
  PROVE  /\ proc[p].stage = "Checked" /\ Active(proc[p]) /\ OnlyProcess(p)
         /\ MovesTo(proc[p], proc'[p], "Open") /\ proc'[p].linked
         /\ PathOf(proc'[p]) = PathOf(proc[p]) /\ OutOf(proc'[p]) = OutOf(proc[p])
         /\ proc[p].opts.sink \in {"File", "Svg"} /\ proc[p].data \in Contents
         /\ proc[p].data.form = FormAt(OutOf(proc[p]))
<1>1. proc[p] \in RunType /\ RunOK(proc[p]) /\ proc[p].stage = "Checked"
  BY DEF OpenOutput, TypeInv
<1>2. /\ Active(proc[p]) /\ proc[p].stage \in InMemory
      /\ proc[p].opts.sink \in {"File", "Svg"} /\ proc[p].data \in Contents
      /\ proc[p].data.form = FormAt(OutOf(proc[p]))
  BY <1>1 DEF Active, InMemory, RunOK
<1>3. PICK t : t = [proc[p] EXCEPT !.stage = "Open", !.linked = TRUE]
  OBVIOUS
<1>4. t \in RunType /\ MovesTo(proc[p], t, "Open") /\ t.linked
  BY <1>1, <1>3 DEF RunType, Stages, MovesTo
<1>5. proc' = [proc EXCEPT ![p] = t]
  BY <1>3 DEF OpenOutput, TypeInv
<1>6. /\ OnlyProcess(p) /\ proc'[p] = t
      /\ PathOf(t) = PathOf(proc[p]) /\ OutOf(t) = OutOf(proc[p])
  BY <1>1, <1>2, <1>4, <1>5, StageIs
<1> QED BY <1>1, <1>2, <1>4, <1>6

\* WriteOutput.
LEMMA WriteOutputIs ==
  ASSUME TypeInv, NEW p \in Processes, WriteOutput(p)
  PROVE  /\ proc[p].stage = "Open" /\ Active(proc[p]) /\ OnlyProcess(p)
         /\ \/ Ended(proc[p], proc'[p])
            \/ /\ MovesTo(proc[p], proc'[p], "Written")
               /\ PathOf(proc'[p]) = PathOf(proc[p]) /\ OutOf(proc'[p]) = OutOf(proc[p])
         /\ proc[p].data \in Contents /\ proc[p].data.form = FormAt(OutOf(proc[p]))
<1>1. proc[p] \in RunType /\ RunOK(proc[p]) /\ proc[p].stage = "Open"
  BY DEF WriteOutput, TypeInv
<1>2. /\ Active(proc[p]) /\ proc[p].stage \in InMemory
      /\ proc[p].opts.sink \in {"File", "Svg"} /\ proc[p].data \in Contents
      /\ proc[p].data.form = FormAt(OutOf(proc[p]))
  BY <1>1 DEF Active, InMemory, RunOK
<1>3. CASE Finish(p, TRUE)
  BY <1>1, <1>2, <1>3, FinishIs
<1>4. CASE ~Finish(p, TRUE)
  <2>1. /\ proc' = [proc EXCEPT ![p].stage = "Written"]
        /\ proc[p].opts.sink = "File"
    BY <1>2, <1>4 DEF WriteOutput
  <2>2. PICK t : t = [proc[p] EXCEPT !.stage = "Written"]
    OBVIOUS
  <2>3. t \in RunType /\ MovesTo(proc[p], t, "Written")
    BY <1>1, <2>2 DEF RunType, Stages, MovesTo
  <2>4. proc' = [proc EXCEPT ![p] = t]
    BY <2>1, <2>2
  <2>5. /\ OnlyProcess(p) /\ proc'[p] = t
        /\ PathOf(t) = PathOf(proc[p]) /\ OutOf(t) = OutOf(proc[p])
    BY <1>1, <1>2, <2>1, <2>3, <2>4, StageIs
  <2> QED BY <1>1, <1>2, <2>1, <2>3, <2>5
<1> QED BY <1>3, <1>4

\* A process loses the name of the file it writes to.
LEMMA UnlinkedOK ==
  ASSUME NEW r \in RunType, RunOK(r), r.stage = "Open"
  PROVE  [r EXCEPT !.linked = FALSE] \in RunType /\ RunOK([r EXCEPT !.linked = FALSE])
<1>1. PICK t : t = [r EXCEPT !.linked = FALSE]
  OBVIOUS
<1>2. t \in RunType /\ MovesTo(r, t, "Open")
  BY <1>1 DEF RunType, MovesTo
<1>3. r.stage \in InMemory /\ r.opts.sink \in {"File", "Svg"}
  BY DEF RunOK, InMemory
<1> QED BY <1>1, <1>2, <1>3, MovesToOK

\* RemoveInput ends a file; another process may lose the name of its output.
LEMMA RemoveInputIs ==
  ASSUME TypeInv, NEW p \in Processes, RemoveInput(p)
  PROVE  /\ proc[p].stage = "Written" /\ Active(proc[p])
         /\ proc[p].opts.sink = "File" /\ Ended(proc[p], proc'[p])
         /\ proc' \in [Processes -> RunType] /\ \A q \in Processes : RunOK(proc'[q])
         /\ \A q \in Processes :
              q # p => \/ proc'[q] = proc[q]
                       \/ proc[q].stage = "Open" /\ OutOf(proc[q]) = PathOf(proc[p])
<1>1. /\ proc[p] \in RunType /\ RunOK(proc[p]) /\ proc[p].stage = "Written"
      /\ proc[p].opts.sink = "File" /\ Active(proc[p])
  BY DEF RemoveInput, TypeInv, RunOK, Active
<1>2. PICK ok \in BOOLEAN : ok = (disk[Path(p)] # Absent)
  OBVIOUS
<1>3. proc' = [q \in Processes |->
         IF q = p THEN AfterFile(proc[p], ok)
         ELSE IF proc[q].stage = "Open" /\ Out(q) = Path(p)
              THEN [proc[q] EXCEPT !.linked = FALSE]
              ELSE proc[q]]
  BY <1>2 DEF RemoveInput
<1>4. /\ proc'[p] = AfterFile(proc[p], ok)
      /\ proc'[p] \in RunType /\ RunOK(proc'[p]) /\ Ended(proc[p], proc'[p])
  BY <1>1, <1>3, AfterFileOK DEF Ended
<1>5. ASSUME NEW q \in Processes, q # p
      PROVE  /\ proc'[q] \in RunType /\ RunOK(proc'[q])
             /\ \/ proc'[q] = proc[q]
                \/ proc[q].stage = "Open" /\ OutOf(proc[q]) = PathOf(proc[p])
  <2>1. proc[q] \in RunType /\ RunOK(proc[q])
    BY DEF TypeInv
  <2>2. CASE proc[q].stage = "Open" /\ Out(q) = Path(p)
    <3>1. proc'[q] = [proc[q] EXCEPT !.linked = FALSE]
      BY <1>3, <1>5, <2>2
    <3> QED BY <2>1, <2>2, <3>1, UnlinkedOK, OfTheRecord
  <2>3. CASE ~(proc[q].stage = "Open" /\ Out(q) = Path(p))
    <3>1. proc'[q] = proc[q]
      BY <1>3, <1>5, <2>3
    <3> QED BY <2>1, <3>1
  <2> QED BY <2>2, <2>3
<1>6. proc' \in [Processes -> RunType]
  <2>1. \A q \in Processes : proc'[q] \in RunType
    BY <1>4, <1>5
  <2>2. proc' = [q \in Processes |-> proc'[q]]
    BY <1>3
  <2> QED BY <2>1, <2>2
<1> QED BY <1>1, <1>4, <1>5, <1>6

\* A process that is killed has nothing any more.
LEMMA CrashIs ==
  ASSUME TypeInv, NEW p \in Processes, Crash(p)
  PROVE  /\ OnlyProcess(p) /\ proc'[p].stage = "Crashed"
<1>1. PICK t : t = [Idle EXCEPT !.stage = "Crashed"]
  OBVIOUS
<1>2. t.stage = "Crashed" /\ t.args = <<>> /\ t.done = 0
  BY <1>1 DEF Idle
<1>4. t \in RunType
  BY <1>1 DEF Idle, RunType, Stages
<1>5. RunOK(t)
  BY <1>2 DEF RunOK, Active, InMemory
<1>3. proc' = [proc EXCEPT ![p] = t]
  BY <1>1 DEF Crash
<1> QED BY <1>2, <1>3, <1>4, <1>5, OneProcess DEF OnlyProcess

\* A step of one process that leaves files and runs alone keeps the types.
LEMMA QuietTypeInv ==
  ASSUME TypeInv, NEW p \in Processes, OnlyProcess(p),
         UNCHANGED <<disk, kept, runs, pictured>>, history' \subseteq Events
  PROVE  TypeInv'
BY DEF TypeInv, OnlyProcess

\* OpenOutput keeps the types.
LEMMA OpenOutputTypeInv ==
  ASSUME TypeInv, NEW p \in Processes, OpenOutput(p)
  PROVE  TypeInv'
<1>1. PICK r \in RunType, out \in Paths :
        /\ r = proc[p] /\ RunOK(r) /\ Active(r) /\ out = OutOf(r) /\ out = Out(p)
        /\ out[1] \in Names /\ r.data \in Contents /\ r.data.form = FormAt(out)
  BY OpenOutputIs, Places, OfTheRecord DEF TypeInv
<1>2. PICK c : c = [form |-> r.data.form, of |-> Cut]
  OBVIOUS
<1>3. c \in Contents /\ c.form = FormAt(out)
  BY <1>1, <1>2 DEF Contents
<1>4. disk' = [disk EXCEPT ![out] = c]
  BY <1>1, <1>2 DEF OpenOutput
<1>5. /\ disk' \in [Paths -> Contents \union {Absent}]
      /\ \A x \in Paths : disk'[x] # Absent => disk'[x].form = FormAt(x)
  BY <1>3, <1>4 DEF TypeInv
<1>6. kept' \in [Names -> SUBSET Versions]
  BY <1>1 DEF OpenOutput, TypeInv
<1>7. pictured' \subseteq Names
  BY <1>1 DEF OpenOutput, TypeInv
<1>8. UNCHANGED <<runs, history>>
  BY DEF OpenOutput
<1> QED BY <1>5, <1>6, <1>7, <1>8, OpenOutputIs DEF TypeInv, OnlyProcess

\* WriteOutput does.
LEMMA WriteOutputTypeInv ==
  ASSUME TypeInv, NEW p \in Processes, WriteOutput(p)
  PROVE  TypeInv'
<1>1. PICK r \in RunType, out \in Paths :
        /\ r = proc[p] /\ out = Out(p)
        /\ r.data \in Contents /\ r.data.form = FormAt(out)
  BY WriteOutputIs, Places, OfTheRecord DEF TypeInv
<1>2. disk' = [disk EXCEPT ![out] = r.data] \/ disk' = disk
  BY <1>1 DEF WriteOutput
<1>3. /\ disk' \in [Paths -> Contents \union {Absent}]
      /\ \A x \in Paths : disk'[x] # Absent => disk'[x].form = FormAt(x)
  BY <1>1, <1>2 DEF TypeInv
<1>4. UNCHANGED <<kept, runs, history, pictured>>
  BY DEF WriteOutput
<1> QED BY <1>3, <1>4, WriteOutputIs DEF TypeInv, OnlyProcess

\* RemoveInput does.
LEMMA RemoveInputTypeInv ==
  ASSUME TypeInv, NEW p \in Processes, RemoveInput(p)
  PROVE  TypeInv'
<1>1. disk' = [disk EXCEPT ![Path(p)] = Absent]
  BY DEF RemoveInput
<1>2. /\ disk' \in [Paths -> Contents \union {Absent}]
      /\ \A x \in Paths : disk'[x] # Absent => disk'[x].form = FormAt(x)
  BY <1>1 DEF TypeInv
<1>3. UNCHANGED <<kept, runs, history, pictured>>
  BY DEF RemoveInput
<1> QED BY <1>2, <1>3, RemoveInputIs DEF TypeInv

\* What the user does to file n: version v, which he has not had.
LEMMA UserWritesIs ==
  ASSUME TypeInv, NEW n \in Names, UserWrites(n)
  PROVE  /\ \A p \in Processes : ~Active(proc[p])
         /\ \E v \in Versions :
              /\ disk' = [disk EXCEPT ![<<n, "plain">>] = [form |-> "Plain", of |-> v]]
              /\ kept' = [kept EXCEPT ![n] =
                            (IF disk[<<n, "plain">>] = Absent THEN kept[n]
                             ELSE kept[n] \ {disk[<<n, "plain">>].of}) \union {v}]
         /\ UNCHANGED <<proc, runs, history, pictured>>
BY OfTheRecord DEF UserWrites, TypeInv

\* UserWrites keeps the types.
LEMMA UserWritesTypeInv ==
  ASSUME TypeInv, NEW n \in Names, UserWrites(n)
  PROVE  TypeInv'
<1>1. PICK v \in Versions :
        /\ disk' = [disk EXCEPT ![<<n, "plain">>] = [form |-> "Plain", of |-> v]]
        /\ kept' = [kept EXCEPT ![n] =
                      (IF disk[<<n, "plain">>] = Absent THEN kept[n]
                       ELSE kept[n] \ {disk[<<n, "plain">>].of}) \union {v}]
  BY UserWritesIs
<1>2. PICK c : c = [form |-> "Plain", of |-> v]
  OBVIOUS
<1>3. PICK x : x = <<n, "plain">>
  OBVIOUS
<1>7. c \in Contents /\ c.form = "Plain" /\ x \in Paths /\ FormAt(x) = "Plain"
  BY <1>2, <1>3 DEF Contents, Paths, FormAt
<1>4. disk' = [disk EXCEPT ![x] = c]
  BY <1>1, <1>2, <1>3
<1>5. /\ disk' \in [Paths -> Contents \union {Absent}]
      /\ \A y \in Paths : disk'[y] # Absent => disk'[y].form = FormAt(y)
  BY <1>4, <1>7 DEF TypeInv
<1>6. kept' \in [Names -> SUBSET Versions]
  BY <1>1 DEF TypeInv
<1> QED BY <1>5, <1>6, UserWritesIs DEF TypeInv

\* Every step keeps the types, and history only grows.
LEMMA NextTypeInv ==
  ASSUME TypeInv, [Next]_vars
  PROVE  TypeInv' /\ history \subseteq history'
<1>1. CASE UNCHANGED vars
  BY <1>1 DEF vars, TypeInv
<1>2. ASSUME NEW p \in Processes, Launch(p) PROVE TypeInv' /\ history \subseteq history'
  BY <1>2, LaunchTypeInv DEF Launch
<1>3. ASSUME NEW p \in Processes, ReadInput(p) PROVE TypeInv' /\ history \subseteq history'
  <2>1. UNCHANGED <<disk, kept, runs, history, pictured>>
    BY <1>3 DEF ReadInput
  <2>2. PICK r \in RunType : RunOK(r) /\ proc' = [proc EXCEPT ![p] = r]
    BY <1>3, ReadInputIs
  <2>3. runs' \in 0 .. MaxRuns /\ history' \subseteq Events
    BY <2>1 DEF TypeInv
  <2> QED BY <2>1, <2>2, <2>3, ProcessTypeInv
<1>4. ASSUME NEW p \in Processes, WriteStdout(p) PROVE TypeInv' /\ history \subseteq history'
  <2>1. UNCHANGED <<disk, kept, runs, history, pictured>>
    BY <1>4 DEF WriteStdout
  <2>2. OnlyProcess(p) /\ history' \subseteq Events
    BY <1>4, <2>1, WriteStdoutIs DEF TypeInv
  <2> QED BY <2>1, <2>2, QuietTypeInv
<1>5. ASSUME NEW p \in Processes, CheckOutput(p) PROVE TypeInv' /\ history \subseteq history'
  <2>1. UNCHANGED <<disk, kept, runs, history, pictured>>
    BY <1>5 DEF CheckOutput
  <2>2. OnlyProcess(p) /\ history' \subseteq Events
    BY <1>5, <2>1, CheckOutputIs DEF TypeInv
  <2> QED BY <2>1, <2>2, QuietTypeInv
<1>6. ASSUME NEW p \in Processes, OpenOutput(p) PROVE TypeInv' /\ history \subseteq history'
  BY <1>6, OpenOutputTypeInv DEF OpenOutput
<1>7. ASSUME NEW p \in Processes, WriteOutput(p) PROVE TypeInv' /\ history \subseteq history'
  BY <1>7, WriteOutputTypeInv DEF WriteOutput
<1>8. ASSUME NEW p \in Processes, WriteFails(p) PROVE TypeInv' /\ history \subseteq history'
  <2>1. UNCHANGED <<disk, kept, runs, pictured>> /\ history' = history \union {"Failure"}
    BY <1>8 DEF WriteFails
  <2>2. OnlyProcess(p) /\ history' \subseteq Events
    BY <1>8, <2>1, WriteFailsIs DEF TypeInv, Events
  <2> QED BY <2>1, <2>2, QuietTypeInv
<1>9. ASSUME NEW p \in Processes, RemoveInput(p) PROVE TypeInv' /\ history \subseteq history'
  BY <1>9, RemoveInputTypeInv DEF RemoveInput
<1>10. ASSUME NEW p \in Processes, Crash(p) PROVE TypeInv' /\ history \subseteq history'
  <2>1. UNCHANGED <<disk, kept, runs, pictured>> /\ history' = history \union {"Crash"}
    BY <1>10 DEF Crash
  <2>2. OnlyProcess(p) /\ history' \subseteq Events
    BY <1>10, <2>1, CrashIs DEF TypeInv, Events
  <2> QED BY <2>1, <2>2, QuietTypeInv
<1>11. ASSUME NEW n \in Names, UserWrites(n) PROVE TypeInv' /\ history \subseteq history'
  BY <1>11, UserWritesTypeInv DEF UserWrites
<1> QED BY <1>1, <1>2, <1>3, <1>4, <1>5, <1>6, <1>7, <1>8, <1>9, <1>10, <1>11 DEF Next, Step

-----------------------------------------------------------------------------
(* Runs that follow one another *)

\* A version is on the disk if some name of its file holds it, in whichever form.
LEMMA OnDiskAt ==
  ASSUME NEW d \in [Paths -> Contents \union {Absent}],
         \A x \in Paths : d[x] # Absent => d[x].form = FormAt(x),
         NEW n \in Names, NEW v \in Versions
  PROVE  (\/ d[<<n, "plain">>] = [form |-> "Plain", of |-> v]
          \/ d[<<n, "pltz">>] = [form |-> "Archive", of |-> v])
         <=> \E x \in Paths : x[1] = n /\ d[x] # Absent /\ d[x].of = v
<1>1. PICK plain, pltz : plain = <<n, "plain">> /\ pltz = <<n, "pltz">>
  OBVIOUS
<1>2. /\ plain \in Paths /\ plain[1] = n /\ FormAt(plain) = "Plain"
      /\ pltz \in Paths /\ pltz[1] = n /\ FormAt(pltz) = "Archive"
      /\ \A x \in Paths : x[1] = n => x \in {plain, pltz}
  BY <1>1 DEF Paths, FormAt
<1>3. ASSUME NEW x \in Paths
      PROVE  d[x] # Absent /\ d[x].of = v <=> d[x] = [form |-> FormAt(x), of |-> v]
  <2>1. Absent \notin Contents /\ (d[x] # Absent => d[x] \in Contents /\ d[x].form = FormAt(x))
    BY CliAssumption
  <2>2. [form |-> FormAt(x), of |-> v] \in Contents
    BY DEF Contents, FormAt
  <2> QED BY <2>1, <2>2 DEF Contents
<1> QED BY <1>1, <1>2, <1>3

(* Everything the user counts on is there, but for files that a picture replaced. *)
AllOnDisk == \A n \in Names \ pictured : \A v \in kept[n] : OnDisk(n, v)

\* A process with nothing in memory relies on nothing.
LEMMA RestingRelies ==
  ASSUME NEW p \in Processes, proc[p].stage \notin InMemory
  PROVE  Relies(p)
BY DEF Relies, InMemory

\* The same after a step.
LEMMA RestingReliesThen ==
  ASSUME NEW p \in Processes, proc'[p].stage \notin InMemory
  PROVE  Relies(p)'
BY DEF Relies, InMemory

\* A step of the one process there is leaves the others to their rest.
LEMMA StepAlone ==
  ASSUME OneByOne, history \subseteq history', NEW p \in Processes, Active(proc[p]),
         "Overlap" \notin history' =>
           /\ \A q \in Processes : q # p => proc'[q] = proc[q]
           /\ Relies(p)' /\ AllOnDisk'
  PROVE  OneByOne'
<1> SUFFICES ASSUME "Overlap" \notin history'
             PROVE  Solo' /\ NeverLost' /\ \A q \in Processes : Relies(q)'
  BY DEF OneByOne
<1>1. Solo /\ AllOnDisk /\ \A q \in Processes : q # p => proc'[q] = proc[q]
  BY DEF OneByOne, NeverLost, AllOnDisk
<1>2. \A q \in Processes : q # p => ~Active(proc'[q])
  BY <1>1 DEF Solo
<1>3. Solo'
  BY <1>2 DEF Solo
<1>4. \A q \in Processes : q # p => Relies(q)'
  <2>1. \A q \in Processes : q # p => proc'[q].stage \notin InMemory
    BY <1>2 DEF Active, InMemory
  <2> QED BY <2>1, RestingReliesThen
<1> QED BY <1>3, <1>4 DEF NeverLost, AllOnDisk

\* A step that leaves the disk and the user's count alone loses nothing.
LEMMA QuietOnDisk ==
  ASSUME AllOnDisk, UNCHANGED <<disk, kept, pictured>>
  PROVE  AllOnDisk'
BY DEF AllOnDisk, OnDisk

\* Before the step the runs followed one another too.
LEMMA SoFarOneByOne ==
  ASSUME OneByOne, history \subseteq history', "Overlap" \notin history'
  PROVE  Solo /\ AllOnDisk /\ \A p \in Processes : Relies(p)
BY DEF OneByOne, NeverLost, AllOnDisk

\* Launch.
LEMMA LaunchOneByOne ==
  ASSUME TypeInv, OneByOne, NEW p \in Processes, Launch(p)
  PROVE  OneByOne'
<1> SUFFICES ASSUME "Overlap" \notin history'
             PROVE  Solo' /\ AllOnDisk' /\ \A q \in Processes : Relies(q)'
  BY DEF OneByOne, NeverLost, AllOnDisk
<1>1. PICK o \in Options, args \in ArgLists :
        /\ o.sink = "Svg" => \A i \in DOMAIN args : args[i] \in DOMAIN SvgOf
        /\ proc' = [proc EXCEPT ![p] = Launched(o, args)]
  BY DEF Launch, Launched
<1>2. history \subseteq history' /\ \A q \in Processes : ~Live(q)
  BY DEF Launch
<1>3. UNCHANGED <<disk, kept, pictured>>
  BY DEF Launch
<1>4. /\ proc'[p].stage = "Reading"
      /\ \A q \in Processes : q # p => proc'[q] = proc[q] /\ ~Active(proc'[q])
  BY <1>1, <1>2, OfTheRecord DEF Launched, TypeInv
<1>5. \A q \in Processes : proc'[q].stage \notin InMemory
  BY <1>4 DEF Active, InMemory
<1> QED BY <1>2, <1>3, <1>4, <1>5, SoFarOneByOne, QuietOnDisk, RestingReliesThen DEF Solo

\* Steps that end a file, or the process, without a change of the disk.
LEMMA EndOneByOne ==
  ASSUME OneByOne, history \subseteq history', NEW p \in Processes, Active(proc[p]),
         OnlyProcess(p), proc'[p].stage \notin InMemory, UNCHANGED <<disk, kept, pictured>>
  PROVE  OneByOne'
<1>1. Relies(p)'
  BY RestingReliesThen
<1>2. "Overlap" \notin history' => AllOnDisk'
  BY SoFarOneByOne, QuietOnDisk
<1> QED BY <1>1, <1>2, StepAlone DEF OnlyProcess

\* ReadInput.
LEMMA ReadInputOneByOne ==
  ASSUME TypeInv, OneByOne, NEW p \in Processes, ReadInput(p)
  PROVE  OneByOne'
<1>1. UNCHANGED <<disk, kept, runs, history, pictured>>
  BY DEF ReadInput
<1>2. PICK r \in RunType :
        /\ RunOK(r) /\ proc' = [proc EXCEPT ![p] = r]
        /\ r.opts = proc[p].opts /\ r.args = proc[p].args
        /\ \/ r.stage \in {"Exited", "Reading"}
           \/ /\ r.stage = "Made" /\ r.at = proc[p].at
              /\ disk[PathOf(proc[p])] # Absent
              /\ r.opts.sink = "File" => r.data.of = disk[PathOf(proc[p])].of
  BY ReadInputIs
<1>3. Active(proc[p]) /\ OnlyProcess(p) /\ proc'[p] = r
  BY <1>2, ReadInputIs, OneProcess DEF OnlyProcess
<1>4. CASE r.stage \in {"Exited", "Reading"}
  <2>1. r.stage \notin InMemory
    BY <1>4 DEF InMemory
  <2> QED BY <1>1, <1>3, <2>1, EndOneByOne
<1>5. CASE r.stage = "Made" /\ r.at = proc[p].at
  <2>1. PathOf(r) = PathOf(proc[p])
    BY <1>2, <1>5 DEF PathOf
  <2>2. r.opts.sink = "File" =>
          disk[PathOf(r)] # Absent /\ disk[PathOf(r)].of = r.data.of
    BY <1>2, <1>5, <2>1
  <2>3. Relies(p)'
    BY <1>1, <1>3, <1>5, <2>2 DEF Relies
  <2>4. "Overlap" \notin history' => AllOnDisk'
    BY <1>1, SoFarOneByOne, QuietOnDisk
  <2> QED BY <1>1, <1>3, <2>3, <2>4, StepAlone DEF OnlyProcess
<1> QED BY <1>2, <1>4, <1>5

\* CheckOutput.
LEMMA CheckOutputOneByOne ==
  ASSUME TypeInv, OneByOne, NEW p \in Processes, CheckOutput(p)
  PROVE  OneByOne'
<1>1. UNCHANGED <<disk, kept, runs, history, pictured>>
  BY DEF CheckOutput
<1>2. Active(proc[p]) /\ OnlyProcess(p)
  BY CheckOutputIs
<1>3. CASE Ended(proc[p], proc'[p])
  <2>1. proc'[p].stage \notin InMemory
    BY <1>3 DEF Ended, InMemory
  <2> QED BY <1>1, <1>2, <2>1, EndOneByOne
<1>4. CASE ~Ended(proc[p], proc'[p])
  <2>1. /\ proc[p].stage = "Made" /\ MovesTo(proc[p], proc'[p], "Checked")
        /\ PathOf(proc'[p]) = PathOf(proc[p]) /\ OutOf(proc'[p]) = OutOf(proc[p])
        /\ proc[p].opts.sink = "File" /\ ~proc[p].opts.force => disk[OutOf(proc[p])] = Absent
    BY <1>4, CheckOutputIs
  <2>2. ASSUME "Overlap" \notin history' PROVE Relies(p)'
    <3>1. Relies(p)
      BY <1>1, <2>2, SoFarOneByOne
    <3> QED BY <1>1, <2>1, <3>1 DEF Relies, MovesTo, InMemory
  <2>3. "Overlap" \notin history' => AllOnDisk'
    BY <1>1, SoFarOneByOne, QuietOnDisk
  <2> QED BY <1>1, <1>2, <2>2, <2>3, StepAlone DEF OnlyProcess
<1> QED BY <1>3, <1>4

\* OpenOutput: what it cuts was not there, was given up, or is still in the input.
LEMMA OpenOutputOneByOne ==
  ASSUME TypeInv, OneByOne, NEW p \in Processes, OpenOutput(p)
  PROVE  OneByOne'
<1>1. /\ proc[p].stage = "Checked" /\ Active(proc[p]) /\ OnlyProcess(p)
      /\ MovesTo(proc[p], proc'[p], "Open") /\ proc'[p].linked
      /\ PathOf(proc'[p]) = PathOf(proc[p]) /\ OutOf(proc'[p]) = OutOf(proc[p])
      /\ proc[p].opts.sink \in {"File", "Svg"} /\ proc[p].data \in Contents
  BY OpenOutputIs
<1>2. PICK r \in RunType, path \in Paths, out \in Paths :
        /\ r = proc[p] /\ path = PathOf(r) /\ out = OutOf(r) /\ out = Out(p)
        /\ out # path /\ out[1] \in Names
        /\ r.opts.sink # "Svg" => out[1] = path[1]
  BY <1>1, Places, OfTheRecord DEF TypeInv
<1>3. PICK c : c = [form |-> r.data.form, of |-> Cut]
  OBVIOUS
<1>4. disk' = [disk EXCEPT ![out] = c] /\ c \in Contents /\ c.of = Cut
  BY <1>1, <1>2, <1>3 DEF OpenOutput, Contents
<1>5. disk'[out] = c /\ c # Absent /\ \A x \in Paths : x # out => disk'[x] = disk[x]
  BY <1>4, CliAssumption DEF TypeInv
<1>6. history' = history
  BY DEF OpenOutput
<1>7. ASSUME "Overlap" \notin history' PROVE Relies(p)'
  <2>1. r.opts.sink = "File" => disk[path] # Absent /\ disk[path].of = r.data.of
    BY <1>1, <1>2, <1>6, <1>7, SoFarOneByOne DEF Relies, InMemory
  <2> QED BY <1>1, <1>2, <1>4, <1>5, <2>1 DEF Relies, MovesTo, InMemory
<1>8. ASSUME "Overlap" \notin history' PROVE AllOnDisk'
  <2>1. TypeInv'
    BY OpenOutputTypeInv
  <2>2. ASSUME NEW n \in Names \ pictured', NEW v \in kept'[n]
        PROVE  \E x \in Paths : x[1] = n /\ disk'[x] # Absent /\ disk'[x].of = v
    <3>1. n \notin pictured /\ v \in kept[n] /\ v \in Versions
      BY <2>1, <2>2 DEF OpenOutput, TypeInv
    <3>2. OnDisk(n, v)
      BY <1>6, <1>8, <2>2, <3>1, SoFarOneByOne DEF AllOnDisk
    <3>3. PICK x \in Paths : x[1] = n /\ disk[x] # Absent /\ disk[x].of = v
      BY <2>2, <3>1, <3>2, OnDiskAt DEF OnDisk, TypeInv
    <3>4. CASE x # out
      BY <1>5, <3>3, <3>4
    <3>5. CASE x = out
      <4>1. r.opts.sink # "Svg"
        BY <1>2, <2>2, <3>3, <3>5 DEF OpenOutput
      <4>2. r.opts.sink = "File" /\ Relies(p)
        BY <1>1, <1>2, <1>6, <1>8, <4>1, SoFarOneByOne
      <4>3. r.opts.force
        BY <1>1, <1>2, <3>3, <3>5, <4>2 DEF Relies
      <4>4. v = r.data.of
        <5>1. CASE disk[out].of # r.data.of
          <6>1. kept' = [kept EXCEPT ![out[1]] = kept[out[1]] \ {disk[out].of}]
            BY <1>2, <3>3, <3>5, <4>3, <5>1 DEF OpenOutput, TypeInv
          <6>2. v \notin kept'[n]
            BY <1>2, <3>3, <3>5, <6>1 DEF TypeInv
          <6> QED BY <2>2, <6>2
        <5> QED BY <3>3, <3>5, <5>1
      <4>5. disk[path] # Absent /\ disk[path].of = v
        BY <1>1, <1>2, <4>2, <4>4 DEF Relies, InMemory
      <4> QED BY <1>2, <1>5, <3>3, <3>5, <4>1, <4>5
    <3> QED BY <3>4, <3>5
  <2>3. ASSUME NEW n \in Names \ pictured', NEW v \in kept'[n] PROVE OnDisk(n, v)'
    <3>1. v \in Versions
      BY <2>1, <2>3 DEF TypeInv
    <3> QED BY <2>1, <2>2, <2>3, <3>1, OnDiskAt DEF OnDisk, TypeInv
  <2> QED BY <2>3 DEF AllOnDisk
<1> QED BY <1>1, <1>6, <1>7, <1>8, StepAlone DEF OnlyProcess

\* WriteOutput: the file it fills held nothing but what the process itself cut.
LEMMA WriteOutputOneByOne ==
  ASSUME TypeInv, OneByOne, NEW p \in Processes, WriteOutput(p)
  PROVE  OneByOne'
<1>1. /\ proc[p].stage = "Open" /\ Active(proc[p]) /\ OnlyProcess(p)
      /\ proc[p].data \in Contents
  BY WriteOutputIs
<1>2. PICK r \in RunType, path \in Paths, out \in Paths :
        /\ r = proc[p] /\ path = PathOf(r) /\ out = OutOf(r) /\ out = Out(p) /\ out # path
  BY <1>1, Places, OfTheRecord DEF TypeInv
<1>3. UNCHANGED <<kept, history, pictured>>
  BY DEF WriteOutput
<1>4. ASSUME "Overlap" \notin history'
      PROVE  /\ disk' = [disk EXCEPT ![out] = r.data]
             /\ disk[out] # Absent /\ disk[out].of = Cut
             /\ r.opts.sink = "File" => disk[path] # Absent /\ disk[path].of = r.data.of
  <2>1. Relies(p)
    BY <1>3, <1>4, SoFarOneByOne
  <2>2. r.linked
    BY <1>1, <1>2, <2>1 DEF Relies
  <2> QED BY <1>1, <1>2, <2>1, <2>2 DEF Relies, InMemory, WriteOutput
<1>5. Absent \notin Contents /\ Cut \notin Versions
  BY CliAssumption
<1>6. ASSUME "Overlap" \notin history' PROVE Relies(p)'
  <2>1. CASE Ended(proc[p], proc'[p])
    BY <2>1, RestingReliesThen DEF Ended, InMemory
  <2>2. CASE ~Ended(proc[p], proc'[p])
    <3>1. /\ MovesTo(r, proc'[p], "Written")
          /\ PathOf(proc'[p]) = path /\ OutOf(proc'[p]) = out
      BY <1>2, <2>2, WriteOutputIs
    <3>2. disk'[path] = disk[path] /\ disk'[out] = r.data
      BY <1>2, <1>4, <1>6 DEF TypeInv
    <3> QED BY <1>4, <1>6, <3>1, <3>2 DEF Relies, MovesTo
  <2> QED BY <2>1, <2>2
<1>7. ASSUME "Overlap" \notin history' PROVE AllOnDisk'
  <2>1. TypeInv'
    BY WriteOutputTypeInv
  <2>2. ASSUME NEW n \in Names \ pictured', NEW v \in kept'[n] PROVE OnDisk(n, v)'
    <3>1. v \in Versions /\ OnDisk(n, v)
      BY <1>3, <1>7, <2>2, SoFarOneByOne DEF AllOnDisk, TypeInv
    <3>2. PICK x \in Paths : x[1] = n /\ disk[x] # Absent /\ disk[x].of = v
      BY <2>2, <3>1, OnDiskAt DEF OnDisk, TypeInv
    <3>3. disk'[x] = disk[x]
      BY <1>4, <1>5, <1>7, <3>1, <3>2 DEF TypeInv
    <3> QED BY <2>1, <2>2, <3>1, <3>2, <3>3, OnDiskAt DEF OnDisk, TypeInv
  <2> QED BY <2>2 DEF AllOnDisk
<1> QED BY <1>1, <1>3, <1>6, <1>7, StepAlone DEF OnlyProcess

\* RemoveInput: the version it held is whole in the output.
LEMMA RemoveInputOneByOne ==
  ASSUME TypeInv, OneByOne, NEW p \in Processes, RemoveInput(p)
  PROVE  OneByOne'
<1>1. /\ proc[p].stage = "Written" /\ Active(proc[p]) /\ proc[p].opts.sink = "File"
      /\ Ended(proc[p], proc'[p])
      /\ \A q \in Processes :
           q # p => \/ proc'[q] = proc[q]
                    \/ proc[q].stage = "Open" /\ OutOf(proc[q]) = PathOf(proc[p])
  BY RemoveInputIs
<1>2. PICK r \in RunType, path \in Paths, out \in Paths :
        /\ r = proc[p] /\ path = PathOf(r) /\ out = OutOf(r) /\ path = Path(p)
        /\ out # path /\ out[1] = path[1]
  BY <1>1, Places, OfTheRecord DEF TypeInv
<1>3. UNCHANGED <<kept, history, pictured>> /\ disk' = [disk EXCEPT ![path] = Absent]
  BY <1>2 DEF RemoveInput
<1>4. Relies(p)'
  BY <1>1, RestingReliesThen DEF Ended, InMemory
<1>5. ASSUME "Overlap" \notin history' PROVE \A q \in Processes : q # p => proc'[q] = proc[q]
  <2>1. Solo
    BY <1>3, <1>5, SoFarOneByOne
  <2>2. \A q \in Processes : q # p => proc[q].stage # "Open"
    BY <1>1, <2>1 DEF Solo, Active
  <2> QED BY <1>1, <2>2
<1>6. ASSUME "Overlap" \notin history' PROVE AllOnDisk'
  <2>1. TypeInv'
    BY RemoveInputTypeInv
  <2>2. /\ disk[path] # Absent /\ disk[path].of = r.data.of
        /\ disk[out] = r.data /\ r.data \in Contents
    BY <1>1, <1>2, <1>3, <1>6, SoFarOneByOne DEF Relies, InMemory, TypeInv, RunOK
  <2>3. disk[out] # Absent
    BY <2>2, CliAssumption
  <2>4. ASSUME NEW n \in Names \ pictured', NEW v \in kept'[n] PROVE OnDisk(n, v)'
    <3>1. v \in Versions /\ OnDisk(n, v)
      BY <1>3, <1>6, <2>4, SoFarOneByOne DEF AllOnDisk, TypeInv
    <3>2. PICK x \in Paths : x[1] = n /\ disk[x] # Absent /\ disk[x].of = v
      BY <2>4, <3>1, OnDiskAt DEF OnDisk, TypeInv
    <3>3. PICK y \in Paths : y[1] = n /\ disk[y] # Absent /\ disk[y].of = v /\ y # path
      <4>1. CASE x # path
        BY <3>2, <4>1
      <4>2. CASE x = path
        BY <1>2, <2>2, <2>3, <3>2, <4>2
      <4> QED BY <4>1, <4>2
    <3>4. disk'[y] = disk[y]
      BY <1>3, <3>3 DEF TypeInv
    <3> QED BY <2>1, <2>4, <3>1, <3>3, <3>4, OnDiskAt DEF OnDisk, TypeInv
  <2> QED BY <2>4 DEF AllOnDisk
<1> QED BY <1>1, <1>3, <1>4, <1>5, <1>6, StepAlone

\* UserWrites: what it overwrites is given up, what is new is there.
LEMMA UserWritesKeeps ==
  ASSUME TypeInv, NEW n \in Names, UserWrites(n), NEW m \in Names, NEW w \in kept'[m],
         w \in kept[m] => OnDisk(m, w)
  PROVE  OnDisk(m, w)'
<1>1. PICK v \in Versions :
        /\ disk' = [disk EXCEPT ![<<n, "plain">>] = [form |-> "Plain", of |-> v]]
        /\ kept' = [kept EXCEPT ![n] =
                      (IF disk[<<n, "plain">>] = Absent THEN kept[n]
                       ELSE kept[n] \ {disk[<<n, "plain">>].of}) \union {v}]
  BY UserWritesIs
<1>2. PICK path : path = <<n, "plain">>
  OBVIOUS
<1>3. path \in Paths /\ path[1] = n
  BY <1>2 DEF Paths
<1>4. disk'[path] = [form |-> "Plain", of |-> v] /\ \A x \in Paths : x # path => disk'[x] = disk[x]
  BY <1>1, <1>2, <1>3 DEF TypeInv
<1>5. TypeInv'
  BY UserWritesTypeInv
<1>6. CASE m = n /\ w = v
  BY <1>2, <1>4, <1>6 DEF OnDisk
<1>7. CASE m # n \/ w # v
  <2>1. /\ w \in kept[m] /\ w \in Versions
        /\ m = n /\ disk[path] # Absent => w # disk[path].of
    BY <1>1, <1>2, <1>5, <1>7 DEF TypeInv
  <2>2. PICK x \in Paths : x[1] = m /\ disk[x] # Absent /\ disk[x].of = w
    BY <2>1, OnDiskAt DEF OnDisk, TypeInv
  <2>3. x # path
    BY <1>3, <2>1, <2>2
  <2> QED BY <1>4, <1>5, <2>1, <2>2, <2>3, OnDiskAt DEF OnDisk, TypeInv
<1> QED BY <1>6, <1>7

\* So the user loses nothing between runs.
LEMMA UserWritesOneByOne ==
  ASSUME TypeInv, OneByOne, NEW n \in Names, UserWrites(n)
  PROVE  OneByOne'
<1> SUFFICES ASSUME "Overlap" \notin history'
             PROVE  Solo' /\ AllOnDisk' /\ \A q \in Processes : Relies(q)'
  BY DEF OneByOne, NeverLost, AllOnDisk
<1>1. UNCHANGED <<proc, runs, history, pictured>> /\ \A q \in Processes : ~Active(proc[q])
  BY UserWritesIs
<1>2. ASSUME NEW m \in Names \ pictured', NEW w \in kept'[m] PROVE OnDisk(m, w)'
  <2>1. w \in kept[m] => OnDisk(m, w)
    BY <1>1, <1>2, SoFarOneByOne DEF AllOnDisk
  <2> QED BY <1>2, <2>1, UserWritesKeeps
<1>3. \A q \in Processes : proc'[q].stage \notin InMemory
  BY <1>1 DEF Active, InMemory
<1> QED BY <1>1, <1>2, <1>3, RestingReliesThen DEF Solo, AllOnDisk

\* Whatever happens, runs that follow one another lose nothing.
LEMMA NextOneByOne ==
  ASSUME TypeInv, OneByOne, [Next]_vars
  PROVE  OneByOne'
<1>1. CASE UNCHANGED vars
  BY <1>1 DEF vars, OneByOne, NeverLost, OnDisk, Solo, Relies
<1>2. ASSUME NEW p \in Processes, WriteStdout(p) \/ WriteFails(p) \/ Crash(p)
      PROVE  OneByOne'
  <2>1. UNCHANGED <<disk, kept, pictured>> /\ history \subseteq history'
    BY <1>2 DEF WriteStdout, WriteFails, Crash
  <2>2. Active(proc[p]) /\ OnlyProcess(p)
    BY <1>2, WriteStdoutIs, WriteFailsIs, CrashIs, OfTheRecord DEF Crash
  <2>3. proc'[p].stage \notin InMemory
    BY <1>2, WriteStdoutIs, WriteFailsIs, CrashIs DEF Ended, InMemory
  <2> QED BY <2>1, <2>2, <2>3, EndOneByOne
<1> QED BY <1>1, <1>2, LaunchOneByOne, ReadInputOneByOne, CheckOutputOneByOne, OpenOutputOneByOne,
           WriteOutputOneByOne, RemoveInputOneByOne, UserWritesOneByOne DEF Next, Step

-----------------------------------------------------------------------------
(* Compressors that overlap *)

OnlyOverlap == history \subseteq {"Overlap"}

(* Everything the user counts on is on the disk, or about to be. *)
NoneLost ==
  \A n \in Names : \A v \in kept[n] : OnDisk(n, v) \/ \E q \in Processes : Holds(q, n, v)

(* Every process that is there is a compressor that can rely on what it relies on. *)
AllShare == \A p \in Processes : Active(proc[p]) => Compressing(proc[p]) /\ SharesWith(p)

\* The invariant, by its parts.
LEMMA SideBySideIs == SideBySide <=> (OnlyOverlap => NoneLost /\ AllShare)
BY DEF SideBySide, OnlyOverlap, NoneLost, AllShare, CompressorsNeverLose, Holds, Path, PathOf

\* And after a step.
LEMMA SideBySideThen == SideBySide' <=> (OnlyOverlap' => NoneLost' /\ AllShare')
BY DEF SideBySide, OnlyOverlap, NoneLost, AllShare, CompressorsNeverLose, Holds, Path, PathOf

\* A compressor reads n and writes n.pltz.
LEMMA CompressorPlaces ==
  ASSUME NEW r \in RunType, RunOK(r), Active(r), Compressing(r)
  PROVE  \E n \in Names : /\ PathOf(r) = <<n, "plain">> /\ PathOf(r)[1] = n
                          /\ OutputPath(PathOf(r)) = <<n, "pltz">> /\ OutOf(r) = <<n, "pltz">>
<1>1. PICK path \in Paths : path = PathOf(r)
  BY Places
<1>2. PICK n \in Names, suffix \in {"plain", "pltz"} : path = <<n, suffix>>
  BY DEF Paths
<1>3. suffix = "plain"
  <2>1. ~Decompressing(r.opts, path)
    BY <1>1 DEF Compressing, RunOK, PathOf
  <2> QED BY <1>2, <2>1 DEF Decompressing
<1>4. OutOf(r) = OutputPath(path)
  BY <1>1 DEF Compressing, OutOf
<1> QED BY <1>1, <1>2, <1>3, <1>4 DEF OutputPath

\* A process with the same command line is a compressor too.
LEMMA SameCompressing ==
  ASSUME NEW r, NEW t, t.opts = r.opts, t.args = r.args, Compressing(r)
  PROVE  Compressing(t)
BY DEF Compressing

\* A process with nothing in memory shares nothing.
LEMMA RestingShares ==
  ASSUME NEW p \in Processes, proc'[p].stage \notin InMemory
  PROVE  SharesWith(p)'
BY DEF SharesWith, InMemory

\* A step that leaves the disk alone, of a process that is not writing, disturbs no one.
LEMMA QuietSideBySide ==
  ASSUME SideBySide, history \subseteq history', NEW p \in Processes, OnlyProcess(p),
         proc[p].stage # "Open", UNCHANGED <<disk, kept>>,
         OnlyOverlap' /\ Active(proc'[p]) => Compressing(proc'[p]) /\ SharesWith(p)'
  PROVE  SideBySide'
<1> SUFFICES ASSUME OnlyOverlap' PROVE NoneLost' /\ AllShare'
  BY SideBySideThen
<1>1. NoneLost /\ AllShare
  BY SideBySideIs DEF OnlyOverlap
<1>2. \A q \in Processes : q # p => proc'[q] = proc[q]
  BY DEF OnlyProcess
<1>3. ASSUME NEW q \in Processes, NEW n, NEW v, Holds(q, n, v) PROVE Holds(q, n, v)'
  <2>1. q # p
    BY <1>3 DEF Holds
  <2> QED BY <1>2, <1>3, <2>1 DEF Holds
<1>4. NoneLost'
  BY <1>1, <1>3 DEF NoneLost, OnDisk
<1>5. ASSUME NEW q \in Processes, Active(proc'[q])
      PROVE  Compressing(proc'[q]) /\ SharesWith(q)'
  <2>1. CASE q = p
    BY <1>5, <2>1
  <2>2. CASE q # p
    <3>1. proc'[q] = proc[q] /\ Compressing(proc[q]) /\ SharesWith(q)
      BY <1>1, <1>2, <1>5, <2>2 DEF AllShare
    <3> QED BY <1>3, <3>1 DEF SharesWith
  <2> QED BY <2>1, <2>2
<1> QED BY <1>4, <1>5 DEF AllShare

\* Launch.
LEMMA LaunchSideBySide ==
  ASSUME TypeInv, SideBySide, NEW p \in Processes, Launch(p)
  PROVE  SideBySide'
<1>1. PICK o \in Options, args \in ArgLists :
        /\ o.sink = "Svg" => \A i \in DOMAIN args : args[i] \in DOMAIN SvgOf
        /\ proc' = [proc EXCEPT ![p] = Launched(o, args)]
        /\ history' = history
             \union (IF \E q \in Processes : Live(q) THEN {"Overlap"} ELSE {})
             \union (IF o.force THEN {"Force"} ELSE {})
             \union (IF o.sink = "Svg" THEN {"Visualize"} ELSE {})
             \union (IF \E i \in DOMAIN args : Decompressing(o, args[i])
                     THEN {"Decompress"} ELSE {})
  BY DEF Launch, Launched
<1>2. /\ UNCHANGED <<disk, kept, pictured>> /\ history \subseteq history' /\ ~Active(proc[p])
  BY OfTheRecord DEF Launch
<1>3. OnlyProcess(p) /\ proc'[p] = Launched(o, args)
  BY <1>1, LaunchedOK, OneProcess DEF OnlyProcess
<1>4. ASSUME OnlyOverlap' PROVE Compressing(proc'[p]) /\ SharesWith(p)'
  <2>1. "Force" \notin history' /\ "Visualize" \notin history' /\ "Decompress" \notin history'
    BY <1>4 DEF OnlyOverlap
  <2>2. ~o.force /\ o.sink # "Svg" /\ \A i \in DOMAIN args : ~Decompressing(o, args[i])
    BY <1>1, <2>1
  <2>3. /\ proc'[p].opts = o /\ proc'[p].args = args
        /\ proc'[p].stage = "Reading"
    BY <1>3 DEF Launched
  <2>4. Compressing(proc'[p])
    BY <2>2, <2>3 DEF Compressing
  <2> QED BY <2>3, <2>4, RestingShares DEF InMemory
<1>5. proc[p].stage # "Open"
  BY <1>2 DEF Active
<1> QED BY <1>2, <1>3, <1>4, <1>5, QuietSideBySide

\* Steps that end a file without a change of the disk, of a process that is not writing.
LEMMA EndSideBySide ==
  ASSUME SideBySide, history \subseteq history', NEW p \in Processes, OnlyProcess(p),
         Active(proc[p]), proc[p].stage # "Open", UNCHANGED <<disk, kept>>,
         Ended(proc[p], proc'[p])
  PROVE  SideBySide'
<1>1. ASSUME OnlyOverlap' PROVE Compressing(proc'[p]) /\ SharesWith(p)'
  <2>1. Compressing(proc[p])
    BY <1>1, SideBySideIs DEF OnlyOverlap, AllShare
  <2>2. Compressing(proc'[p])
    BY <2>1, SameCompressing DEF Ended
  <2> QED BY <2>2, RestingShares DEF Ended, InMemory
<1> QED BY <1>1, QuietSideBySide

\* ReadInput.
LEMMA ReadInputSideBySide ==
  ASSUME TypeInv, SideBySide, NEW p \in Processes, ReadInput(p)
  PROVE  SideBySide'
<1>1. UNCHANGED <<disk, kept, runs, history, pictured>> /\ proc[p].stage = "Reading"
  BY DEF ReadInput
<1>2. PICK r \in RunType :
        /\ RunOK(r) /\ proc' = [proc EXCEPT ![p] = r]
        /\ r.opts = proc[p].opts /\ r.args = proc[p].args
        /\ \/ r.stage \in {"Exited", "Reading"}
           \/ /\ r.stage = "Made" /\ r.at = proc[p].at
              /\ disk[PathOf(proc[p])] # Absent
              /\ r.opts.sink = "File" => r.data.of = disk[PathOf(proc[p])].of
  BY ReadInputIs
<1>3. Active(proc[p]) /\ OnlyProcess(p) /\ proc'[p] = r
  BY <1>2, ReadInputIs, OneProcess DEF OnlyProcess
<1>4. CASE r.stage \in {"Exited", "Reading"}
  BY <1>1, <1>2, <1>3, <1>4, EndSideBySide DEF Ended
<1>5. CASE r.stage = "Made" /\ r.at = proc[p].at
  <2>1. ASSUME OnlyOverlap' PROVE Compressing(proc'[p]) /\ SharesWith(p)'
    <3>1. Compressing(proc[p])
      BY <1>1, <1>3, <2>1, SideBySideIs DEF OnlyOverlap, AllShare
    <3>2. Compressing(r)
      BY <1>2, <3>1, SameCompressing
    <3>3. PICK n \in Names : PathOf(r) = <<n, "plain">>
      BY <1>2, <1>5, <3>2, CompressorPlaces DEF Active
    <3>4. PICK path : path = PathOf(r)
      OBVIOUS
    <3>5. path \in Paths /\ FormAt(path) = "Plain" /\ path = PathOf(proc[p])
      BY <1>2, <1>5, <3>3, <3>4 DEF Paths, FormAt, PathOf
    <3>6. ASSUME r.opts.sink = "File"
          PROVE  disk[path] = [form |-> "Plain", of |-> r.data.of]
      <4>1. disk[path] # Absent /\ disk[path] \in Contents /\ disk[path].form = "Plain"
        BY <1>2, <1>5, <3>5 DEF TypeInv
      <4>2. disk[path].of = r.data.of
        BY <1>2, <1>5, <3>5, <3>6
      <4> QED BY <4>1, <4>2 DEF Contents
    <3>7. SharesWith(p)'
      BY <1>1, <1>3, <1>5, <3>4, <3>6 DEF SharesWith
    <3> QED BY <1>3, <3>2, <3>7
  <2> QED BY <1>1, <1>3, <2>1, QuietSideBySide
<1> QED BY <1>2, <1>4, <1>5

\* CheckOutput: who finds no output knows what the user counts on.
LEMMA CheckOutputSideBySide ==
  ASSUME TypeInv, SideBySide, NEW p \in Processes, CheckOutput(p)
  PROVE  SideBySide'
<1>1. UNCHANGED <<disk, kept, runs, history, pictured>> /\ proc[p].stage = "Made"
  BY DEF CheckOutput
<1>2. Active(proc[p]) /\ OnlyProcess(p)
  BY CheckOutputIs
<1>3. CASE Ended(proc[p], proc'[p])
  BY <1>1, <1>2, <1>3, EndSideBySide
<1>4. CASE ~Ended(proc[p], proc'[p])
  <2>1. /\ MovesTo(proc[p], proc'[p], "Checked")
        /\ PathOf(proc'[p]) = PathOf(proc[p]) /\ OutOf(proc'[p]) = OutOf(proc[p])
        /\ proc[p].opts.sink \in {"File", "Svg"}
        /\ proc[p].opts.sink = "File" /\ ~proc[p].opts.force => disk[OutOf(proc[p])] = Absent
    BY <1>4, CheckOutputIs
  <2>2. ASSUME OnlyOverlap' PROVE Compressing(proc'[p]) /\ SharesWith(p)'
    <3>1. NoneLost /\ AllShare
      BY <1>1, <2>2, SideBySideIs DEF OnlyOverlap
    <3>2. PICK r \in RunType : /\ r = proc[p] /\ RunOK(r) /\ Compressing(r) /\ SharesWith(p)
      BY <1>2, <3>1 DEF AllShare, TypeInv
    <3>3. PICK n \in Names : /\ PathOf(r) = <<n, "plain">> /\ PathOf(r)[1] = n
                             /\ OutputPath(PathOf(r)) = <<n, "pltz">> /\ OutOf(r) = <<n, "pltz">>
      BY <1>2, <3>2, CompressorPlaces
    <3>4. PICK path, out : path = <<n, "plain">> /\ out = <<n, "pltz">>
      OBVIOUS
    <3>5. r.opts.sink = "File" /\ disk[out] = Absent
      BY <2>1, <3>2, <3>3, <3>4 DEF Compressing
    <3>6. disk[path] \in {Absent, [form |-> "Plain", of |-> r.data.of]}
      BY <1>1, <3>2, <3>3, <3>4, <3>5 DEF SharesWith, InMemory
    <3>7. ASSUME NEW v \in kept[n] PROVE v = r.data.of
      <4>1. v \in Versions
        BY DEF TypeInv
      <4>2. [form |-> "Plain", of |-> v] \in Contents /\ [form |-> "Archive", of |-> v] \in Contents
        BY <4>1 DEF Contents
      <4>3. OnDisk(n, v) \/ \E q \in Processes : Holds(q, n, v)
        BY <3>1 DEF NoneLost
      <4>4. CASE OnDisk(n, v)
        <5>1. disk[path] = [form |-> "Plain", of |-> v]
          BY <3>4, <3>5, <4>2, <4>4, CliAssumption DEF OnDisk
        <5>2. [form |-> "Plain", of |-> v] = [form |-> "Plain", of |-> r.data.of]
          BY <3>6, <4>2, <5>1, CliAssumption
        <5> QED BY <5>2
      <4>5. ASSUME NEW q \in Processes, Holds(q, n, v) PROVE FALSE
        <5>1. /\ proc[q].stage = "Open" /\ PathOf(proc[q]) = path
              /\ Active(proc[q])
          BY <3>4, <4>5 DEF Holds, Active
        <5>2. OutputPath(path) = out
          BY <3>3, <3>4
        <5>3. disk[out] # Absent
          BY <3>1, <5>1, <5>2 DEF AllShare, SharesWith
        <5> QED BY <3>5, <5>3
      <4> QED BY <4>3, <4>4, <4>5
    <3>8. /\ proc'[p].stage = "Checked" /\ proc'[p].data = r.data /\ proc'[p].opts = r.opts
          /\ proc'[p].args = r.args /\ PathOf(proc'[p]) = path /\ path[1] = n
      BY <2>1, <3>2, <3>3, <3>4 DEF MovesTo
    <3>9. SharesWith(p)'
      BY <1>1, <3>6, <3>7, <3>8 DEF SharesWith
    <3> QED BY <3>2, <3>8, <3>9, SameCompressing
  <2> QED BY <1>1, <1>2, <2>2, QuietSideBySide
<1> QED BY <1>3, <1>4

\* A compressor, its name and its two paths.
LEMMA CompressorIs ==
  ASSUME TypeInv, SideBySide, OnlyOverlap, NEW p \in Processes, Active(proc[p])
  PROVE  /\ NoneLost /\ AllShare
         /\ Compressing(proc[p]) /\ SharesWith(p)
         /\ \E n \in Names : /\ PathOf(proc[p]) = <<n, "plain">> /\ PathOf(proc[p])[1] = n
                             /\ OutputPath(PathOf(proc[p])) = <<n, "pltz">>
                             /\ OutOf(proc[p]) = <<n, "pltz">>
<1>1. NoneLost /\ AllShare
  BY SideBySideIs
<1>2. Compressing(proc[p]) /\ SharesWith(p)
  BY <1>1 DEF AllShare
<1>3. proc[p] \in RunType /\ RunOK(proc[p])
  BY DEF TypeInv
<1> QED BY <1>1, <1>2, <1>3, CompressorPlaces

\* A step of compressor p that touches no file but its output, after which the output
\* holds what the user counts on or p still has it.
LEMMA WriterSideBySide ==
  ASSUME TypeInv, SideBySide, OnlyOverlap, UNCHANGED <<kept, history>>,
         NEW p \in Processes, Active(proc[p]), OnlyProcess(p),
         NEW n \in Names, NEW out \in Paths, PathOf(proc[p]) = <<n, "plain">>,
         out = <<n, "pltz">>,
         \A x \in Paths : x # out => disk'[x] = disk[x],
         disk'[out] # Absent,
         \A v \in kept[n] : disk'[out] = [form |-> "Archive", of |-> v] \/ Holds(p, n, v)',
         Active(proc'[p]) => Compressing(proc'[p]) /\ SharesWith(p)'
  PROVE  SideBySide'
<1>1. NoneLost /\ AllShare
  BY SideBySideIs
<1>2. \A q \in Processes : q # p => proc'[q] = proc[q]
  BY DEF OnlyProcess
<1>3. ASSUME NEW q \in Processes, NEW m, NEW v \in kept[m], Holds(q, m, v)
      PROVE  \/ m = n /\ disk'[out] = [form |-> "Archive", of |-> v]
             \/ \E t \in Processes : Holds(t, m, v)'
  <2>1. CASE q # p
    <3>1. Holds(q, m, v)'
      BY <1>2, <1>3, <2>1 DEF Holds
    <3> QED BY <3>1
  <2>2. CASE q = p
    <3>1. <<m, "plain">> = <<n, "plain">>
      BY <1>3, <2>2 DEF Holds
    <3>2. m = n
      BY <3>1
    <3> QED BY <3>2
  <2> QED BY <2>1, <2>2
<1>4. NoneLost'
  <2>1. ASSUME NEW m \in Names, NEW v \in kept[m]
        PROVE  OnDisk(m, v)' \/ \E q \in Processes : Holds(q, m, v)'
    <3>1. CASE m = n
      BY <2>1, <3>1 DEF OnDisk
    <3>2. CASE m # n
      <4>1. <<m, "plain">> \in Paths /\ <<m, "pltz">> \in Paths
        BY DEF Paths
      <4>2. <<m, "plain">> # out /\ <<m, "pltz">> # out
        BY <3>2
      <4>3. CASE OnDisk(m, v)
        BY <4>1, <4>2, <4>3 DEF OnDisk
      <4>4. CASE ~OnDisk(m, v)
        <5>1. PICK q \in Processes : Holds(q, m, v)
          BY <1>1, <4>4 DEF NoneLost
        <5> QED BY <1>3, <3>2, <5>1
      <4> QED BY <4>3, <4>4
    <3> QED BY <3>1, <3>2
  <2> QED BY <2>1 DEF NoneLost
<1>5. ASSUME NEW q \in Processes, q # p, Active(proc'[q])
      PROVE  Compressing(proc'[q]) /\ SharesWith(q)'
  <2>1. proc'[q] = proc[q] /\ Compressing(proc[q]) /\ SharesWith(q) /\ Active(proc[q])
    BY <1>1, <1>2, <1>5 DEF AllShare
  <2>2. PICK m \in Names, path \in Paths, dest \in Paths :
          /\ PathOf(proc[q]) = path /\ path = <<m, "plain">> /\ path[1] = m
          /\ OutputPath(path) = dest /\ dest = <<m, "pltz">>
    <3>1. PICK m \in Names : /\ PathOf(proc[q]) = <<m, "plain">> /\ PathOf(proc[q])[1] = m
                             /\ OutputPath(PathOf(proc[q])) = <<m, "pltz">>
      BY <2>1, CompressorIs
    <3>2. <<m, "plain">> \in Paths /\ <<m, "pltz">> \in Paths
      BY DEF Paths
    <3> QED BY <3>1, <3>2
  <2>3. path # out
    BY <2>2
  <2>4. disk'[path] = disk[path]
    BY <2>3
  <2>5. dest = out \/ disk'[dest] = disk[dest]
    OBVIOUS
  <2>6. m = n <=> dest = out
    BY <2>2
  <2>7. ASSUME proc[q].stage = "Written", NEW v \in kept[m]
        PROVE  \/ disk'[dest] = [form |-> "Archive", of |-> v]
               \/ \E t \in Processes : Holds(t, m, v)'
    <3>1. CASE m = n
      BY <2>6, <2>7, <3>1
    <3>2. CASE m # n
      <4>1. \/ disk[dest] = [form |-> "Archive", of |-> v]
            \/ \E t \in Processes : Holds(t, m, v)
        BY <2>1, <2>2, <2>7 DEF SharesWith
      <4> QED BY <1>3, <2>5, <2>6, <3>2, <4>1
    <3> QED BY <3>1, <3>2
  <2>8. SharesWith(q)'
    BY <2>1, <2>2, <2>4, <2>5, <2>7 DEF SharesWith
  <2> QED BY <2>1, <2>8
<1>6. AllShare'
  BY <1>5 DEF AllShare
<1> QED BY <1>4, <1>6, SideBySideThen

\* OpenOutput: the compressor that cuts an output has what the user counts on.
LEMMA OpenOutputSideBySide ==
  ASSUME TypeInv, SideBySide, NEW p \in Processes, OpenOutput(p)
  PROVE  SideBySide'
<1>1. /\ proc[p].stage = "Checked" /\ Active(proc[p]) /\ OnlyProcess(p)
      /\ MovesTo(proc[p], proc'[p], "Open") /\ proc'[p].linked
      /\ PathOf(proc'[p]) = PathOf(proc[p]) /\ OutOf(proc'[p]) = OutOf(proc[p])
      /\ proc[p].data \in Contents
  BY OpenOutputIs
<1>2. history' = history
  BY DEF OpenOutput
<1> SUFFICES ASSUME OnlyOverlap PROVE SideBySide'
  BY <1>2, SideBySideThen DEF OnlyOverlap
<1>3. /\ Compressing(proc[p]) /\ SharesWith(p)
  BY <1>1, CompressorIs
<1>4. PICK n \in Names : /\ PathOf(proc[p]) = <<n, "plain">> /\ PathOf(proc[p])[1] = n
                         /\ OutputPath(PathOf(proc[p])) = <<n, "pltz">>
                         /\ OutOf(proc[p]) = <<n, "pltz">>
  BY <1>1, CompressorIs
<1>5. PICK path \in Paths, out \in Paths : path = <<n, "plain">> /\ out = <<n, "pltz">>
  BY DEF Paths
<1>6. path # out /\ path[1] = n
  BY <1>5
<1>7. PICK c : c = [form |-> proc[p].data.form, of |-> Cut]
  OBVIOUS
<1>8. disk' = [disk EXCEPT ![out] = c] /\ c # Absent
  <2>1. c \in Contents
    BY <1>1, <1>7 DEF Contents
  <2>2. Out(p) = out
    BY <1>4, <1>5, OfTheRecord
  <2> QED BY <1>7, <2>1, <2>2, CliAssumption DEF OpenOutput
<1>9. disk'[out] = c /\ \A x \in Paths : x # out => disk'[x] = disk[x]
  BY <1>8 DEF TypeInv
<1>10. kept' = kept
  BY <1>3 DEF OpenOutput, Compressing
<1>11. kept[n] \subseteq {proc[p].data.of}
  BY <1>1, <1>3, <1>4 DEF SharesWith
<1>12. \A v \in kept[n] : Holds(p, n, v)'
  BY <1>1, <1>4, <1>11 DEF Holds, MovesTo
<1>13. Compressing(proc'[p])
  BY <1>1, <1>3, SameCompressing DEF MovesTo
<1>14. proc[p].opts.sink = "File" =>
         disk[path] \in {Absent, [form |-> "Plain", of |-> proc[p].data.of]}
  BY <1>1, <1>3, <1>4, <1>5 DEF SharesWith, InMemory
<1>15. SharesWith(p)'
  <2>1. /\ PathOf(proc'[p]) = path /\ OutputPath(path) = out /\ proc'[p].data = proc[p].data
        /\ proc'[p].opts = proc[p].opts /\ proc'[p].stage = "Open" /\ proc'[p].linked
    BY <1>1, <1>4, <1>5 DEF MovesTo
  <2>2. disk'[path] = disk[path] /\ disk'[out] # Absent
    BY <1>6, <1>8, <1>9
  <2> QED BY <1>6, <1>10, <1>11, <1>14, <2>1, <2>2 DEF SharesWith
<1> QED BY <1>1, <1>2, <1>4, <1>5, <1>8, <1>9, <1>10, <1>12, <1>13, <1>15, WriterSideBySide

\* WriteOutput: then the output has it.
LEMMA WriteOutputSideBySide ==
  ASSUME TypeInv, SideBySide, NEW p \in Processes, WriteOutput(p)
  PROVE  SideBySide'
<1>1. /\ proc[p].stage = "Open" /\ Active(proc[p]) /\ OnlyProcess(p)
      /\ proc[p].data \in Contents /\ proc[p].data.form = FormAt(OutOf(proc[p]))
  BY WriteOutputIs
<1>2. UNCHANGED <<kept, history, pictured>>
  BY DEF WriteOutput
<1> SUFFICES ASSUME OnlyOverlap PROVE SideBySide'
  BY <1>2, SideBySideThen DEF OnlyOverlap
<1>3. /\ Compressing(proc[p]) /\ SharesWith(p)
  BY <1>1, CompressorIs
<1>4. PICK n \in Names : /\ PathOf(proc[p]) = <<n, "plain">> /\ PathOf(proc[p])[1] = n
                         /\ OutputPath(PathOf(proc[p])) = <<n, "pltz">>
                         /\ OutOf(proc[p]) = <<n, "pltz">>
  BY <1>1, CompressorIs
<1>5. PICK path \in Paths, out \in Paths : path = <<n, "plain">> /\ out = <<n, "pltz">>
  BY DEF Paths
<1>6. path # out /\ path[1] = n /\ FormAt(out) = "Archive"
  BY <1>5 DEF FormAt
<1>7. PICK bytes \in Contents : bytes = proc[p].data
  BY <1>1
<1>8. disk' = [disk EXCEPT ![out] = bytes]
  BY <1>1, <1>3, <1>4, <1>5, <1>7, OfTheRecord DEF WriteOutput, SharesWith
<1>9. disk'[out] = bytes /\ bytes # Absent /\ \A x \in Paths : x # out => disk'[x] = disk[x]
  BY <1>8, CliAssumption DEF TypeInv
<1>10. bytes = [form |-> "Archive", of |-> bytes.of]
  BY <1>1, <1>4, <1>5, <1>6, <1>7 DEF Contents
<1>11. kept[n] \subseteq {bytes.of}
  BY <1>1, <1>3, <1>4, <1>7 DEF SharesWith
<1>12. \A v \in kept[n] : disk'[out] = [form |-> "Archive", of |-> v]
  BY <1>9, <1>10, <1>11
<1>13. ASSUME Active(proc'[p]) PROVE Compressing(proc'[p]) /\ SharesWith(p)'
  <2>1. CASE Ended(proc[p], proc'[p])
    BY <1>3, <2>1, SameCompressing, RestingShares DEF Ended, InMemory
  <2>2. CASE ~Ended(proc[p], proc'[p])
    <3>1. /\ MovesTo(proc[p], proc'[p], "Written") /\ PathOf(proc'[p]) = PathOf(proc[p])
      BY <2>2, WriteOutputIs
    <3>2. /\ PathOf(proc'[p]) = path /\ OutputPath(path) = out /\ proc'[p].data = bytes
          /\ proc'[p].opts = proc[p].opts /\ proc'[p].args = proc[p].args
          /\ proc'[p].stage = "Written"
      BY <1>4, <1>5, <1>7, <3>1 DEF MovesTo
    <3>3. proc[p].opts.sink = "File" => disk[path] \in {Absent, [form |-> "Plain", of |-> bytes.of]}
      BY <1>1, <1>3, <1>4, <1>5, <1>7 DEF SharesWith, InMemory
    <3>4. disk'[path] = disk[path]
      BY <1>6, <1>9
    <3>5. SharesWith(p)'
      BY <1>2, <1>6, <1>9, <1>11, <1>12, <3>2, <3>3, <3>4 DEF SharesWith
    <3> QED BY <1>3, <3>2, <3>5, SameCompressing
  <2> QED BY <2>1, <2>2
<1> QED BY <1>1, <1>2, <1>4, <1>5, <1>9, <1>12, <1>13, WriterSideBySide

\* RemoveInput: what it held is in the output, or another compressor has it.
LEMMA RemoveInputSideBySide ==
  ASSUME TypeInv, SideBySide, NEW p \in Processes, RemoveInput(p)
  PROVE  SideBySide'
<1>1. /\ proc[p].stage = "Written" /\ Active(proc[p]) /\ proc[p].opts.sink = "File"
      /\ Ended(proc[p], proc'[p])
      /\ \A q \in Processes :
           q # p => \/ proc'[q] = proc[q]
                    \/ proc[q].stage = "Open" /\ OutOf(proc[q]) = PathOf(proc[p])
  BY RemoveInputIs
<1>2. UNCHANGED <<kept, history, pictured>>
  BY DEF RemoveInput
<1> SUFFICES ASSUME OnlyOverlap PROVE NoneLost' /\ AllShare'
  BY <1>2, SideBySideThen DEF OnlyOverlap
<1>3. NoneLost /\ AllShare /\ Compressing(proc[p]) /\ SharesWith(p)
  BY <1>1, CompressorIs
<1>4. PICK n \in Names : /\ PathOf(proc[p]) = <<n, "plain">> /\ PathOf(proc[p])[1] = n
                         /\ OutputPath(PathOf(proc[p])) = <<n, "pltz">>
  BY <1>1, CompressorIs
<1>5. PICK path \in Paths, out \in Paths : path = <<n, "plain">> /\ out = <<n, "pltz">>
  BY DEF Paths
<1>6. disk' = [disk EXCEPT ![path] = Absent]
  BY <1>4, <1>5, OfTheRecord DEF RemoveInput
<1>7. disk'[path] = Absent /\ \A x \in Paths : x # path => disk'[x] = disk[x]
  BY <1>6 DEF TypeInv
<1>8. ASSUME NEW q \in Processes, q # p PROVE proc'[q] = proc[q]
  <2>1. CASE proc[q].stage = "Open"
    <3>1. PICK m \in Names : OutOf(proc[q]) = <<m, "pltz">>
      BY <2>1, CompressorIs DEF Active
    <3>2. OutOf(proc[q]) # PathOf(proc[p])
      BY <1>4, <3>1
    <3> QED BY <1>1, <1>8, <3>2
  <2>2. CASE proc[q].stage # "Open"
    BY <1>1, <1>8, <2>2
  <2> QED BY <2>1, <2>2
<1>9. ASSUME NEW q \in Processes, NEW m, NEW v, Holds(q, m, v) PROVE Holds(q, m, v)'
  <2>1. q # p
    BY <1>1, <1>9 DEF Holds
  <2> QED BY <1>8, <1>9, <2>1 DEF Holds
<1>10. \A m \in Names : /\ <<m, "plain">> \in Paths /\ <<m, "pltz">> \in Paths
                        /\ <<m, "pltz">> # path
                        /\ m # n => <<m, "plain">> # path
  BY <1>5 DEF Paths
<1>11. ASSUME NEW m \in Names, NEW v \in kept[m]
       PROVE  OnDisk(m, v)' \/ \E q \in Processes : Holds(q, m, v)'
  <2>1. CASE m = n
    <3>1. disk[out] = [form |-> "Archive", of |-> v] \/ \E q \in Processes : Holds(q, n, v)
      BY <1>1, <1>3, <1>4, <1>5, <2>1 DEF SharesWith
    <3>2. disk'[out] = disk[out]
      BY <1>5, <1>7
    <3> QED BY <1>5, <1>9, <2>1, <3>1, <3>2 DEF OnDisk
  <2>2. CASE m # n
    <3>1. OnDisk(m, v) => OnDisk(m, v)'
      BY <1>7, <1>10, <2>2 DEF OnDisk
    <3>2. OnDisk(m, v) \/ \E q \in Processes : Holds(q, m, v)
      BY <1>3 DEF NoneLost
    <3> QED BY <1>9, <3>1, <3>2
  <2> QED BY <2>1, <2>2
<1>12. NoneLost'
  BY <1>2, <1>11 DEF NoneLost
<1>13. ASSUME NEW q \in Processes, Active(proc'[q])
       PROVE  Compressing(proc'[q]) /\ SharesWith(q)'
  <2>1. CASE q = p
    BY <1>1, <1>3, <2>1, SameCompressing, RestingShares DEF Ended, InMemory
  <2>2. CASE q # p
    <3>1. /\ proc'[q] = proc[q] /\ Active(proc[q])
          /\ Compressing(proc[q]) /\ SharesWith(q)
      BY <1>3, <1>8, <1>13, <2>2 DEF AllShare
    <3>2. PICK m \in Names, x \in Paths, dest \in Paths :
            /\ PathOf(proc[q]) = x /\ x[1] = m /\ OutputPath(x) = dest /\ dest = <<m, "pltz">>
      BY <1>10, <3>1, CompressorIs DEF Paths
    <3>3. disk'[x] \in {Absent, disk[x]} /\ disk'[dest] = disk[dest]
      BY <1>7, <1>10, <3>2
    <3>4. SharesWith(q)'
      BY <1>2, <1>9, <3>1, <3>2, <3>3 DEF SharesWith
    <3> QED BY <3>1, <3>4
  <2> QED BY <2>1, <2>2
<1> QED BY <1>12, <1>13 DEF AllShare

\* UserWrites: no process is there.
LEMMA UserWritesSideBySide ==
  ASSUME TypeInv, SideBySide, NEW n \in Names, UserWrites(n)
  PROVE  SideBySide'
<1>1. UNCHANGED <<proc, runs, history, pictured>> /\ \A q \in Processes : ~Active(proc[q])
  BY UserWritesIs
<1> SUFFICES ASSUME OnlyOverlap PROVE NoneLost' /\ AllShare'
  BY <1>1, SideBySideThen DEF OnlyOverlap
<1>2. NoneLost
  BY SideBySideIs
<1>3. ASSUME NEW m \in Names, NEW w \in kept'[m] PROVE OnDisk(m, w)'
  <2>1. ASSUME w \in kept[m] PROVE OnDisk(m, w)
    <3>1. ASSUME NEW q \in Processes, Holds(q, m, w) PROVE FALSE
      BY <1>1, <3>1 DEF Holds, Active
    <3> QED BY <1>2, <2>1, <3>1 DEF NoneLost
  <2> QED BY <2>1, UserWritesKeeps
<1> QED BY <1>1, <1>3 DEF NoneLost, AllShare

\* Whatever compressors do, one after the other or at once, nothing is lost.
LEMMA NextSideBySide ==
  ASSUME TypeInv, SideBySide, [Next]_vars
  PROVE  SideBySide'
<1>1. CASE UNCHANGED vars
  BY <1>1 DEF vars, SideBySide, CompressorsNeverLose, OnDisk, Path, SharesWith, Holds
<1>2. ASSUME NEW p \in Processes, WriteStdout(p) PROVE SideBySide'
  <2>1. /\ UNCHANGED <<disk, kept, runs, history, pictured>> /\ proc[p].stage = "Made"
    BY <1>2 DEF WriteStdout
  <2> QED BY <1>2, <2>1, WriteStdoutIs, EndSideBySide
<1>3. ASSUME NEW p \in Processes, WriteFails(p) \/ Crash(p) PROVE SideBySide'
  <2>2. "Failure" \in history' \/ "Crash" \in history'
    BY <1>3 DEF WriteFails, Crash
  <2>1. ~OnlyOverlap'
    BY <2>2 DEF OnlyOverlap
  <2> QED BY <2>1, SideBySideThen
<1> QED BY <1>1, <1>2, <1>3, LaunchSideBySide, ReadInputSideBySide, CheckOutputSideBySide,
           OpenOutputSideBySide, WriteOutputSideBySide, RemoveInputSideBySide,
           UserWritesSideBySide DEF Next, Step

-----------------------------------------------------------------------------
(* The theorems *)

\* What the user counts on at the start is what is on the disk.
LEMMA InitOnDisk ==
  ASSUME Init, NEW n \in Names, NEW v \in kept[n]
  PROVE  OnDisk(n, v)
<1>1. PICK y \in {n} \X {"plain", "pltz"} : disk[y] # Absent /\ v = disk[y].of
  BY DEF Init
<1>2. PICK suffix \in {"plain", "pltz"} : y = <<n, suffix>>
  OBVIOUS
<1>3. y \in Paths /\ y[1] = n
  BY <1>2 DEF Paths
<1>4. v \in Versions
  BY <1>1, <1>3, InitialDisk
<1> QED BY <1>1, <1>3, <1>4, OnDiskAt, InitTypeInv DEF OnDisk, TypeInv

\* The invariant holds at the start.
LEMMA InitIInv == Init => IInv
<1> SUFFICES ASSUME Init PROVE IInv
  OBVIOUS
<1>1. TypeInv
  BY InitTypeInv
<1>2. \A p \in Processes : proc[p] = Idle /\ ~Active(proc[p])
  BY IdleOK DEF Init
<1>3. OneByOne
  <2>1. \A p \in Processes : proc[p].stage = "Idle"
    BY <1>2 DEF Idle
  <2>2. Solo /\ \A p \in Processes : Relies(p)
    BY <1>2, <2>1 DEF Solo, Relies, InMemory
  <2>3. NeverLost
    BY InitOnDisk DEF NeverLost
  <2> QED BY <2>2, <2>3 DEF OneByOne
<1>4. SideBySide
  BY <1>2, InitOnDisk DEF SideBySide, CompressorsNeverLose
<1> QED BY <1>1, <1>3, <1>4 DEF IInv

\* It is inductive.
LEMMA NextIInv == IInv /\ [Next]_vars => IInv'
BY NextTypeInv, NextOneByOne, NextSideBySide DEF IInv

\* So it always holds.
LEMMA Invariance == Spec => []IInv
BY InitIInv, NextIInv, PTL DEF Spec

\* The types, for any processes, files and command lines.
THEOREM TypeCorrect == Spec => []TypeOK
<1>1. IInv => TypeOK
  <2> SUFFICES ASSUME IInv PROVE TypeOK
    OBVIOUS
  <2>1. TypeInv
    BY DEF IInv
  <2>2. ASSUME NEW p \in Processes
        PROVE  /\ proc[p].stage \in Stages
               /\ Live(p) => /\ proc[p].opts \in Options /\ proc[p].args \in ArgLists
                             /\ proc[p].at \in DOMAIN proc[p].args
               /\ proc[p].exit \in {0, 1, 101}
               /\ proc[p].done \in 0 .. Len(proc[p].args)
               /\ proc[p].data \in Contents \union {Absent}
               /\ proc[p].linked \in BOOLEAN
    <3>1. proc[p] \in RunType /\ RunOK(proc[p])
      BY <2>1 DEF TypeInv
    <3>2. proc[p].stage \in Stages /\ proc[p].linked \in BOOLEAN
      BY <3>1 DEF RunType
    <3>3. /\ proc[p].exit \in {0, 1, 101} /\ proc[p].data \in Contents \union {Absent}
          /\ proc[p].done \in Nat /\ proc[p].args \in ArgLists \union {<<>>}
      BY <3>1 DEF RunType
    <3>4. Len(proc[p].args) \in Nat
      BY <3>3, CliAssumption
    <3>5. proc[p].done \in 0 .. Len(proc[p].args)
      BY <3>1, <3>3, <3>4 DEF RunOK
    <3>6. Live(p) => /\ proc[p].opts \in Options /\ proc[p].args \in ArgLists
                     /\ proc[p].at \in DOMAIN proc[p].args
      BY <3>1, OfTheRecord DEF RunOK
    <3> QED BY <3>2, <3>3, <3>5, <3>6
  <2> QED BY <2>1, <2>2 DEF TypeInv, TypeOK
<1> QED BY <1>1, Invariance, PTL

\* As long as runs follow one another, whatever the command lines, failures and kills,
\* the disk holds every version the user counts on, but for files with the name of a picture.
THEOREM AlwaysNeverLost == Spec => []NeverLost
<1>1. IInv => NeverLost
  BY DEF IInv, OneByOne, NeverLost
<1> QED BY <1>1, Invariance, PTL

\* However many compressors overlap, every version the user counts on is on the disk or in
\* the memory of a process that is writing it.
THEOREM CompressorsAlwaysKeep == Spec => []CompressorsNeverLose
<1>1. IInv => CompressorsNeverLose
  BY DEF IInv, SideBySide, CompressorsNeverLose
<1> QED BY <1>1, Invariance, PTL

\* Exit code 0 always says that every file of the command line was processed.
THEOREM ExitZeroAlwaysComplete == Spec => []ExitZeroComplete
<1>1. IInv => ExitZeroComplete
  BY DEF IInv, TypeInv, RunOK, ExitZeroComplete
<1> QED BY <1>1, Invariance, PTL

-----------------------------------------------------------------------------
(* The C interface: the size of a file *)

\* A division by one of the sector sizes.
LEMMA DivideBySector ==
  ASSUME NEW len \in Nat, NEW s \in Candidates
  PROVE  len \div s \in Nat /\ len % s \in Nat
BY DEF Candidates

\* A track has a size.
LEMMA TrackSizes ==
  ASSUME NEW r \in Nat, NEW s \in Candidates
  PROVE  FullTrack(s) \in Nat /\ TailTrack(r, s) \in Nat
BY DEF FullTrack, TailTrack, Candidates

\* So have the tracks of a file.
LEMMA TracksSize ==
  ASSUME NEW len \in Nat, NEW s \in Candidates
  PROVE  Tracks(len, s) \in Nat
<1>1. PICK q \in Nat, r \in Nat : q = len \div s /\ r = len % s
  BY DivideBySector
<1>2. PICK full \in Nat, tail \in Nat : full = FullTrack(s) /\ tail = TailTrack(r, s)
  BY <1>1, TrackSizes
<1>3. q * full + tail \in Nat
  OBVIOUS
<1> QED BY <1>1, <1>2, <1>3 DEF Tracks

(* best_geometry finds a sector size: among the candidates with the smallest file     *)
(* there is a first.  Both conditions are one comparison of s + 1024 * size.          *)
LEMMA SectorsIsCandidate ==
  ASSUME NEW len \in Nat
  PROVE  Sectors(len) \in Candidates
<1> DEFINE Better(s, r) == Tracks(len, s) < Tracks(len, r)
                             \/ (Tracks(len, s) = Tracks(len, r) /\ s <= r)
           Key(s) == 1024 * Tracks(len, s) + s
           Keys == {Key(s) : s \in Candidates}
<1>1. ASSUME NEW s \in Candidates PROVE Key(s) \in Nat
  <2>1. PICK t \in Nat : t = Tracks(len, s)
    BY TracksSize
  <2>2. s \in Nat
    BY DEF Candidates
  <2> QED BY <2>1, <2>2
<1>2. Keys \subseteq Nat /\ Keys # {}
  <2>1. 8 \in Candidates
    BY DEF Candidates
  <2>2. Key(8) \in Keys
    BY <2>1
  <2> QED BY <1>1, <2>2
<1>3. PICK m \in Keys : \A k \in Keys : m <= k
  <2> DEFINE R == OpToRel(<, Nat)
  <2>1. IsWellFoundedOn(R, Nat)
    BY NatLessThanWellFounded
  <2>2. PICK m \in Keys : \A k \in Keys : <<k, m>> \notin R
    <3> HIDE DEF Keys, R
    <3> QED BY <1>2, <2>1, WFMin
  <2> HIDE DEF Keys
  <2>3. \A k \in Keys : ~(k < m)
    BY <1>2, <2>2 DEF OpToRel
  <2> QED BY <1>2, <2>3
<1>4. PICK s \in Candidates : m = Key(s)
  OBVIOUS
<1>5. ASSUME NEW r \in Candidates PROVE Better(s, r)
  <2>1. Key(s) <= Key(r)
    BY <1>3, <1>4
  <2>2. PICK a \in Nat, b \in Nat : a = Tracks(len, s) /\ b = Tracks(len, r)
    BY TracksSize
  <2>3. s \in Nat /\ r \in Nat /\ s < 1024 /\ r < 1024
    BY DEF Candidates
  <2>4. 1024 * a + s <= 1024 * b + r
    BY <2>1, <2>2
  <2>5. a < b \/ (a = b /\ s <= r)
    BY <2>3, <2>4
  <2> QED BY <2>2, <2>5
<1>6. \E x \in Candidates : \A r \in Candidates : Better(x, r)
  BY <1>5
<1>7. (CHOOSE x \in Candidates : \A r \in Candidates : Better(x, r)) \in Candidates
  <2> HIDE DEF Better
  <2> QED BY <1>6, Zenon
<1> QED BY <1>7 DEF Sectors

\* The size of a PLTZ blob.
LEMMA PlainSizeType ==
  ASSUME NEW len \in Nat
  PROVE  PlainSize(len) \in Nat
<1>1. PICK s \in Candidates : s = Sectors(len)
  BY SectorsIsCandidate
<1>2. PICK tracks \in Nat : tracks = Tracks(len, s)
  BY <1>1, TracksSize
<1>3. Platters(len, s) \in {1, 2}
  BY DEF Platters
<1>4. PICK p \in Nat : p = Platters(len, s)
  BY <1>3
<1>5. 12 + 2 * p + tracks \in Nat
  OBVIOUS
<1> QED BY <1>1, <1>2, <1>4, <1>5 DEF PlainSize

\* The size of any file of incompressible bytes, in chunks or not.
LEMMA IncompressibleSizeType ==
  ASSUME NEW len \in Nat
  PROVE  IncompressibleSize(len) \in Nat
<1>1. ChunkSize \in Nat \ {0} /\ Threshold \in Nat
  BY FfiAssumption
<1>2. PICK q \in Nat, r \in Nat : q = len \div ChunkSize /\ r = len % ChunkSize
  <2>1. len \div ChunkSize \in Nat /\ len % ChunkSize \in 0 .. ChunkSize - 1
    BY <1>1
  <2>2. len % ChunkSize \in Nat
    BY <1>1, <2>1
  <2> QED BY <2>1, <2>2
<1>3. PICK chunk \in Nat, last \in Nat : chunk = PlainSize(ChunkSize) /\ last = PlainSize(r)
  BY <1>1, PlainSizeType
<1>4. 15 + q * (4 + chunk) + (IF r = 0 THEN 0 ELSE 4 + last) \in Nat
  <2>1. PICK chunks \in Nat : chunks = q * (4 + chunk)
    OBVIOUS
  <2> QED BY <2>1
<1>5. PlainSize(len) \in Nat
  BY PlainSizeType
<1> QED BY <1>2, <1>3, <1>4, <1>5 DEF IncompressibleSize

-----------------------------------------------------------------------------
(* The inductive invariant of the C interface *)

\* The lengths are numbers.
LengthsInv ==
  /\ data.len \in Nat /\ data.size \in Nat /\ data.decoded \in Nat \union {Refused}
  /\ phase \in {"size", "decompress", "refusedOrShort", "done", "failed"} => file.original \in Nat

\* What a caller knows about the buffer it needs, by the number of its calls. A length that
\* is no more than its buffer means that decode refused.
RetryInv ==
  /\ phase \in {"allocate", "compress", "refused", "size"} => attempts = 0
  /\ phase = "decompress" =>
       attempts = 0 \/ (attempts = 1 /\ data.decoded # Refused /\ cap = data.decoded)
  /\ phase = "refusedOrShort" =>
       /\ attempts = 1
       /\ IF data.decoded = Refused THEN outLen = cap
          ELSE outLen = data.decoded /\ outLen > cap
  /\ phase = "done" => attempts \in {1, 2} /\ data.decoded # Refused /\ got = data.decoded
  /\ phase = "failed" => attempts = 1 /\ data.decoded = Refused

FfiInv == FfiTypeOK /\ LengthsInv /\ RetryInv

\* Before the first call.
LEMMA FfiInitInv == FfiInit => FfiInv
<1> SUFFICES ASSUME FfiInit PROVE FfiInv
  OBVIOUS
<1>1. PICK len \in Lengths :
        \E size \in GoodSizes \union {IncompressibleSize(len)},
           decoded \in {d \in Lengths : d <= len} \union {Refused} :
          data = [len |-> len, size |-> size, decoded |-> decoded]
  BY DEF FfiInit
<1>2. PICK size \in GoodSizes \union {IncompressibleSize(len)},
           decoded \in {d \in Lengths : d <= len} \union {Refused} :
             data = [len |-> len, size |-> size, decoded |-> decoded]
  BY <1>1
<1>3. len \in Nat /\ size \in Nat /\ decoded \in Nat \union {Refused}
  BY IncompressibleSizeType, FfiAssumption
<1> QED BY <1>2, <1>3 DEF FfiInit, FfiInv, FfiTypeOK, LengthsInv, RetryInv

\* The bound for the output buffer is a number.
LEMMA MaxCompressedSizeType ==
  ASSUME NEW len \in Nat
  PROVE  MaxCompressedSize(len) \in Nat
BY DEF MaxCompressedSize

\* Every call and every allocation keeps it.
LEMMA FfiNextInv == FfiInv /\ [FfiNext]_ffiVars => FfiInv'
<1> SUFFICES ASSUME FfiInv, [FfiNext]_ffiVars PROVE FfiInv'
  OBVIOUS
<1> USE DEF FfiInv, FfiTypeOK, LengthsInv, RetryInv
<1>1. CASE Allocate
  <2>1. cap' \in Nat
    BY <1>1, MaxCompressedSizeType, FfiAssumption DEF Allocate
  <2> QED BY <1>1, <2>1 DEF Allocate
<1>2. CASE Compress
  <2>1. CASE data.size > cap
    BY <1>2, <2>1 DEF Compress
  <2>2. CASE ~(data.size > cap)
    <3>1. data.len % U32 \in Nat
      BY FfiAssumption
    <3>2. /\ file' = [magic |-> Magic(data.len), len |-> data.size, original |-> data.len % U32]
          /\ rc' = 0 /\ outLen' = data.size /\ phase = "compress" /\ phase' = "size"
          /\ UNCHANGED <<data, cap, got, attempts>>
      BY <1>2, <2>2 DEF Compress
    <3>3. file'.original \in Nat
      BY <3>1, <3>2
    <3> QED BY <3>2, <3>3
  <2> QED BY <2>1, <2>2
<1>3. CASE AllocateForOutput
  <2>1. DecompressedSize \in Nat
    BY <1>3 DEF AllocateForOutput, DecompressedSize
  <2>2. cap' \in Nat
    BY <1>3, <2>1, FfiAssumption DEF AllocateForOutput
  <2> QED BY <1>3, <2>2 DEF AllocateForOutput
<1>4. CASE Decompress
  <2> USE <1>4, FfiAssumption DEF Decompress, Answer
  <2>1. CASE data.decoded = Refused
    BY <2>1
  <2>2. CASE data.decoded # Refused /\ data.decoded > cap
    BY <2>2
  <2>3. CASE data.decoded # Refused /\ ~(data.decoded > cap)
    BY <2>3
  <2> QED BY <2>1, <2>2, <2>3
<1>5. CASE Reallocate
  BY <1>5 DEF Reallocate
<1>7. CASE GiveUp
  BY <1>7 DEF GiveUp
<1>6. CASE UNCHANGED ffiVars
  BY <1>6 DEF ffiVars
<1> QED BY <1>1, <1>2, <1>3, <1>4, <1>5, <1>6, <1>7 DEF FfiNext

\* So it holds in every state.
LEMMA FfiInvariance == FfiSpec => []FfiInv
BY FfiInitInv, FfiNextInv, PTL DEF FfiSpec

-----------------------------------------------------------------------------
(* The theorems about the C interface *)

\* Every length a caller is told is a number it can allocate, and rc is 0 or -1.
THEOREM FfiTypes == FfiSpec => []FfiTypeOK
<1>1. FfiInv => FfiTypeOK
  BY DEF FfiInv
<1> QED BY <1>1, FfiInvariance, PTL

(* Whatever buffer the caller brings first, and whether or not decode accepts the file, *)
(* the length a call with a short buffer answers is enough for the next: there is no    *)
(* third call, and a caller that compares the length with its buffer gives up exactly    *)
(* when decode refused.                                                                  *)
THEOREM OneRetryIsAlwaysEnough == FfiSpec => []OneRetryIsEnough
<1>1. FfiInv => OneRetryIsEnough
  BY DEF FfiInv, FfiTypeOK, RetryInv, OneRetryIsEnough
<1> QED BY <1>1, FfiInvariance, PTL
=============================================================================
