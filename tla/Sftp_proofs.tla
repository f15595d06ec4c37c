----------------------------- MODULE Sftp_proofs -----------------------------
(***************************************************************************)
(* What a finished download holds and that a cancelled task stays so, for  *)
(* every size of the file, number of tasks and of versions of the source   *)
(* (SftpTransfer); and that saves of a remote text file neither lose it    *)
(* nor pass over what others wrote, for any number of them (SftpEditor).   *)
(***************************************************************************)
EXTENDS SftpTransfer, SftpEditor, SequenceTheorems, FiniteSetTheorems, TLAPS

Version == [size : Nat \ {0}, time : Nat]
Reports == Settled \cup {"Started", "Running", "none"}
Stages  == {"none", "waiting", "opening", "checking", "copying", "reading", "writing", "flushed",
            "verified", "renamed", "failing", "ended"}
Run == [stage : Stages, at : Nat, total : Nat, got : Nat, file : Runs \cup {0}, told : BOOLEAN,
        result : {"none", "Failed", "Interrupted"}]

TrTyped ==
  /\ runs \in [Runs -> Run] /\ flags \in [Runs -> 0..2] /\ late \in [Runs -> 0..1]
  /\ contents \in [Runs -> Seq(Nat)]
  /\ {entry, joined, partial, final} \subseteq Runs \cup {0}
  /\ versions \in Seq(Version) /\ versions # <<>> /\ expected \in Version \cup {Unknown}
  /\ starts \in Nat /\ news \in Seq(Reports) /\ saved \in Reports /\ length \in Nat
  /\ touched \in BOOLEAN /\ swapped \in BOOLEAN

(* The file of a task is its own before it creates one.                    *)
Early == {"none", "waiting", "opening", "checking"}
Fresh ==
  \A r \in Runs : runs[r].stage \in Early =>
    contents[r] = <<>> /\ r \notin {partial, final} /\ \A s \in Runs : runs[s].file # r

(* A task writes inside its file or at the end of it, what it has read;    *)
(* what was found to be whole does not get shorter.                        *)
Sound(n) ==
  /\ n.stage \in Copying => n.file # 0 /\ n.at <= Len(contents[n.file])
  /\ n.stage = "writing" => n.got \in 1..source /\ n.at < versions[n.got].size
  /\ n.stage = "verified" => n.file # 0 /\ n.total <= Len(contents[n.file])
Bytes == \A r \in Runs : Sound(runs[r])
Whole == final # 0 => swapped \/ length <= Len(contents[final])

(* What copies does so from a source that says what it said when the       *)
(* transfer began, and so did all who wrote before.                        *)
Alike(file, v) ==
  Len(file) <= v.size /\ \A k \in 1..Len(file) : file[k] \in 1..source /\ versions[file[k]] = v
Agrees(n, v) ==
  /\ n.stage \in Copying => Now = v
  /\ n.stage \in Copying \cup {"flushed", "verified"} => n.total = v.size
  /\ n.stage = "writing" => versions[n.got] = v
Same(v) ==
  /\ expected # Unknown => v = expected
  /\ \A r \in Runs : Alike(contents[r], v) /\ Agrees(runs[r], v)
  /\ final # 0 => swapped \/ length = v.size
OneSource == ~touched => \E v \in Version : Same(v)

(* Where nothing is known to compare with, nobody resumes.                 *)
Once ==
  expected = Unknown =>
    /\ shown # "Recoverable" /\ starts <= 1
    /\ starts = 1 => \A r \in Runs : runs[r].stage = "none"
    /\ \A r, s \in Runs : runs[r].stage # "none" /\ runs[s].stage # "none" => r = s

(* The flag that can still be reached is not that of a cancelled task, and *)
(* a cancelled one writes once at most.                                    *)
Registered ==
  /\ entry # 0 => flags[entry] # 2 /\ runs[entry].stage # "none"
  /\ joined # 0 => runs[joined].stage # "none"
  /\ \A r \in Runs :
       /\ runs[r].stage = "none" => flags[r] = 0
       /\ late[r] # 0 => flags[r] = 2 /\ runs[r].stage \notin {"reading", "writing"}

TrIInv == TrTyped /\ Fresh /\ Bytes /\ Whole /\ OneSource /\ Once /\ Registered

\* 0, the mark of no file, is no task.
LEMMA ZeroIsNoRun == 0 \notin Runs
BY TransferSizes DEF Runs

\* What the source says now.
LEMMA NowIsVersion ==
  ASSUME TrTyped
  PROVE  /\ Now \in Version /\ Now # Unknown /\ Now.size \in Nat \ {0}
         /\ source \in 1..Len(versions)
<1>1. versions \in Seq(Version) /\ Len(versions) \in Nat /\ Len(versions) # 0
  BY EmptySeq DEF TrTyped
<1>2. source \in 1..Len(versions) /\ Now \in Version
  BY <1>1 DEF source, Now
<1>3. QED
  BY <1>2 DEF Version, Unknown

\* What is reported.
LEMMA ToldReports ==
  ASSUME news \in Seq(Reports), NEW state \in Reports
  PROVE  Told(state) \in Seq(Reports) /\ Append(news, state) \in Seq(Reports)
<1>1. Append(news, state) \in Seq(Reports)
  BY AppendProperties
<1>2. QED
  BY <1>1 DEF Told

(* One task goes on, without a byte written.                               *)
LEMMA RunMoved ==
  ASSUME TrIInv, NEW r \in Runs, NEW n \in Run,
         runs' = [runs EXCEPT ![r] = n],
         UNCHANGED <<contents, versions, expected, touched, flags, late, entry, starts, saved, shown>>,
         runs[r].stage # "none", n.stage # "none",
         n.stage \in Early => runs[r].stage \in Early /\ n.file = runs[r].file
                              /\ partial' = partial /\ final' = final,
         n.file \in {0, runs[r].file, partial, r}, partial' \in {0, partial, r},
         final' \in {final, partial}, joined' \in {0, joined}, news' \in Seq(Reports),
         Sound(n), n.stage \in {"reading", "writing"} => late[r] = 0,
         swapped' \in BOOLEAN, length' \in Nat,
         final' # 0 => swapped' \/ length' <= Len(contents[final']),
         ~touched => \E v \in Version :
           Same(v) /\ Agrees(n, v) /\ (final' # 0 => swapped' \/ length' = v.size)
  PROVE  TrIInv'
<1>1. /\ TrTyped /\ runs'[r] = n
      /\ \A s \in Runs \ {r} : runs'[s] = runs[s]
  BY DEF TrIInv, TrTyped
<1>2. TrTyped'
  <2>1. runs' \in [Runs -> Run]
    BY <1>1 DEF TrTyped
  <2>2. {entry', joined', partial', final'} \subseteq Runs \cup {0}
    BY <1>1 DEF TrTyped
  <2>3. QED
    BY <1>1, <2>1, <2>2 DEF TrTyped
<1>3. Fresh'
  <2> SUFFICES ASSUME NEW s \in Runs, runs'[s].stage \in Early
               PROVE  contents[s] = <<>> /\ s \notin {partial', final'}
                      /\ \A t \in Runs : runs'[t].file # s
    BY DEF Fresh
  <2>1. runs[s].stage \in Early /\ (s = r => partial' = partial /\ final' = final /\ n.file = runs[r].file)
    BY <1>1
  <2>2. contents[s] = <<>> /\ s \notin {partial, final} /\ \A t \in Runs : runs[t].file # s
    BY <2>1 DEF TrIInv, Fresh
  <2>3. n.file # s
    BY <2>1, <2>2, ZeroIsNoRun
  <2>4. QED
    BY <1>1, <2>1, <2>2, <2>3, ZeroIsNoRun
<1>4. Bytes'
  <2>1. Sound(n)'
    BY DEF Sound, source
  <2>2. \A s \in Runs \ {r} : Sound(runs[s])
    BY DEF TrIInv, Bytes
  <2>3. \A s \in Runs \ {r} : Sound(runs[s])'
    BY <1>1, <2>2 DEF Sound, source
  <2>4. Sound(runs[r])'
    BY <1>1, <2>1 DEF Sound, source
  <2>5. QED
    BY <2>3, <2>4 DEF Bytes
<1>5. Whole'
  BY DEF Whole
<1>6. OneSource'
  <2> SUFFICES ASSUME ~touched
               PROVE  \E v \in Version : Same(v)'
    BY DEF OneSource
  <2>1. PICK v \in Version :
          Same(v) /\ Agrees(n, v) /\ (final' # 0 => swapped' \/ length' = v.size)
    OBVIOUS
  <2>2. \A s \in Runs : Alike(contents[s], v)' /\ Agrees(runs[s], v)'
    BY <1>1, <2>1 DEF Same, Alike, Agrees, Now, source
  <2>3. Same(v)'
    BY <2>1, <2>2 DEF Same
  <2>4. QED
    BY <2>3
<1>7. Once'
  BY <1>1 DEF TrIInv, Once
<1>8. Registered'
  <2>1. Registered /\ entry \in Runs \cup {0} /\ joined \in Runs \cup {0}
    BY <1>1 DEF TrIInv, TrTyped
  <2>2. QED
    BY <1>1, <2>1, ZeroIsNoRun DEF Registered
<1>9. QED
  BY <1>2, <1>3, <1>4, <1>5, <1>6, <1>7, <1>8 DEF TrIInv

(* Nothing that the invariant speaks of changes but the flags, who is      *)
(* registered, what is shown, and a partial file that is removed.          *)
LEMMA FlagsMoved ==
  ASSUME TrIInv, 
         UNCHANGED <<runs, contents, final, versions, expected, touched, swapped, length, late>>,
         partial' \in {0, partial}, flags' \in [Runs -> 0..2],
         {entry', joined'} \subseteq Runs \cup {0}, Registered', Once',
         starts' \in Nat, news' \in Seq(Reports), saved' \in Reports
  PROVE  TrIInv'
<1>1. TrTyped'
  BY DEF TrIInv, TrTyped
<1>2. Fresh'
  BY ZeroIsNoRun DEF TrIInv, Fresh
<1>3. Bytes' /\ Whole'
  BY DEF TrIInv, Bytes, Sound, source, Whole
<1>4. OneSource'
  <2>1. ASSUME NEW v \in Version, Same(v)
        PROVE  Same(v)'
    BY <2>1 DEF Same, Alike, Agrees, Now, source
  <2>2. QED
    BY <2>1 DEF TrIInv, OneSource
<1>5. QED
  BY <1>1, <1>2, <1>3, <1>4 DEF TrIInv

(* What a chunk does to a file.                                            *)
LEMMA WrittenFile ==
  ASSUME NEW f \in Seq(Nat), NEW at \in Nat, NEW v \in Nat, NEW size \in Nat,
         at <= Len(f), at < size
  PROVE  /\ Written(f, at, v) \in Seq(Nat)
         /\ Len(f) <= Len(Written(f, at, v))
         /\ at + 1 <= Len(Written(f, at, v))
         /\ Len(f) <= size => Len(Written(f, at, v)) <= size
         /\ \A k \in 1..Len(Written(f, at, v)) :
              Written(f, at, v)[k] = v \/ (k \in 1..Len(f) /\ Written(f, at, v)[k] = f[k])
<1>1. CASE at < Len(f)
  <2>1. at + 1 \in 1..Len(f)
    BY <1>1
  <2>2. Written(f, at, v) = [f EXCEPT ![at + 1] = v]
    BY <1>1 DEF Written
  <2>3. /\ [f EXCEPT ![at + 1] = v] \in Seq(Nat)
        /\ Len([f EXCEPT ![at + 1] = v]) = Len(f)
        /\ \A j \in 1..Len(f) : [f EXCEPT ![at + 1] = v][j] = IF j = at + 1 THEN v ELSE f[j]
    BY <2>1, ExceptSeq
  <2>4. QED
    BY <1>1, <2>2, <2>3
<1>2. CASE at = Len(f)
  <2>1. Written(f, at, v) = Append(f, v)
    BY <1>2 DEF Written
  <2>2. /\ Append(f, v) \in Seq(Nat) /\ Len(Append(f, v)) = Len(f) + 1
        /\ \A j \in 1..Len(f) : Append(f, v)[j] = f[j]
        /\ Append(f, v)[Len(f) + 1] = v
    BY AppendProperties
  <2>3. Len(f) \in Nat /\ size \in Nat
    OBVIOUS
  <2>4. QED
    BY <1>2, <2>1, <2>2, <2>3
<1>3. QED
  BY <1>1, <1>2

\* The same, and no file or history changes.
LEMMA RunOnly ==
  ASSUME TrIInv, NEW r \in Runs, NEW n \in Run,
         runs' = [runs EXCEPT ![r] = n],
         UNCHANGED <<trFiles, versions, expected, touched, swapped, length, late, flags, entry,
                     starts, saved, shown>>,
         runs[r].stage # "none", n.stage # "none",
         n.stage \in Early => runs[r].stage \in Early /\ n.file = runs[r].file,
         n.file \in {0, runs[r].file, partial}, joined' \in {0, joined}, news' \in Seq(Reports),
         Sound(n), n.stage \in {"reading", "writing"} => late[r] = 0,
         ~touched => \A v \in Version : Same(v) => Agrees(n, v)
  PROVE  TrIInv'
<1>1. /\ final \in Runs \cup {0} /\ swapped \in BOOLEAN /\ length \in Nat
      /\ contents' = contents /\ partial' = partial /\ final' = final
      /\ final # 0 => swapped \/ length <= Len(contents[final])
  BY DEF TrIInv, TrTyped, Whole, trFiles
<1>2. ~touched => \E v \in Version :
        Same(v) /\ Agrees(n, v) /\ (final' # 0 => swapped' \/ length' = v.size)
  BY <1>1 DEF TrIInv, OneSource, Same
<1>3. QED
  BY <1>1, <1>2, RunMoved

\* A task that is no longer at work.
LEMMA TaskIsIdle ==
  ASSUME NEW n \in Run, n.stage \in {"opening", "checking", "flushed", "renamed", "failing", "ended"}
  PROVE  /\ Sound(n) /\ n.stage \notin {"none", "reading", "writing"}
         /\ \A v : n.stage # "flushed" => Agrees(n, v)
BY DEF Sound, Agrees, Copying

\* A task gives up, or gets on without a look at the file.
LEMMA LeftOff ==
  ASSUME TrIInv, NEW r \in Runs, NEW stage \in {"opening", "checking", "failing"},
         NEW result \in {"none", "Failed", "Interrupted"},
         Becomes(r, stage, result), runs[r].stage # "none",
         stage \in Early => runs[r].stage \in Early, 
         UNCHANGED <<trRest, trFiles, news>>
  PROVE  TrIInv'
<1> DEFINE n == [runs[r] EXCEPT !.stage = stage, !.result = result]
<1>1. /\ runs[r] \in Run /\ news \in Seq(Reports)
      /\ runs' = [runs EXCEPT ![r] = n]
  BY DEF TrIInv, TrTyped, Becomes
<1>2. n \in Run /\ n.stage = stage /\ n.file = runs[r].file
  BY <1>1 DEF Run, Stages
<1> HIDE DEF n
<1>3. Sound(n) /\ \A v : Agrees(n, v)
  BY <1>2, TaskIsIdle
<1>4. QED
  BY <1>1, <1>2, <1>3, RunOnly DEF trRest, trStays, trTables, trQueues, trSource, trUser

\* The checks before the first byte.
LEMMA CheckStep ==
  ASSUME TrIInv, NEW r \in Runs, Check(r)
  PROVE  TrIInv'
<1> DEFINE had == IF partial = 0 THEN 0 ELSE Len(contents[partial])
           found == [runs[r] EXCEPT !.stage = "verified", !.file = partial, !.total = had]
           copy == [runs[r] EXCEPT !.stage = "copying", !.at = had, !.total = Now.size,
                                   !.file = IF partial = 0 THEN r ELSE partial]
<1>1. /\ runs[r] \in Run /\ runs[r].stage = "checking"
      /\ partial \in Runs \cup {0} /\ final \in Runs \cup {0} /\ news \in Seq(Reports)
      /\ \A s \in Runs : contents[s] \in Seq(Nat)
      /\ UNCHANGED trRest /\ contents' = contents /\ final' = final
  BY DEF TrIInv, TrTyped, Check, Step, trFiles
<1>2. had \in Nat /\ contents[r] = <<>> /\ r # final
  BY <1>1 DEF TrIInv, TrTyped, Fresh, Early
<1>3. Now \in Version /\ Now # Unknown /\ Now.size \in Nat \ {0}
  BY NowIsVersion DEF TrIInv
<1>4. UNCHANGED <<versions, expected, touched, swapped, length, late, flags, entry, joined, starts,
                  saved, shown>>
  BY <1>1 DEF trRest, trStays, trTables, trQueues, trSource, trUser
<1>5. ASSUME ~Refused(had), ~touched
      PROVE  Same(Now)
  <2>1. PICK v \in Version : Same(v)
    BY <1>5 DEF TrIInv, OneSource
  <2>2. CASE expected # Unknown
    BY <1>5, <2>1, <2>2 DEF Refused, Same
  <2>3. CASE expected = Unknown
    <3>1. \A s \in Runs \ {r} : runs[s].stage = "none"
      BY <1>1, <2>3 DEF TrIInv, Once
    <3>2. \A s \in Runs : runs[s].stage \in Early
      BY <1>1, <3>1 DEF Early
    <3>3. \A s \in Runs : contents[s] = <<>> /\ s # final
      BY <3>2 DEF TrIInv, Fresh
    <3>4. \A s \in Runs : Alike(contents[s], Now)
      BY <1>3, <3>3 DEF Alike
    <3>5. \A s \in Runs : Agrees(runs[s], Now)
      BY <3>2 DEF Agrees, Early, Copying
    <3>6. QED
      BY <1>1, <2>3, <3>3, <3>4, <3>5 DEF Same
  <2>4. QED
    BY <2>2, <2>3
<1>6. CASE Refused(had) /\ Becomes(r, "failing", "Failed") /\ UNCHANGED <<news, trFiles>>
  BY <1>1, <1>6, LeftOff DEF Early
<1>7. CASE ~Refused(had) /\ had = Now.size /\ Found(r, had) /\ UNCHANGED <<news, trFiles>>
  <2>1. runs' = [runs EXCEPT ![r] = found]
    BY <1>7 DEF Found, TrIInv, TrTyped
  <2>2. /\ found \in Run /\ found.stage = "verified" /\ found.file = partial
        /\ found.total = had
    BY <1>1, <1>2 DEF Run, Stages
  <2>3. partial # 0 /\ Len(contents[partial]) = had
    BY <1>3, <1>7
  <2> HIDE DEF found
  <2>4. Sound(found)
    BY <1>2, <2>2, <2>3 DEF Sound, Copying
  <2>5. ~touched => Same(Now) /\ Agrees(found, Now)
    BY <1>5, <1>7, <2>2 DEF Agrees, Copying
  <2>6. /\ partial' = partial /\ swapped' \in BOOLEAN /\ length' \in Nat /\ news' = news
        /\ final' # 0 => swapped' \/ length' <= Len(contents[final'])
    BY <1>1, <1>4, <1>7 DEF trFiles, TrIInv, TrTyped, Whole
  <2>7. ~touched => \E v \in Version :
          Same(v) /\ Agrees(found, v) /\ (final' # 0 => swapped' \/ length' = v.size)
    BY <1>1, <1>3, <1>4, <2>5 DEF Same
  <2>8. QED
    BY <1>1, <1>4, <2>1, <2>2, <2>4, <2>6, <2>7, RunMoved DEF Early
<1>8. CASE /\ ~Refused(had) /\ had < Now.size
           /\ runs' = [runs EXCEPT ![r].stage = "copying", ![r].at = had, ![r].total = Now.size,
                                   ![r].file = IF partial = 0 THEN r ELSE partial]
           /\ partial' = IF partial = 0 THEN r ELSE partial
           /\ news' = Told("Running")
  <2>1. runs' = [runs EXCEPT ![r] = copy] /\ partial' \in {partial, r}
    BY <1>8 DEF TrIInv, TrTyped
  <2>2. /\ copy \in Run /\ copy.stage = "copying" /\ copy.at = had /\ copy.total = Now.size
        /\ copy.file = IF partial = 0 THEN r ELSE partial
    BY <1>1, <1>2, <1>3 DEF Run, Stages
  <2>3. copy.file # 0 /\ copy.at <= Len(contents[copy.file]) /\ copy.file \in {partial, r}
    BY <1>2, <2>2, ZeroIsNoRun
  <2> HIDE DEF copy
  <2>4. Sound(copy)
    BY <2>2, <2>3 DEF Sound, Copying
  <2>5. ~touched => Same(Now) /\ Agrees(copy, Now)
    BY <1>5, <1>8, <2>2 DEF Agrees, Copying
  <2>6. /\ swapped' \in BOOLEAN /\ length' \in Nat /\ news' \in Seq(Reports)
        /\ final' # 0 => swapped' \/ length' <= Len(contents[final'])
    BY <1>1, <1>4, <1>8, ToldReports DEF TrIInv, TrTyped, Whole, Reports
  <2>7. ~touched => \E v \in Version :
          Same(v) /\ Agrees(copy, v) /\ (final' # 0 => swapped' \/ length' = v.size)
    BY <1>1, <1>3, <1>4, <2>5 DEF Same
  <2>8. QED
    BY <1>1, <1>4, <2>1, <2>2, <2>3, <2>4, <2>6, <2>7, RunMoved DEF Early
<1>9. QED
  BY <1>6, <1>7, <1>8 DEF Check

\* What a task that copies knows of its file and of the source.
LEMMA LiveTask ==
  ASSUME TrIInv, NEW r \in Runs, runs[r].stage \in Copying
  PROVE  /\ runs[r] \in Run /\ Sound(runs[r])
         /\ ~touched => \A v \in Version : Same(v) => Agrees(runs[r], v)
BY DEF TrIInv, TrTyped, Bytes, Same

\* The flag is looked at, and the next chunk is read.
LEMMA CopyStep ==
  ASSUME TrIInv, NEW r \in Runs, Pause(r) \/ Proceed(r) \/ Read(r)
  PROVE  TrIInv'
<1>1. /\ UNCHANGED trRest /\ UNCHANGED trFiles /\ news \in Seq(Reports)
      /\ runs[r].stage \in {"copying", "reading"}
      /\ runs[r] \in Run /\ Sound(runs[r]) /\ runs \in [Runs -> Run]
      /\ ~touched => \A v \in Version : Same(v) => Agrees(runs[r], v)
  BY LiveTask DEF TrIInv, TrTyped, Pause, Proceed, Read, Step, Copying
<1>2. UNCHANGED <<versions, expected, touched, swapped, length, late, flags, entry, joined, starts,
                  saved, shown>>
  BY <1>1 DEF trRest, trStays, trTables, trQueues, trSource, trUser
<1>3. CASE Pause(r) \/ Proceed(r)
  <2>1. PICK stage \in {"copying", "reading"}, told \in BOOLEAN :
          /\ runs' = [runs EXCEPT ![r].stage = stage, ![r].told = told]
          /\ stage = "reading" => flags[r] = 0
    BY <1>1, <1>3 DEF Pause, Proceed, Step, Run
  <2> DEFINE n == [runs[r] EXCEPT !.stage = stage, !.told = told]
  <2>2. /\ n \in Run /\ n.stage = stage /\ n.at = runs[r].at /\ n.file = runs[r].file
        /\ n.total = runs[r].total
    BY <1>1 DEF Run, Stages
  <2>3. runs' = [runs EXCEPT ![r] = n]
    BY <1>1, <2>1
  <2> HIDE DEF n
  <2>4. Sound(n)
    BY <1>1, <2>2 DEF Sound, Copying
  <2>5. ~touched => \A v \in Version : Same(v) => Agrees(n, v)
    BY <1>1, <2>2 DEF Agrees, Copying
  <2>6. n.stage \in {"reading", "writing"} => late[r] = 0
    BY <2>1, <2>2 DEF TrIInv, Registered
  <2>7. news' \in Seq(Reports)
    BY <1>1, <1>3, ToldReports DEF Pause, Proceed, Reports, Settled
  <2>8. QED
    BY <1>1, <1>2, <2>2, <2>3, <2>4, <2>5, <2>6, <2>7, RunOnly DEF Early
<1>4. CASE Read(r) /\ runs[r].at < Now.size
  <2> DEFINE n == [runs[r] EXCEPT !.stage = "writing", !.got = source]
  <2>1. runs' = [runs EXCEPT ![r] = n] /\ news' = news /\ runs[r].stage = "reading"
    BY <1>1, <1>4 DEF Read, Step
  <2>2. source \in 1..Len(versions) /\ source \in Nat /\ Now = versions[source]
    BY NowIsVersion DEF TrIInv, TrTyped, Now
  <2>3. /\ n \in Run /\ n.stage = "writing" /\ n.at = runs[r].at /\ n.file = runs[r].file
        /\ n.total = runs[r].total /\ n.got = source
    BY <1>1, <2>2 DEF Run, Stages
  <2> HIDE DEF n
  <2>4. Sound(n)
    BY <1>1, <1>4, <2>1, <2>2, <2>3 DEF Sound, Copying, source
  <2>5. ~touched => \A v \in Version : Same(v) => Agrees(n, v)
    BY <1>1, <2>1, <2>2, <2>3 DEF Agrees, Copying
  <2>6. late[r] = 0
    BY <2>1 DEF TrIInv, Registered
  <2>7. QED
    BY <1>1, <1>2, <2>1, <2>3, <2>4, <2>5, <2>6, RunOnly DEF Early
<1>5. CASE Read(r) /\ ~(runs[r].at < Now.size)
  <2> DEFINE n == [runs[r] EXCEPT !.stage = "flushed", !.result = "none"]
  <2>1. runs' = [runs EXCEPT ![r] = n] /\ news' = news /\ runs[r].stage = "reading"
    BY <1>1, <1>5 DEF Read, Step, Becomes
  <2>2. /\ n \in Run /\ n.stage = "flushed" /\ n.file = runs[r].file /\ n.total = runs[r].total
    BY <1>1 DEF Run, Stages
  <2> HIDE DEF n
  <2>3. Sound(n)
    BY <2>2, TaskIsIdle
  <2>4. ~touched => \A v \in Version : Same(v) => Agrees(n, v)
    BY <1>1, <2>1, <2>2 DEF Agrees, Copying
  <2>5. QED
    BY <1>1, <1>2, <2>1, <2>2, <2>3, <2>4, RunOnly DEF Early
<1>6. QED
  BY <1>3, <1>4, <1>5

\* A chunk is written.
LEMMA WriteStep ==
  ASSUME TrIInv, NEW r \in Runs, Write(r)
  PROVE  TrIInv'
<1> DEFINE f == runs[r].file
           at == runs[r].at
           got == runs[r].got
           w == Written(contents[f], at, got)
           n == [runs[r] EXCEPT !.stage = "copying", !.at = at + 1, !.got = 0]
<1>1. /\ UNCHANGED <<trStays, swapped, length, partial, final>> /\ runs[r].stage = "writing"
      /\ news \in Seq(Reports) /\ runs \in [Runs -> Run] /\ runs[r] \in Run /\ Sound(runs[r])
      /\ contents \in [Runs -> Seq(Nat)] /\ versions \in Seq(Version)
      /\ ~touched => \A v \in Version : Same(v) => Agrees(runs[r], v)
  BY LiveTask DEF TrIInv, TrTyped, Write, Step, Copying
<1>2. UNCHANGED <<versions, expected, touched, swapped, length, flags, entry, joined, starts,
                  saved, shown, partial, final>>
  BY <1>1 DEF trStays, trTables, trQueues, trSource, trUser
<1>3. /\ f \in Runs /\ at \in Nat /\ got \in 1..source /\ got \in Nat /\ at < versions[got].size
      /\ at <= Len(contents[f]) /\ contents[f] \in Seq(Nat) /\ versions[got] \in Version
      /\ source \in Nat
  BY <1>1 DEF Sound, Copying, Run, source
<1>4. versions[got].size \in Nat
  BY <1>3 DEF Version
<1>5. runs' = [runs EXCEPT ![r] = n] /\ contents' = [contents EXCEPT ![f] = w]
  BY <1>1 DEF Write
<1>6. /\ n \in Run /\ n.stage = "copying" /\ n.at = at + 1 /\ n.file = f
      /\ n.total = runs[r].total
  <2>1. at + 1 \in Nat /\ runs[r] \in Run
    BY <1>1, <1>3
  <2>2. QED
    BY <2>1 DEF Run, Stages
<1> HIDE DEF n
<1>7. ASSUME NEW size \in Nat, at < size
      PROVE  /\ w \in Seq(Nat) /\ Len(contents[f]) <= Len(w) /\ at + 1 <= Len(w)
             /\ Len(contents[f]) <= size => Len(w) <= size
             /\ \A k \in 1..Len(w) :
                  w[k] = got \/ (k \in 1..Len(contents[f]) /\ w[k] = contents[f][k])
  <2>1. contents[f] \in Seq(Nat) /\ at \in Nat /\ got \in Nat /\ at <= Len(contents[f])
    BY <1>3
  <2>2. \A c \in Seq(Nat), a \in Nat, g \in Nat :
          a <= Len(c) /\ a < size =>
            /\ Written(c, a, g) \in Seq(Nat) /\ Len(c) <= Len(Written(c, a, g))
            /\ a + 1 <= Len(Written(c, a, g))
            /\ Len(c) <= size => Len(Written(c, a, g)) <= size
            /\ \A k \in 1..Len(Written(c, a, g)) :
                 \/ Written(c, a, g)[k] = g
                 \/ k \in 1..Len(c) /\ Written(c, a, g)[k] = c[k]
    BY WrittenFile
  <2> HIDE DEF at, got, f
  <2>3. QED
    BY <1>7, <2>1, <2>2
<1>8. /\ w \in Seq(Nat) /\ Len(contents[f]) <= Len(w) /\ at + 1 <= Len(w)
      /\ \A k \in 1..Len(w) : w[k] = got \/ (k \in 1..Len(contents[f]) /\ w[k] = contents[f][k])
  <2>1. PICK size \in Nat : at < size
    BY <1>3, <1>4
  <2> HIDE DEF w
  <2>2. QED
    BY <1>7, <2>1
<1> HIDE DEF w
<1>9. /\ runs'[r] = n /\ \A s \in Runs \ {r} : runs'[s] = runs[s]
      /\ contents'[f] = w /\ \A s \in Runs \ {f} : contents'[s] = contents[s]
  BY <1>1, <1>3, <1>5
<1>10. runs' \in [Runs -> Run] /\ contents' \in [Runs -> Seq(Nat)]
  BY <1>1, <1>5, <1>6, <1>8
<1>11. \A s \in Runs : /\ contents'[s] \in Seq(Nat) /\ contents[s] \in Seq(Nat)
                       /\ Len(contents'[s]) \in Nat /\ Len(contents[s]) \in Nat
                       /\ Len(contents[s]) <= Len(contents'[s])
  <2> TAKE s \in Runs
  <2>1. contents'[s] \in Seq(Nat) /\ contents[s] \in Seq(Nat)
    BY <1>1, <1>10
  <2>2. Len(contents'[s]) \in Nat /\ Len(contents[s]) \in Nat
    BY <2>1
  <2>3. CASE s = f
    BY <1>8, <1>9, <2>1, <2>2, <2>3
  <2>4. CASE s # f
    BY <1>9, <2>1, <2>2, <2>4
  <2>5. QED
    BY <2>3, <2>4
<1>12. /\ late' \in [Runs -> 0..1]
       /\ \A s \in Runs \ {r} : late'[s] = late[s]
       /\ late'[r] # 0 => flags[r] = 2
  BY <1>1 DEF Write, TrIInv, TrTyped, Registered
<1>13. TrTyped'
  <2>1. news' \in Seq(Reports)
    BY <1>1, ToldReports DEF Write, Reports
  <2>2. QED
    BY <1>2, <1>10, <1>12, <2>1 DEF TrIInv, TrTyped
<1>14. Fresh'
  <2>1. \A s \in Runs : runs'[s].file = runs[s].file
    BY <1>6, <1>9
  <2>2. \A s \in Runs : runs'[s].stage \in Early => runs[s].stage \in Early /\ s # f
    BY <1>6, <1>9 DEF TrIInv, Fresh, Early
  <2>3. QED
    BY <1>2, <1>3, <1>9, <2>1, <2>2 DEF TrIInv, Fresh
<1>15. Bytes'
  <2> SUFFICES ASSUME NEW s \in Runs
               PROVE  Sound(runs[s])'
    BY DEF Bytes
  <2>1. CASE s = r
    BY <1>3, <1>6, <1>8, <1>9, <2>1, ZeroIsNoRun DEF Sound, Copying
  <2>2. CASE s # r
    <3>1. runs'[s] = runs[s] /\ Sound(runs[s]) /\ runs[s] \in Run
      BY <1>1, <1>9, <2>2 DEF TrIInv, Bytes
    <3>2. runs[s].file \in Runs \cup {0} /\ runs[s].at \in Nat /\ runs[s].total \in Nat
      BY <3>1 DEF Run
    <3>3. runs[s].file # 0 =>
            /\ runs[s].at <= Len(contents[runs[s].file]) => runs[s].at <= Len(contents'[runs[s].file])
            /\ runs[s].total <= Len(contents[runs[s].file]) => runs[s].total <= Len(contents'[runs[s].file])
      BY <1>11, <3>2
    <3>4. QED
      BY <1>2, <3>1, <3>2, <3>3 DEF Sound, source
  <2>3. QED
    BY <2>1, <2>2
<1>16. Whole'
  <2>1. final \in Runs \cup {0} /\ length \in Nat
    BY DEF TrIInv, TrTyped
  <2>2. QED
    BY <1>2, <1>11, <2>1 DEF TrIInv, Whole
<1>17. OneSource'
  <2> SUFFICES ASSUME ~touched
               PROVE  \E v \in Version : Same(v)'
    BY <1>2 DEF OneSource
  <2>1. PICK v \in Version : Same(v)
    BY DEF TrIInv, OneSource
  <2>2. /\ Agrees(runs[r], v) /\ versions[got] = v /\ Now = v /\ n.total = v.size /\ v.size \in Nat
    BY <1>1, <1>6, <2>1 DEF Agrees, Copying, Version
  <2>3. ASSUME NEW s \in Runs
        PROVE  Alike(contents[s], v)'
    <3>1. Alike(contents[s], v)
      BY <2>1 DEF Same
    <3>2. CASE s = f
      <4>1. Len(w) <= v.size
        BY <1>3, <1>7, <2>2, <3>1, <3>2 DEF Alike
      <4>2. \A k \in 1..Len(w) : w[k] \in 1..source /\ versions[w[k]] = v
        BY <1>3, <1>8, <2>2, <3>1, <3>2 DEF Alike
      <4>3. QED
        BY <1>2, <1>9, <3>2, <4>1, <4>2 DEF Alike, source
    <3>3. CASE s # f
      BY <1>2, <1>9, <3>1, <3>3 DEF Alike, source
    <3>4. QED
      BY <3>2, <3>3
  <2>4. ASSUME NEW s \in Runs
        PROVE  Agrees(runs[s], v)'
    <3>1. CASE s = r
      BY <1>2, <1>6, <1>9, <2>2, <3>1 DEF Agrees, Copying, Now, source
    <3>2. CASE s # r
      BY <1>2, <1>9, <2>1, <3>2 DEF Same, Agrees, Now, source
    <3>3. QED
      BY <3>1, <3>2
  <2>5. (expected # Unknown => v = expected)' /\ (final # 0 => swapped \/ length = v.size)'
    BY <1>2, <2>1 DEF Same
  <2>6. QED
    BY <2>3, <2>4, <2>5 DEF Same
<1>18. Once'
  BY <1>1, <1>2, <1>6, <1>9 DEF TrIInv, Once
<1>19. Registered'
  <2>1. entry \in Runs \cup {0} /\ joined \in Runs \cup {0}
    BY DEF TrIInv, TrTyped
  <2>2. /\ entry' # 0 => flags'[entry'] # 2 /\ runs'[entry'].stage # "none"
        /\ joined' # 0 => runs'[joined'].stage # "none"
    BY <1>1, <1>2, <1>6, <1>9, <2>1, ZeroIsNoRun DEF TrIInv, Registered
  <2>3. ASSUME NEW s \in Runs
        PROVE  /\ runs'[s].stage = "none" => flags'[s] = 0
               /\ late'[s] # 0 => flags'[s] = 2 /\ runs'[s].stage \notin {"reading", "writing"}
    <3>1. CASE s = r
      BY <1>6, <1>9, <1>2, <1>12, <3>1
    <3>2. CASE s # r
      BY <1>2, <1>9, <1>12, <3>2 DEF TrIInv, Registered
    <3>3. QED
      BY <3>1, <3>2
  <2>4. QED
    BY <2>2, <2>3 DEF Registered
<1>20. QED
  BY <1>13, <1>14, <1>15, <1>16, <1>17, <1>18, <1>19 DEF TrIInv

\* A step of a task: one case per action.
LEMMA TaskStep ==
  ASSUME TrIInv, NEW r \in Runs, Task(r) \/ Breaks(r)
  PROVE  TrIInv'
<1>1. /\ runs[r] \in Run /\ partial \in Runs \cup {0} /\ final \in Runs \cup {0}
      /\ news \in Seq(Reports) /\ runs \in [Runs -> Run]
  BY DEF TrIInv, TrTyped
<1>2. CASE TakePermit(r) \/ Open(r) \/ Cancelled(r) \/ Breaks(r)
  <2>1. /\ UNCHANGED <<trRest, trFiles, news>> /\ runs[r].stage # "none"
        /\ \E stage \in {"opening", "checking", "failing"},
              result \in {"none", "Failed", "Interrupted"} :
             Becomes(r, stage, result) /\ (stage \in Early => runs[r].stage \in Early)
    BY <1>2 DEF TakePermit, Open, Cancelled, Breaks, Step, Early
  <2>2. QED
    BY <2>1, LeftOff
<1>3. CASE VerifyCopy(r)
  <2>1. UNCHANGED <<trRest, trFiles, news>> /\ runs[r].stage = "flushed"
    BY <1>3 DEF VerifyCopy, Step
  <2>2. CASE Becomes(r, "failing", "Failed")
    BY <2>1, <2>2, LeftOff DEF Early
  <2>3. CASE partial # 0 /\ Len(contents[partial]) = runs[r].total /\ Found(r, runs[r].total)
    <3> DEFINE n == [runs[r] EXCEPT !.stage = "verified", !.file = partial,
                                    !.total = runs[r].total]
    <3>1. runs' = [runs EXCEPT ![r] = n] /\ runs[r].total \in Nat
      BY <1>1, <2>3 DEF Found, Run
    <3>2. /\ n \in Run /\ n.stage = "verified" /\ n.file = partial
          /\ n.total = runs[r].total
      BY <1>1, <3>1 DEF Run, Stages
    <3> HIDE DEF n
    <3>3. Sound(n)
      BY <2>3, <3>1, <3>2 DEF Sound, Copying
    <3>4. ~touched => \A v \in Version : Same(v) => Agrees(n, v)
      BY <2>1, <3>2 DEF Same, Agrees, Copying
    <3>5. QED
      BY <1>1, <2>1, <3>1, <3>2, <3>3, <3>4, RunOnly
      DEF Early, trRest, trStays, trTables, trQueues, trSource, trUser
  <2>4. QED
    BY <1>3, <2>2, <2>3 DEF VerifyCopy
<1>4. CASE Finalize(r)
  <2>1. UNCHANGED <<trStays, contents, news, late>> /\ runs[r].stage = "verified"
    BY <1>4 DEF Finalize, Step
  <2>2. CASE Becomes(r, "failing", "Failed") /\ UNCHANGED <<partial, final, swapped, length>>
    BY <2>1, <2>2, LeftOff DEF Early, trRest, trFiles
  <2>3. CASE /\ partial # 0 /\ final' = partial /\ partial' = 0
             /\ Becomes(r, "renamed", "none") /\ length' = runs[r].total
             /\ swapped' = (swapped \/ partial # runs[r].file)
    <3> DEFINE n == [runs[r] EXCEPT !.stage = "renamed", !.result = "none"]
    <3>1. runs' = [runs EXCEPT ![r] = n] /\ runs[r].total \in Nat
      BY <1>1, <2>3 DEF Becomes, Run
    <3>2. n \in Run /\ n.stage = "renamed" /\ n.file = runs[r].file
      BY <1>1 DEF Run, Stages
    <3> HIDE DEF n
    <3>3. Sound(n) /\ \A v : Agrees(n, v)
      BY <3>2, TaskIsIdle
    <3>4. runs[r].total <= Len(contents[runs[r].file])
      BY <2>1 DEF TrIInv, Bytes, Sound
    <3>5. /\ swapped' \in BOOLEAN /\ length' \in Nat
          /\ final' # 0 => swapped' \/ length' <= Len(contents[final'])
      BY <1>1, <2>3, <3>1, <3>4 DEF TrIInv, TrTyped
    <3>6. ~touched => \E v \in Version :
            Same(v) /\ Agrees(n, v) /\ (final' # 0 => swapped' \/ length' = v.size)
      <4>1. ASSUME NEW v \in Version, Same(v)
            PROVE  length' = v.size
        BY <2>1, <2>3, <4>1 DEF Same, Agrees
      <4>2. QED
        BY <3>3, <4>1 DEF TrIInv, OneSource
    <3>7. QED
      BY <1>1, <2>1, <2>3, <3>1, <3>2, <3>3, <3>5, <3>6, RunMoved
      DEF Early, trStays, trTables, trQueues, trSource, trUser
  <2>4. QED
    BY <1>4, <2>2, <2>3 DEF Finalize
<1>5. CASE Report(r)
  <2> DEFINE n == [NoRun EXCEPT !.stage = "ended"]
  <2>1. /\ runs[r].stage # "none" /\ runs' = [runs EXCEPT ![r] = n]
        /\ UNCHANGED <<trTables, starts, flags, trFiles, trSource, trUser, touched, swapped, length,
                       late>>
    BY <1>5 DEF Report, trHistory
  <2>2. n \in Run /\ n.stage = "ended" /\ n.file = 0
    BY DEF Run, Stages, NoRun
  <2> HIDE DEF n
  <2>3. Sound(n) /\ \A v : Agrees(n, v)
    BY <2>2, TaskIsIdle
  <2>4. news' \in Seq(Reports)
    <3>1. PICK state \in Reports : news' = Told(state)
      BY <1>1, <1>5 DEF Report, Run, Reports, Settled
    <3>2. QED
      BY <1>1, <3>1, ToldReports
  <2>5. QED
    BY <1>1, <2>1, <2>2, <2>3, <2>4, RunOnly DEF Early, trTables, trSource, trUser
<1>6. QED
  BY <1>2, <1>3, <1>4, <1>5, CheckStep, CopyStep, WriteStep DEF Task

\* The session handles a control.
LEMMA ControlStep ==
  ASSUME TrIInv, HandleControl
  PROVE  TrIInv'
<1>1. /\ UNCHANGED <<runs, contents, final, versions, expected, touched, swapped, length, late,
                     partial, starts, saved, shown>>
  BY DEF HandleControl, trFiles, trSource, trUser, trHistory
<1>2. /\ flags \in [Runs -> 0..2] /\ {entry, joined} \subseteq Runs \cup {0}
      /\ entry # 0 => entry \in Runs
      /\ starts \in Nat /\ news \in Seq(Reports) /\ saved \in Reports
  BY DEF TrIInv, TrTyped
<1>3. Once'
  BY <1>1 DEF TrIInv, Once
<1>4. CASE HandleFlag
  <2>1. /\ entry' = entry /\ joined' = joined /\ news' = news
        /\ \E v \in {0, 1} : flags' = IF entry # 0 THEN [flags EXCEPT ![entry] = v] ELSE flags
    BY <1>4 DEF HandleFlag
  <2>2. flags' \in [Runs -> 0..2]
    BY <1>2, <2>1
  <2>3. \A r \in Runs : flags[r] = 2 => flags'[r] = 2
    BY <1>2, <2>1 DEF TrIInv, Registered
  <2>4. Registered'
    BY <1>1, <1>2, <2>1, <2>3 DEF TrIInv, Registered
  <2>5. QED
    BY <1>1, <1>2, <1>3, <2>1, <2>2, <2>4, FlagsMoved
<1>5. CASE HandleCancel
  <2>1. /\ entry' = 0 /\ joined' = joined /\ news' = news
        /\ flags' = IF entry # 0 THEN [flags EXCEPT ![entry] = 2] ELSE flags
    BY <1>5 DEF HandleCancel
  <2>2. flags' \in [Runs -> 0..2]
    BY <1>2, <2>1
  <2>3. Registered'
    BY <1>1, <1>2, <2>1 DEF TrIInv, Registered
  <2>4. QED
    BY <1>1, <1>2, <1>3, <2>1, <2>2, <2>3, FlagsMoved
<1>6. CASE HandleFinished \/ HandleClose
  <2>1. entry' = 0 /\ joined' \in {0, joined} /\ flags' = flags
    BY <1>6 DEF HandleFinished, HandleClose
  <2>2. Registered'
    BY <1>1, <2>1 DEF TrIInv, Registered
  <2>3. news' \in Seq(Reports)
    BY <1>2, <1>6, ToldReports DEF HandleFinished, HandleClose, Reports, Settled
  <2>4. QED
    BY <1>1, <1>2, <1>3, <2>1, <2>2, <2>3, FlagsMoved
<1>7. QED
  BY <1>4, <1>5, <1>6 DEF HandleControl

(* A task of its own for the transfer; a fingerprint that is known is kept *)
(* from the first one.                                                     *)
LEMMA StartStep ==
  ASSUME TrIInv, StartDownload
  PROVE  TrIInv'
<1>1. PICK r \in Runs :
        /\ runs[r].stage = "none"
        /\ runs' = [runs EXCEPT ![r].stage = "waiting"]
        /\ entry' = r /\ joined' = r
  BY DEF StartDownload
<1>2. /\ expected' \in (IF expected = Unknown THEN {Unknown, Now} ELSE {expected})
      /\ starts > 0 /\ starts' = starts - 1 /\ news' = Append(news, "Started")
      /\ UNCHANGED <<flags, contents, partial, final, versions, saved, shown, touched, swapped,
                     length, late>>
  BY DEF StartDownload, trFiles, trUser, trHistory
<1> DEFINE n == [runs[r] EXCEPT !.stage = "waiting"]
<1>3. runs' = [runs EXCEPT ![r] = n] /\ n \in Run /\ n.stage = "waiting" /\ n.file = runs[r].file
  BY <1>1 DEF TrIInv, TrTyped, Run, Stages
<1> HIDE DEF n
<1>4. /\ runs'[r] = n /\ \A s \in Runs \ {r} : runs'[s] = runs[s]
      /\ Now \in Version /\ Now # Unknown /\ expected \in Version \cup {Unknown}
      /\ contents \in [Runs -> Seq(Nat)] /\ starts \in Nat /\ final \in Runs \cup {0}
  BY <1>3, NowIsVersion DEF TrIInv, TrTyped
<1>5. TrTyped'
  <2>1. runs' \in [Runs -> Run]
    BY <1>3 DEF TrIInv, TrTyped
  <2>2. news' \in Seq(Reports)
    BY <1>2, ToldReports DEF TrIInv, TrTyped, Reports
  <2>3. starts' \in Nat /\ expected' \in Version \cup {Unknown}
    BY <1>2, <1>4
  <2>4. QED
    BY <1>1, <1>2, <2>1, <2>2, <2>3 DEF TrIInv, TrTyped
<1>6. Fresh'
  BY <1>1, <1>2, <1>3, <1>4 DEF TrIInv, Fresh, Early
<1>7. Bytes' /\ Whole'
  <2>1. \A s \in Runs : Sound(runs[s])'
    BY <1>2, <1>3, <1>4 DEF TrIInv, Bytes, Sound, source, Copying
  <2>2. QED
    BY <1>2, <2>1 DEF TrIInv, Bytes, Whole
<1>8. OneSource'
  <2> SUFFICES ASSUME ~touched
               PROVE  \E v \in Version : Same(v)'
    BY <1>2 DEF OneSource
  <2>1. PICK v \in Version : Same(v)
    BY DEF TrIInv, OneSource
  <2>2. ASSUME NEW u \in Version, Same(u)
        PROVE  \A s \in Runs : Alike(contents[s], u)' /\ Agrees(runs[s], u)'
    BY <1>2, <1>3, <1>4, <2>2 DEF Same, Alike, Agrees, Now, source, Copying
  <2>3. CASE expected' = expected
    <3>1. Same(v)'
      BY <1>2, <2>1, <2>2, <2>3 DEF Same
    <3>2. QED
      BY <3>1
  <2>4. CASE expected' # expected
    <3>1. expected = Unknown /\ expected' = Now /\ starts = 1
      BY <1>2, <1>4, <2>4 DEF TrIInv, Once
    <3>2. \A s \in Runs : runs[s].stage = "none"
      BY <3>1 DEF TrIInv, Once
    <3>3. \A s \in Runs : contents[s] = <<>> /\ s # final
      BY <3>2 DEF TrIInv, Fresh, Early
    <3>4. Same(Now)
      BY <1>4, <3>1, <3>2, <3>3, NowIsVersion DEF TrIInv, Same, Alike, Agrees, Copying, Version
    <3>5. PICK u \in Version : u = Now
      BY <1>4
    <3>6. Same(u)'
      BY <1>2, <1>4, <2>2, <3>1, <3>3, <3>4, <3>5 DEF Same
    <3>7. QED
      BY <3>6
  <2>5. QED
    BY <2>3, <2>4
<1>9. Once'
  BY <1>1, <1>2, <1>3, <1>4 DEF TrIInv, Once
<1>10. Registered'
  BY <1>1, <1>2, <1>3, <1>4 DEF TrIInv, Registered
<1>11. QED
  BY <1>5, <1>6, <1>7, <1>8, <1>9, <1>10 DEF TrIInv

\* The source changes.
LEMMA SourceStep ==
  ASSUME TrIInv, SourceChanges
  PROVE  TrIInv'
<1>1. PICK new \in [size : 1..Size, time : {Now.time, Now.time + 1}] :
        versions' = Append(versions, new)
  BY DEF SourceChanges
<1>2. /\ touched' = (touched \/ \E r \in Runs : runs[r].stage \in Copying)
      /\ UNCHANGED <<runs, flags, contents, partial, final, entry, joined, expected, swapped,
                     starts, news, shown, saved, length, late>>
  BY DEF SourceChanges, trTables, trQueues, trFiles
<1>3. new \in Version /\ versions \in Seq(Version) /\ Len(versions) \in Nat /\ versions # <<>>
  <2>1. Now \in Version /\ Size \in Nat
    BY NowIsVersion, TransferSizes DEF TrIInv
  <2>2. new.size \in Nat \ {0} /\ new.time \in Nat
    BY <2>1 DEF Version
  <2>3. QED
    BY <2>2 DEF TrIInv, TrTyped, Version
<1>4. /\ versions' \in Seq(Version) /\ versions' # <<>> /\ Len(versions') = Len(versions) + 1
      /\ \A i \in 1..Len(versions) : versions'[i] = versions[i]
  BY <1>1, <1>3, AppendProperties
<1>5. TrTyped'
  BY <1>2, <1>4 DEF TrIInv, TrTyped
<1>6. Bytes'
  <2> SUFFICES ASSUME NEW s \in Runs
               PROVE  Sound(runs[s])'
    BY DEF Bytes
  <2>1. Sound(runs[s])
    BY DEF TrIInv, Bytes
  <2>2. runs[s].got \in 1..source => runs[s].got \in 1..source' /\ versions'[runs[s].got] = versions[runs[s].got]
    BY <1>3, <1>4 DEF source
  <2>3. QED
    BY <1>2, <2>1, <2>2 DEF Sound
<1>7. OneSource'
  <2> SUFFICES ASSUME ~touched, \A r \in Runs : runs[r].stage \notin Copying
               PROVE  \E v \in Version : Same(v)'
    BY <1>2 DEF OneSource
  <2>1. PICK v \in Version : Same(v)
    BY DEF TrIInv, OneSource
  <2>2. \A s \in Runs : Agrees(runs[s], v)'
    BY <1>2, <2>1 DEF Same, Agrees, Copying
  <2>3. \A s \in Runs : Alike(contents[s], v)'
    BY <1>2, <1>3, <1>4, <2>1 DEF Same, Alike, source
  <2>4. Same(v)'
    BY <1>2, <2>1, <2>2, <2>3 DEF Same
  <2>5. QED
    BY <2>4
<1>8. Fresh' /\ Whole' /\ Once' /\ Registered'
  BY <1>2 DEF TrIInv, Fresh, Whole, Once, Registered
<1>9. QED
  BY <1>5, <1>6, <1>7, <1>8 DEF TrIInv

\* The program starts again.
LEMMA RestartStep ==
  ASSUME TrIInv, Restart
  PROVE  TrIInv'
<1> DEFINE n == [NoRun EXCEPT !.stage = "ended"]
<1>1. /\ entry' = 0 /\ joined' = 0 /\ starts' = 0 /\ news' = <<>>
      /\ runs' = [r \in Runs |-> IF runs[r].stage = "none" THEN runs[r] ELSE n]
      /\ UNCHANGED <<flags, contents, partial, final, versions, expected, saved, touched, swapped,
                     length, late>>
      /\ shown' = IF saved \in {"Running", "Paused"}
                  THEN IF expected = Unknown THEN "Zombie" ELSE "Recoverable"
                  ELSE saved
  BY DEF Restart, trFiles, trSource, trHistory
<1>2. n \in Run /\ n.stage = "ended" /\ n.file = 0
  BY DEF NoRun, Run, Stages
<1> HIDE DEF n
<1>3. \A r \in Runs : runs'[r] = IF runs[r].stage = "none" THEN runs[r] ELSE n
  BY <1>1
<1>4. TrTyped'
  <2>1. runs' \in [Runs -> Run]
    BY <1>1, <1>2 DEF TrIInv, TrTyped
  <2>2. QED
    BY <1>1, <2>1 DEF TrIInv, TrTyped
<1>5. Fresh'
  BY <1>1, <1>2, <1>3, ZeroIsNoRun DEF TrIInv, Fresh, Early
<1>6. Bytes' /\ Whole'
  <2>1. \A s \in Runs : Sound(runs[s])'
    BY <1>1, <1>2, <1>3 DEF TrIInv, Bytes, Sound, source, Copying
  <2>2. QED
    BY <1>1, <2>1 DEF TrIInv, Bytes, Whole
<1>7. OneSource'
  <2>1. ASSUME NEW v \in Version, Same(v)
        PROVE  Same(v)'
    <3>1. \A s \in Runs : Alike(contents[s], v)' /\ Agrees(runs[s], v)'
      BY <1>1, <1>2, <1>3, <2>1 DEF Same, Alike, Agrees, Now, source, Copying
    <3>2. QED
      BY <1>1, <2>1, <3>1 DEF Same
  <2>2. QED
    BY <1>1, <2>1 DEF TrIInv, OneSource
<1>8. Once'
  <2>1. expected = Unknown => shown' # "Recoverable"
    BY <1>1 DEF TrIInv, TrTyped, Reports, Settled
  <2>2. \A r \in Runs : runs'[r].stage # "none" => runs[r].stage # "none"
    BY <1>3
  <2>3. QED
    BY <1>1, <2>1, <2>2 DEF TrIInv, Once
<1>9. Registered'
  BY <1>1, <1>2, <1>3 DEF TrIInv, Registered
<1>10. QED
  BY <1>4, <1>5, <1>6, <1>7, <1>8, <1>9 DEF TrIInv

\* The user asks, or the window shows something.
LEMMA UserStep ==
  ASSUME TrIInv,
         \/ \E c \in {"pause", "resume", "cancel", "close"} : Ask(c)
         \/ AskRecover \/ RemoveTransfer \/ Show \/ OtherStarts \/ OtherEnds
  PROVE  TrIInv'
<1>1. /\ UNCHANGED <<runs, contents, final, versions, expected, touched, swapped, length, late,
                     flags, entry, joined>>
      /\ partial' \in {0, partial}
  BY DEF Ask, AskRecover, RemoveTransfer, Show, OtherStarts, OtherEnds, trTables, trFiles, trSource,
         trHistory
<1>2. /\ flags \in [Runs -> 0..2] /\ {entry, joined} \subseteq Runs \cup {0} /\ Registered
      /\ starts \in Nat /\ news \in Seq(Reports) /\ saved \in Reports /\ Once
  BY DEF TrIInv, TrTyped
<1>3. Registered'
  BY <1>1, <1>2 DEF Registered
<1>4. CASE Show
  <2>1. Head(news) \in Reports /\ Tail(news) \in Seq(Reports)
    BY <1>2, <1>4, HeadTailProperties DEF Show
  <2>2. PICK now \in Reports : shown' = now /\ saved' \in {now, saved}
    BY <1>2, <1>4, <2>1 DEF Show, Reports
  <2>3. /\ starts' = starts /\ news' \in Seq(Reports) /\ saved' \in Reports
        /\ shown' # "Recoverable"
    BY <1>2, <1>4, <2>1, <2>2 DEF Show, trQueues, Reports, Settled
  <2>4. Once'
    BY <1>1, <1>2, <2>3 DEF Once
  <2>5. QED
    BY <1>1, <1>2, <1>3, <2>3, <2>4, FlagsMoved
<1>5. CASE AskRecover
  <2>1. starts' = starts + 1 /\ UNCHANGED <<news, shown, saved>> /\ shown = "Recoverable"
    BY <1>5 DEF AskRecover
  <2>2. Once'
    BY <1>1, <1>2, <2>1 DEF Once
  <2>3. QED
    BY <1>1, <1>2, <1>3, <2>1, <2>2, FlagsMoved
<1>6. CASE RemoveTransfer
  <2>1. starts' = starts /\ news' = news /\ shown' = "none" /\ saved' = "none"
    BY <1>6 DEF RemoveTransfer, trQueues
  <2>2. Once' /\ saved' \in Reports
    BY <1>1, <1>2, <2>1 DEF Once, Reports
  <2>3. QED
    BY <1>1, <1>2, <1>3, <2>1, <2>2, FlagsMoved
<1>7. CASE (\E c \in {"pause", "resume", "cancel", "close"} : Ask(c)) \/ OtherStarts \/ OtherEnds
  <2>1. UNCHANGED <<starts, news, shown, saved>>
    BY <1>7 DEF Ask, OtherStarts, OtherEnds, trQueues, trUser
  <2>2. Once'
    BY <1>1, <1>2, <2>1 DEF Once
  <2>3. QED
    BY <1>1, <1>2, <1>3, <2>1, <2>2, FlagsMoved
<1>8. QED
  BY <1>4, <1>5, <1>6, <1>7

\* The session aborts the task it still holds.
LEMMA AbortStep ==
  ASSUME TrIInv, AbortTasks
  PROVE  TrIInv'
<1> DEFINE n == [NoRun EXCEPT !.stage = "ended"]
<1>1. /\ UNCHANGED <<trFiles, versions, expected, touched, swapped, length, late, flags, entry,
                     starts, news, saved, shown>>
      /\ joined' = 0
      /\ runs' = IF joined # 0 THEN [runs EXCEPT ![joined] = n] ELSE runs
  BY DEF AbortTasks, trQueues, trSource, trUser, trHistory
<1>2. n \in Run /\ n.stage = "ended" /\ n.file = 0
  BY DEF NoRun, Run, Stages
<1> HIDE DEF n
<1>3. TrTyped /\ Registered /\ Once
  BY DEF TrIInv
<1>4. CASE joined = 0
  <2>1. Registered' /\ Once'
    BY <1>1, <1>3, <1>4 DEF Registered, Once
  <2>2. QED
    BY <1>1, <1>3, <1>4, <2>1, FlagsMoved DEF TrTyped, trFiles
<1>5. CASE joined # 0
  <2>1. joined \in Runs /\ runs[joined].stage # "none" /\ news \in Seq(Reports)
    BY <1>3, <1>5 DEF TrTyped, Registered
  <2>2. Sound(n) /\ \A v : Agrees(n, v)
    BY <1>2, TaskIsIdle
  <2>3. QED
    BY <1>1, <1>2, <1>5, <2>1, <2>2, RunOnly DEF Early
<1>6. QED
  BY <1>4, <1>5

\* Every step keeps the invariant.
LEMMA TrStep ==
  ASSUME TrIInv, TrNext
  PROVE  TrIInv'
BY UserStep, ControlStep, AbortStep, StartStep, TaskStep, SourceStep, RestartStep DEF TrNext

\* It holds at the start.
LEMMA TrInitially ==
  ASSUME TrInit
  PROVE  TrIInv
<1> DEFINE first == [size |-> Size, time |-> 1]
           left == [NoRun EXCEPT !.stage = "ended"]
<1>1. first \in Version /\ first # Unknown /\ Size \in Nat
  BY TransferSizes DEF Version, Unknown
<1>2. /\ versions = <<first>> /\ source = 1 /\ Now = first
      /\ versions \in Seq(Version) /\ versions # <<>>
  BY <1>1 DEF TrInit, source, Now
<1>3. NoRun \in Run /\ left \in Run /\ left.stage = "ended" /\ left.file = 0
  BY DEF NoRun, Run, Stages
<1>4. /\ entry = 0 /\ joined = 0 /\ final = 0 /\ news = <<>> /\ length = 0 /\ touched = FALSE
      /\ swapped = FALSE /\ flags = [r \in Runs |-> 0] /\ late = [r \in Runs |-> 0]
  BY DEF TrInit
<1>5. 1 \in Runs
  BY TransferSizes DEF Runs
<1>6. /\ runs \in [Runs -> Run] /\ \A r \in Runs : runs[r] = NoRun \/ (r = 1 /\ runs[r] = left)
      /\ contents \in [Runs -> Seq(Nat)]
      /\ \A r \in Runs : contents[r] = <<>> \/ (r = 1 /\ runs[1] = left)
      /\ \A r \in Runs : Alike(contents[r], first)
      /\ partial = 0 \/ (partial = 1 /\ runs[1] = left)
      /\ starts \in 0..1 /\ saved \in Reports
      /\ \/ expected = first
         \/ /\ expected = Unknown /\ shown # "Recoverable"
            /\ \A r \in Runs : runs[r] = NoRun
  <2>1. CASE Begins
    <3>1. \A r \in Runs : contents[r] = <<>> /\ runs[r] = NoRun
      BY <2>1 DEF Begins
    <3>2. \A r \in Runs : Alike(contents[r], first)
      BY <1>1, <3>1 DEF Alike
    <3>3. contents \in [Runs -> Seq(Nat)] /\ runs \in [Runs -> Run]
      BY <1>3, <2>1 DEF Begins
    <3>4. QED
      BY <2>1, <3>1, <3>2, <3>3 DEF Begins, Reports
  <2>2. CASE WasLeft
    <3>1. PICK n \in 0..Size :
            contents = [r \in Runs |-> IF r = 1 THEN [k \in 1..n |-> 1] ELSE <<>>]
      BY <2>2 DEF WasLeft
    <3>2. n \in Nat /\ [k \in 1..n |-> 1] \in Seq(Nat) /\ Len([k \in 1..n |-> 1]) = n
      BY <1>1
    <3>3. contents \in [Runs -> Seq(Nat)]
      BY <3>1, <3>2
    <3>4. \A r \in Runs : Alike(contents[r], first)
      <4> TAKE r \in Runs
      <4>1. CASE r = 1
        BY <1>1, <1>2, <3>1, <3>2, <4>1 DEF Alike
      <4>2. CASE r # 1
        BY <1>1, <3>1, <4>2 DEF Alike
      <4>3. QED
        BY <4>1, <4>2
    <3>5. runs = [r \in Runs |-> IF r = 1 THEN left ELSE NoRun]
      BY <2>2 DEF WasLeft
    <3>6. runs \in [Runs -> Run] /\ \A r \in Runs : runs[r] = IF r = 1 THEN left ELSE NoRun
      BY <1>3, <3>5
    <3>7. \A r \in Runs : r # 1 => contents[r] = <<>>
      BY <3>1
    <3>8. \A r \in Runs : runs[r] = NoRun \/ (r = 1 /\ runs[r] = left)
      BY <3>6
    <3>9. runs[1] = left
      BY <1>5, <3>6
    <3>10. /\ partial = 1 /\ starts \in 0..1 /\ saved \in Reports /\ expected = first
      BY <1>2, <2>2 DEF WasLeft, Reports
    <3> HIDE DEF first, left
    <3>11. QED
      BY <3>3, <3>4, <3>6, <3>7, <3>8, <3>9, <3>10
  <2>3. QED
    BY <2>1, <2>2 DEF TrInit
<1> HIDE DEF first, left
<1>7. TrTyped
  <2>1. flags \in [Runs -> 0..2] /\ late \in [Runs -> 0..1]
    BY <1>4
  <2>2. news \in Seq(Reports)
    BY <1>4, EmptySeq
  <2>3. {entry, joined, partial, final} \subseteq Runs \cup {0}
    BY <1>4, <1>5, <1>6
  <2>4. starts \in Nat /\ length \in Nat
    BY <1>4, <1>6
  <2>5. touched \in BOOLEAN /\ swapped \in BOOLEAN
    BY <1>4
  <2>6. expected \in Version \cup {Unknown}
    BY <1>1, <1>6
  <2>7. QED
    BY <1>2, <1>6, <2>1, <2>2, <2>3, <2>4, <2>5, <2>6 DEF TrTyped
<1>8. NoRun.stage = "none" /\ NoRun.file = 0
  BY DEF NoRun
<1>9. Fresh
  BY <1>3, <1>4, <1>5, <1>6, <1>8, ZeroIsNoRun DEF Fresh, Early
<1>10. \A r \in Runs : runs[r].stage \in {"none", "ended"}
  BY <1>3, <1>6, <1>8
<1>11. Bytes /\ Whole
  BY <1>4, <1>10 DEF Bytes, Whole, Sound, Copying
<1>12. OneSource
  <2>1. \A r \in Runs : Agrees(runs[r], first)
    BY <1>10 DEF Agrees, Copying
  <2>2. Same(first)
    BY <1>4, <1>6, <2>1 DEF Same
  <2>3. QED
    BY <1>1, <2>2 DEF OneSource
<1>13. Once /\ Registered
  BY <1>1, <1>4, <1>6, <1>8, <1>10 DEF Once, Registered
<1>14. QED
  BY <1>7, <1>9, <1>11, <1>12, <1>13 DEF TrIInv

\* A step without a change keeps it.
LEMMA TrStutter ==
  ASSUME TrIInv, UNCHANGED trVars
  PROVE  TrIInv'
<1>1. UNCHANGED <<entry, joined, starts, runs, flags, contents, partial, final, versions, expected,
                  news, shown, saved, touched, swapped, length, late>>
  BY DEF trVars, trTables, trQueues, trFiles, trSource, trUser, trHistory
<1>2. flags' \in [Runs -> 0..2] /\ Registered' /\ Once' /\ TrTyped
  BY <1>1 DEF TrIInv, TrTyped, Registered, Once
<1>3. QED
  BY <1>1, <1>2, FlagsMoved DEF TrTyped

\* The invariant of a transfer.
LEMMA TrAlways == TrSpec => []TrIInv
<1>1. TrIInv /\ [TrNext]_trVars => TrIInv'
  BY TrStep, TrStutter
<1>2. QED
  BY TrInitially, <1>1, PTL DEF TrSpec

\* What the property asks is part of the invariant.
LEMMA OneFingerprintKept ==
  ASSUME TrIInv
  PROVE  OneFingerprint
<1> SUFFICES ASSUME final # 0
             PROVE  LET file == contents[final] IN
                    /\ swapped \/ Len(file) >= length
                    /\ touched \/ \A i, j \in DOMAIN file :
                         /\ versions[file[i]] = versions[file[j]]
                         /\ swapped \/ Len(file) = versions[file[i]].size
  BY DEF OneFingerprint
<1>1. final \in Runs /\ contents[final] \in Seq(Nat) /\ length \in Nat
  BY DEF TrIInv, TrTyped
<1>2. Len(contents[final]) \in Nat /\ DOMAIN contents[final] = 1..Len(contents[final])
  BY <1>1
<1>3. swapped \/ Len(contents[final]) >= length
  BY <1>1, <1>2 DEF TrIInv, Whole
<1>4. ASSUME ~touched
      PROVE  \A i, j \in DOMAIN contents[final] :
               /\ versions[contents[final][i]] = versions[contents[final][j]]
               /\ swapped \/ Len(contents[final]) = versions[contents[final][i]].size
  <2>1. PICK v \in Version : Same(v)
    BY <1>4 DEF TrIInv, OneSource
  <2>2. Alike(contents[final], v) /\ (swapped \/ length = v.size) /\ v.size \in Nat
    BY <1>1, <2>1 DEF Same, Version
  <2>3. swapped \/ Len(contents[final]) = v.size
    BY <1>1, <1>2, <1>3, <2>2 DEF Alike
  <2>4. \A i \in DOMAIN contents[final] : versions[contents[final][i]] = v
    BY <1>2, <2>2 DEF Alike
  <2>5. QED
    BY <2>3, <2>4
<1>5. QED
  BY <1>3, <1>4

(* Through restarts and tasks that share a partial file, a finished        *)
(* download is as long as the task that finished it found the source to    *)
(* be, and made of versions with one fingerprint, for every size of the    *)
(* file and any number of tasks, versions and fingerprints, known or not   *)
(* (download_path_impl, download_file_impl, remove_transfer).              *)
THEOREM FinishedIsOneFingerprint == TrSpec => []OneFingerprint
BY TrAlways, OneFingerprintKept, PTL

-----------------------------------------------------------------------------
\* No step resets the flag of a cancelled task.
LEMMA CancelledStays ==
  ASSUME TrIInv, TrIInv', TrNext, NEW r \in Runs, flags[r] = 2
  PROVE  flags'[r] = 2 /\ late'[r] <= 1
<1>0. late'[r] <= 1
  <2>1. late' \in [Runs -> 0..1]
    BY DEF TrIInv, TrTyped
  <2>2. late'[r] \in 0..1
    BY <2>1
  <2>3. QED
    BY <2>2
<1>1. flags \in [Runs -> 0..2] /\ entry # r /\ entry \in Runs \cup {0}
  BY ZeroIsNoRun DEF TrIInv, TrTyped, Registered
<1>2. CASE HandleControl
  <2>1. \/ \E v : flags' = IF entry # 0 THEN [flags EXCEPT ![entry] = v] ELSE flags
        \/ flags' = flags
    BY <1>2 DEF HandleControl, HandleFlag, HandleCancel, HandleFinished, HandleClose
  <2>2. QED
    BY <1>0, <1>1, <2>1
<1>3. CASE ~HandleControl
  <2>1. flags' = flags
    BY <1>3 DEF TrNext, Ask, AskRecover, RemoveTransfer, Show, OtherStarts, OtherEnds, AbortTasks,
                StartDownload, Task, Breaks, TakePermit, Open, Check, Pause, Cancelled, Proceed, Read,
                Write, VerifyCopy, Finalize, Report, SourceChanges, Restart, trRest, trStays
  <2>2. QED
    BY <1>0, <2>1
<1>4. QED
  BY <1>2, <1>3

(* A task that was cancelled stays so, although its flag is shared with    *)
(* the session that pauses and resumes it, and writes one chunk more at    *)
(* most, the one it was reading or writing when it was cancelled           *)
(* (handle_cancel_transfer, yield_if_paused, download_file_impl).          *)
THEOREM CancelledForGood == TrSpec => CancelSticks
<1>1. TrIInv /\ TrIInv' /\ [TrNext]_trVars =>
        [\A r \in Runs : flags[r] = 2 => flags'[r] = 2 /\ late'[r] <= 1]_trVars
  BY CancelledStays
<1>2. QED
  BY TrAlways, <1>1, PTL DEF TrSpec, CancelSticks
-----------------------------------------------------------------------------
(* A remote text file in the editor.                                       *)

SaveStages == {"none", "look", "look again", "replace", "fallback", "place", "drop backup",
               "verify", "over"}
SaveTask == [stage : SaveStages, content : Nat, expected : Nat, force : BOOLEAN, base : Nat,
             crossed : BOOLEAN, raced : BOOLEAN, backup : Nat]
Doc == [open : BOOLEAN, connected : BOOLEAN, text : Nat, savedText : Nat, revision : Nat,
        source : Nat, dirty : BOOLEAN, saving : BOOLEAN, conflict : Nat, atStart : Nat,
        awaits : Saves \cup {0}, base : Nat, crossed : BOOLEAN]
Answer == [kind : {"content", "uploaded", "conflict", "failed"}, content : Nat,
           job : Saves \cup {0}]

EdTyped ==
  /\ onServer \in Nat /\ stored \subseteq Nat \ {0} /\ typed \in Nat
  /\ doc \in Doc /\ saves \in [Saves -> SaveTask] /\ answers \in Seq(Answer)

Active(j) == saves[j].stage \notin {"none", "over"}

(* What is at the path or in a backup was stored, and while nothing is at  *)
(* the path, a save keeps what was there.                                  *)
Stored ==
  /\ onServer # 0 => onServer \in stored
  /\ \A j \in Saves : saves[j].backup # 0 => saves[j].backup \in stored
KeptAside == onServer = 0 => \E j \in Saves : saves[j].backup # 0 /\ saves[j].stage \in {"place", "over"}

TabTexts ==
  doc.open =>
    /\ doc.text # 0 /\ doc.savedText # 0 /\ doc.source # 0
    /\ ~doc.dirty => doc.text = doc.savedText
    /\ doc.conflict # 0 => doc.conflict \in stored
    /\ ~doc.crossed => doc.savedText \in stored /\ doc.source \in stored /\ doc.revision = doc.base

SaveTasks ==
  \A j \in Saves :
    /\ Active(j) => saves[j].content # 0
    /\ Active(j) /\ ~saves[j].crossed => saves[j].expected = saves[j].base
    /\ saves[j].stage = "place" => saves[j].backup # 0
    /\ saves[j].stage \in {"replace", "fallback"} /\ ~saves[j].force /\ ~saves[j].raced =>
         onServer = saves[j].expected

(* An answer tells of what is stored, and is the last word of its save.    *)
Mail ==
  \A i \in 1..Len(answers) :
    /\ answers[i].kind = "content" => answers[i].content \in stored
    /\ answers[i].kind # "content" => answers[i].job # 0 /\ saves[answers[i].job].stage = "over"
    /\ answers[i].kind \in {"uploaded", "conflict"} => answers[i].content \in stored

(* The save that a tab waits for carries the text the tab had when it was  *)
(* asked for, and so does the answer.                                      *)
Awaited ==
  doc.open /\ ~doc.crossed /\ doc.awaits # 0 =>
    /\ saves[doc.awaits].stage # "none"
    /\ doc.atStart # 0 =>
         /\ Active(doc.awaits) => saves[doc.awaits].content = doc.atStart
         /\ \A i \in 1..Len(answers) : answers[i].kind = "uploaded" /\ answers[i].job = doc.awaits
              => answers[i].content = doc.atStart

EdIInv == EdTyped /\ Stored /\ KeptAside /\ TabTexts /\ SaveTasks /\ Mail /\ Awaited

\* 0, the mark of nobody, is no save.
LEMMA ZeroIsNoSave == 0 \notin Saves
BY EditorAssumption DEF Saves

(* A step of the tab alone.                                                *)
LEMMA TabMoved ==
  ASSUME EdIInv, doc' \in Doc, typed' \in Nat, UNCHANGED <<onServer, stored, saves, answers>>,
         TabTexts', Awaited'
  PROVE  EdIInv'
<1>1. EdTyped'
  BY DEF EdIInv, EdTyped
<1>2. Stored' /\ KeptAside'
  BY DEF EdIInv, Stored, KeptAside
<1>3. SaveTasks'
  BY DEF EdIInv, SaveTasks, Active
<1>4. Mail'
  BY DEF EdIInv, Mail
<1>5. QED
  BY <1>1, <1>2, <1>3, <1>4 DEF EdIInv

(* A step of one save, which may report.                                   *)
SameTask(s, t) ==
  /\ s.content = t.content /\ s.expected = t.expected /\ s.base = t.base
  /\ s.force = t.force /\ s.crossed = t.crossed

\* One save goes on, without an answer; the path may change with it.
LEMMA SaveMoved ==
  ASSUME EdIInv, NEW j \in Saves, NEW s \in SaveTask, Active(j), s.stage # "none",
         saves' \in [Saves -> SaveTask], saves'[j] = s,
         \A k \in Saves \ {j} :
           /\ saves'[k].stage = saves[k].stage /\ saves'[k].backup = saves[k].backup
           /\ SameTask(saves'[k], saves[k])
           /\ \/ onServer' = onServer /\ saves'[k].raced = saves[k].raced
              \/ saves[k].stage \in {"replace", "fallback"} => saves'[k].raced,
         s.stage = "over" \/ SameTask(s, saves[j]),
         s.stage = "place" => s.backup # 0,
         s.stage \in {"replace", "fallback"} /\ ~s.force /\ ~s.raced => onServer' = s.expected,
         stored \subseteq stored', stored' \subseteq Nat \ {0}, onServer' \in Nat,
         onServer' # 0 => onServer' \in stored',
         s.backup # 0 => s.backup \in stored',
         \/ onServer' # 0
         \/ s.backup # 0 /\ s.stage \in {"place", "over"}
         \/ onServer = 0 /\ (saves[j].stage = "place" => s.backup # 0 /\ s.stage \in {"place", "over"}),
         \/ answers' = answers
         \/ /\ s.stage = "over"
            /\ \E a \in Answer :
                 /\ answers' = Append(answers, a) /\ a.job = j /\ a.kind # "content"
                 /\ a.kind \in {"uploaded", "conflict"} => a.content \in stored'
                 /\ a.kind = "uploaded" => a.content = saves[j].content,
         doc' = doc, typed' = typed
  PROVE  EdIInv'
<1>1. answers \in Seq(Answer) /\ doc.awaits \in Saves \cup {0}
  BY DEF EdIInv, EdTyped, Doc
<1>2. /\ answers' \in Seq(Answer)
      /\ \A i \in 1..Len(answers') :
           \/ i \in 1..Len(answers) /\ answers'[i] = answers[i]
           \/ /\ s.stage = "over" /\ answers'[i].job = j /\ answers'[i].kind # "content"
              /\ answers'[i].kind \in {"uploaded", "conflict"} => answers'[i].content \in stored'
              /\ answers'[i].kind = "uploaded" => answers'[i].content = saves[j].content
  <2>1. CASE answers' = answers
    BY <1>1, <2>1
  <2>2. CASE answers' # answers
    <3>1. PICK a \in Answer :
            /\ answers' = Append(answers, a) /\ a.job = j /\ a.kind # "content"
            /\ a.kind \in {"uploaded", "conflict"} => a.content \in stored'
            /\ a.kind = "uploaded" => a.content = saves[j].content
      BY <2>2
    <3>2. QED
      BY <1>1, <2>2, <3>1, AppendProperties
  <2>3. QED
    BY <2>1, <2>2
<1>3. EdTyped'
  BY <1>2 DEF EdIInv, EdTyped
<1>4. Stored'
  BY DEF EdIInv, Stored
<1>5. KeptAside'
  <2>1. SUFFICES ASSUME onServer' = 0, ~(s.backup # 0 /\ s.stage \in {"place", "over"})
                 PROVE  \E k \in Saves : saves'[k].backup # 0 /\ saves'[k].stage \in {"place", "over"}
    BY DEF KeptAside
  <2>2. PICK k \in Saves : saves[k].backup # 0 /\ saves[k].stage \in {"place", "over"}
    BY <2>1 DEF EdIInv, KeptAside
  <2>3. k # j
    BY <2>1, <2>2 DEF Active
  <2>4. QED
    BY <2>2, <2>3
<1>6. TabTexts'
  BY DEF EdIInv, TabTexts
<1>7. SaveTasks'
  <2> SUFFICES ASSUME NEW k \in Saves
               PROVE  /\ saves'[k].stage \notin {"none", "over"} => saves'[k].content # 0
                      /\ saves'[k].stage \notin {"none", "over"} /\ ~saves'[k].crossed =>
                           saves'[k].expected = saves'[k].base
                      /\ saves'[k].stage = "place" => saves'[k].backup # 0
                      /\ saves'[k].stage \in {"replace", "fallback"} /\ ~saves'[k].force /\ ~saves'[k].raced =>
                           onServer' = saves'[k].expected
    BY DEF SaveTasks, Active
  <2>1. CASE k = j
    BY <2>1 DEF EdIInv, SaveTasks, Active, SameTask
  <2>2. CASE k # j
    BY <2>2 DEF EdIInv, SaveTasks, Active, SameTask
  <2>3. QED
    BY <2>1, <2>2
<1>8. Mail'
  <2> SUFFICES ASSUME NEW i \in 1..Len(answers')
               PROVE  /\ answers'[i].kind = "content" => answers'[i].content \in stored'
                      /\ answers'[i].kind # "content" =>
                           answers'[i].job # 0 /\ saves'[answers'[i].job].stage = "over"
                      /\ answers'[i].kind \in {"uploaded", "conflict"} => answers'[i].content \in stored'
    BY DEF Mail
  <2>1. CASE i \in 1..Len(answers) /\ answers'[i] = answers[i]
    <3>1. answers[i] \in Answer /\ answers[i].job \in Saves \cup {0}
      <4>1. answers[i] \in Answer
        BY <1>1, <2>1
      <4>2. QED
        BY <4>1 DEF Answer
    <3>2. /\ answers[i].kind = "content" => answers[i].content \in stored
          /\ answers[i].kind # "content" => answers[i].job # 0 /\ saves[answers[i].job].stage = "over"
          /\ answers[i].kind \in {"uploaded", "conflict"} => answers[i].content \in stored
      BY <2>1 DEF EdIInv, Mail
    <3>3. saves[j].stage # "over"
      BY DEF Active
    <3>4. QED
      BY <2>1, <3>1, <3>2, <3>3
  <2>2. CASE ~(i \in 1..Len(answers) /\ answers'[i] = answers[i])
    BY <1>2, <2>2, ZeroIsNoSave
  <2>3. QED
    BY <2>1, <2>2
<1>9. Awaited'
  <2> SUFFICES ASSUME doc.open, ~doc.crossed, doc.awaits # 0
               PROVE  /\ saves'[doc.awaits].stage # "none"
                      /\ doc.atStart # 0 =>
                           /\ saves'[doc.awaits].stage \notin {"none", "over"} =>
                                saves'[doc.awaits].content = doc.atStart
                           /\ \A i \in 1..Len(answers') :
                                answers'[i].kind = "uploaded" /\ answers'[i].job = doc.awaits
                                  => answers'[i].content = doc.atStart
    BY DEF Awaited, Active
  <2>1. /\ saves[doc.awaits].stage # "none"
        /\ doc.atStart # 0 =>
             /\ saves[doc.awaits].stage \notin {"none", "over"} => saves[doc.awaits].content = doc.atStart
             /\ \A i \in 1..Len(answers) : answers[i].kind = "uploaded" /\ answers[i].job = doc.awaits
                  => answers[i].content = doc.atStart
    BY DEF EdIInv, Awaited, Active
  <2>2. CASE doc.awaits = j
    BY <1>2, <2>1, <2>2 DEF Active, SameTask
  <2>3. CASE doc.awaits # j
    BY <1>1, <1>2, <2>1, <2>3 DEF SameTask
  <2>4. QED
    BY <2>2, <2>3
<1>10. QED
  BY <1>3, <1>4, <1>5, <1>6, <1>7, <1>8, <1>9 DEF EdIInv

(* Of the others a step of one save changes no more than `raced`.          *)
LEMMA RacedTasks ==
  ASSUME EdIInv, NEW j \in Saves \cup {0}
  PROVE  /\ Raced(j) \in [Saves -> SaveTask]
         /\ \A k \in Saves : /\ Raced(j)[k].stage = saves[k].stage
                              /\ Raced(j)[k].backup = saves[k].backup
                              /\ SameTask(Raced(j)[k], saves[k])
         /\ \A k \in Saves \ {j} : saves[k].stage \in {"replace", "fallback"} => Raced(j)[k].raced
         /\ j # 0 => Raced(j)[j] = saves[j]
<1> DEFINE raced(k) == [saves[k] EXCEPT !.raced = TRUE]
<1>1. \A k \in Saves : saves[k] \in SaveTask
  BY DEF EdIInv, EdTyped
<1>2. ASSUME NEW k \in Saves
      PROVE  /\ raced(k) \in SaveTask /\ raced(k).stage = saves[k].stage
             /\ raced(k).backup = saves[k].backup /\ SameTask(raced(k), saves[k]) /\ raced(k).raced
  BY <1>1 DEF SaveTask, SameTask
<1>3. \A k \in Saves :
        Raced(j)[k] = IF k # j /\ saves[k].stage \in {"replace", "fallback"} THEN raced(k) ELSE saves[k]
  BY DEF Raced
<1>4. Raced(j) \in [Saves -> SaveTask]
  BY <1>1, <1>2 DEF Raced
<1> HIDE DEF raced
<1>5. QED
  BY <1>2, <1>3, <1>4 DEF SameTask

\* A step of a save: one case per action.
LEMMA SaveStep ==
  ASSUME EdIInv, NEW j \in Saves,
         \/ FirstLook(j) \/ SecondLook(j) \/ RenameOver(j) \/ RefuseRename(j)
         \/ MoveAside(j) \/ Place(j) \/ Rollback(j) \/ RemoveBackup(j) \/ VerifySaved(j)
         \/ SaveFails(j) \/ SaveStops(j)
  PROVE  EdIInv'
<1>0. /\ onServer \in Nat /\ stored \subseteq Nat \ {0} /\ saves \in [Saves -> SaveTask]
      /\ saves[j] \in SaveTask /\ saves[j].content \in Nat /\ saves[j].backup \in Nat
      /\ onServer # 0 => onServer \in stored
      /\ saves[j].backup # 0 => saves[j].backup \in stored
      /\ Active(j) => saves[j].content # 0
      /\ saves[j].stage = "place" => saves[j].backup # 0
      /\ saves[j].stage \in {"replace", "fallback"} /\ ~saves[j].force /\ ~saves[j].raced =>
           onServer = saves[j].expected
  BY DEF EdIInv, EdTyped, Stored, SaveTasks, SaveTask
<1> DEFINE at(stage) == [saves[j] EXCEPT !.stage = stage]
           over == [NoSave EXCEPT !.stage = "over", !.backup = saves[j].backup]
<1>1. ASSUME NEW stage \in SaveStages
      PROVE  /\ at(stage) \in SaveTask /\ at(stage).stage = stage /\ at(stage).backup = saves[j].backup
             /\ SameTask(at(stage), saves[j]) /\ at(stage).raced = saves[j].raced
             /\ Goes(j, stage) => saves' = [saves EXCEPT ![j] = at(stage)]
  BY <1>0 DEF SaveTask, SameTask, Goes
<1>2. over \in SaveTask /\ over.stage = "over" /\ over.backup = saves[j].backup
  BY <1>0 DEF SaveTask, NoSave, SaveStages
<1>3. \A kind \in {"uploaded", "conflict", "failed"}, c \in Nat :
        [kind |-> kind, content |-> c, job |-> j] \in Answer
  BY DEF Answer
<1> HIDE DEF at, over
(* One save changes, and the path does not.                                *)
<1>4. ASSUME NEW s \in SaveTask, saves' = [saves EXCEPT ![j] = s]
      PROVE  /\ saves' \in [Saves -> SaveTask] /\ saves'[j] = s
             /\ \A k \in Saves \ {j} :
                  /\ saves'[k].stage = saves[k].stage /\ saves'[k].backup = saves[k].backup
                  /\ SameTask(saves'[k], saves[k]) /\ saves'[k].raced = saves[k].raced
  BY <1>0, <1>4 DEF SameTask
(* The path changes, and all hear of it.                                   *)
<1>5. ASSUME NEW s \in SaveTask, saves' = [Raced(j) EXCEPT ![j] = s]
      PROVE  /\ saves' \in [Saves -> SaveTask] /\ saves'[j] = s
             /\ \A k \in Saves \ {j} :
                  /\ saves'[k].stage = saves[k].stage /\ saves'[k].backup = saves[k].backup
                  /\ SameTask(saves'[k], saves[k])
                  /\ saves[k].stage \in {"replace", "fallback"} => saves'[k].raced
  <2>1. Raced(j) \in [Saves -> SaveTask]
    BY RacedTasks
  <2>2. saves' \in [Saves -> SaveTask] /\ saves'[j] = s /\ \A k \in Saves \ {j} : saves'[k] = Raced(j)[k]
    BY <1>5, <2>1
  <2>3. QED
    BY <2>2, RacedTasks
(* The ends of a save.                                                     *)
<1>6. ASSUME NEW kind \in {"uploaded", "conflict", "failed"}, NEW c \in Nat, Ends(j, kind, c), Active(j),
             UNCHANGED <<onServer, stored, typed, doc>>,
             kind \in {"uploaded", "conflict"} => c \in stored,
             kind = "uploaded" => c = saves[j].content
      PROVE  EdIInv'
  <2> DEFINE a == [kind |-> kind, content |-> c, job |-> j]
  <2>1. a \in Answer /\ a.kind = kind /\ a.content = c /\ a.job = j
    BY <1>3
  <2>2. answers' = Append(answers, a) /\ saves' = [saves EXCEPT ![j] = over]
    BY <1>6 DEF Ends, Over, over
  <2> HIDE DEF a
  <2>3. \E b \in Answer :
          /\ answers' = Append(answers, b) /\ b.job = j /\ b.kind # "content"
          /\ b.kind \in {"uploaded", "conflict"} => b.content \in stored'
          /\ b.kind = "uploaded" => b.content = saves[j].content
    BY <1>6, <2>1, <2>2
  <2>4. \/ onServer' # 0
        \/ onServer = 0 /\ (saves[j].stage = "place" =>
             over.backup # 0 /\ over.stage \in {"place", "over"})
    BY <1>0, <1>2, <1>6
  <2>5. QED
    BY <1>0, <1>2, <1>4, <1>6, <2>2, <2>3, <2>4, SaveMoved
<1>7. ASSUME NEW stage \in {"look", "look again"}, NEW next \in {"look again", "replace"},
             Look(j, stage, next)
      PROVE  EdIInv'
  <2>1. Active(j) /\ saves[j].stage = stage /\ UNCHANGED <<onServer, stored, typed, doc>>
    BY <1>7 DEF Look, At, Active
  <2>2. CASE onServer = 0
    BY <1>6, <1>7, <2>1, <2>2 DEF Look
  <2>3. CASE onServer # 0 /\ Unexpected(j)
    BY <1>0, <1>6, <1>7, <2>1, <2>3 DEF Look
  <2>4. CASE onServer # 0 /\ ~Unexpected(j)
    <3>1. Goes(j, next) /\ answers' = answers /\ (saves[j].force \/ onServer = saves[j].expected)
      BY <1>7, <2>4 DEF Look, Unexpected
    <3>2. next \in SaveStages
      BY DEF SaveStages
    <3>3. saves' = [saves EXCEPT ![j] = at(next)] /\ (at(next).force \/ onServer = at(next).expected)
      BY <1>1, <3>1, <3>2 DEF SameTask
    <3>4. at(next) \in SaveTask /\ at(next).stage = next /\ at(next).backup = saves[j].backup
          /\ SameTask(at(next), saves[j]) /\ next # "none" /\ next # "place"
      BY <1>1, <3>2
    <3>5. QED
      BY <1>0, <1>4, <2>1, <2>4, <3>1, <3>3, <3>4, SaveMoved
  <2>5. QED
    BY <2>2, <2>3, <2>4
<1>8. CASE FirstLook(j) \/ SecondLook(j)
  BY <1>7, <1>8 DEF FirstLook, SecondLook
<1>9. CASE RenameOver(j) \/ Place(j)
  <2>1. PICK stage \in {"verify", "drop backup"} : saves' = [Raced(j) EXCEPT ![j].stage = stage]
    BY <1>9 DEF RenameOver, Place
  <2>2. saves' = [Raced(j) EXCEPT ![j] = at(stage)]
    BY <2>1, RacedTasks, ZeroIsNoSave DEF at
  <2>3. /\ Active(j) /\ onServer' = saves[j].content /\ stored' = stored \cup {saves[j].content}
        /\ UNCHANGED <<typed, doc, answers>>
    BY <1>9 DEF RenameOver, Place, Replaced, At, Active
  <2>4. stage \in SaveStages
    BY DEF SaveStages
  <2>5. at(stage) \in SaveTask /\ at(stage).stage = stage /\ at(stage).backup = saves[j].backup
        /\ SameTask(at(stage), saves[j])
    BY <1>1, <2>4
  <2>6. /\ stored \subseteq stored' /\ stored' \subseteq Nat \ {0} /\ onServer' \in stored'
        /\ onServer' \in Nat /\ onServer' # 0
        /\ saves[j].backup # 0 => saves[j].backup \in stored'
    BY <1>0, <2>3
  <2>7. QED
    BY <1>5, <2>2, <2>3, <2>5, <2>6, SaveMoved
<1>10. CASE RefuseRename(j)
  <2>1. /\ Goes(j, "fallback") /\ saves[j].stage = "replace"
        /\ UNCHANGED <<onServer, stored, typed, doc, answers>>
    BY <1>10 DEF RefuseRename, At
  <2>2. "fallback" \in SaveStages
    BY DEF SaveStages
  <2>3. /\ saves' = [saves EXCEPT ![j] = at("fallback")]
        /\ ~at("fallback").force /\ ~at("fallback").raced => onServer = at("fallback").expected
        /\ Active(j)
    BY <1>0, <1>1, <2>1, <2>2 DEF SameTask, Active
  <2>4. /\ at("fallback") \in SaveTask /\ at("fallback").stage = "fallback"
        /\ at("fallback").backup = saves[j].backup /\ SameTask(at("fallback"), saves[j])
    BY <1>1, <2>2
  <2>5. /\ onServer' = onServer /\ stored' = stored /\ onServer' \in Nat
        /\ onServer' # 0 \/ (onServer = 0 /\ saves[j].stage # "place")
    BY <1>0, <2>1
  <2>6. QED
    BY <1>0, <1>4, <2>1, <2>3, <2>4, <2>5, SaveMoved
<1>11. CASE MoveAside(j)
  <2> DEFINE s == [saves[j] EXCEPT !.stage = "place", !.backup = onServer]
  <2>1. /\ saves[j].stage = "fallback" /\ onServer # 0 /\ onServer' = 0 /\ Active(j)
        /\ saves' = [Raced(j) EXCEPT ![j].stage = "place", ![j].backup = onServer]
        /\ UNCHANGED <<stored, typed, doc, answers>>
    BY <1>11 DEF MoveAside, At, Active
  <2>2. saves' = [Raced(j) EXCEPT ![j] = s]
    BY <2>1, RacedTasks, ZeroIsNoSave
  <2>3. s \in SaveTask /\ s.stage = "place" /\ s.backup = onServer /\ SameTask(s, saves[j])
    BY <1>0 DEF SaveTask, SaveStages, SameTask
  <2> HIDE DEF s
  <2>4. QED
    BY <1>0, <1>5, <2>1, <2>2, <2>3, SaveMoved
<1>12. CASE Rollback(j)
  <2> DEFINE s == [NoSave EXCEPT !.stage = "over"]
             a == [kind |-> "failed", content |-> 0, job |-> j]
  <2>1. /\ saves[j].stage = "place" /\ onServer' = saves[j].backup /\ Active(j)
        /\ saves' = [Raced(j) EXCEPT ![j] = s] /\ answers' = Append(answers, a)
        /\ UNCHANGED <<stored, typed, doc>>
    BY <1>12 DEF Rollback, At, Active
  <2>2. s \in SaveTask /\ s.stage = "over" /\ s.backup = 0
    BY DEF SaveTask, SaveStages, NoSave
  <2>3. a \in Answer /\ a.kind = "failed" /\ a.job = j
    BY <1>3
  <2> HIDE DEF s, a
  <2>4. QED
    BY <1>0, <1>5, <2>1, <2>2, <2>3, SaveMoved
<1>13. CASE RemoveBackup(j)
  <2> DEFINE s == [saves[j] EXCEPT !.stage = "verify", !.backup = 0]
  <2>1. /\ saves[j].stage = "drop backup" /\ Active(j) /\ saves' = [saves EXCEPT ![j] = s]
        /\ UNCHANGED <<onServer, stored, typed, doc, answers>>
    BY <1>0, <1>13 DEF RemoveBackup, At, Active
  <2>2. s \in SaveTask /\ s.stage = "verify" /\ s.backup = 0 /\ SameTask(s, saves[j])
    BY <1>0 DEF SaveTask, SaveStages, SameTask
  <2> HIDE DEF s
  <2>3. QED
    BY <1>0, <1>4, <2>1, <2>2, SaveMoved
<1>14. CASE VerifySaved(j)
  <2>1. Active(j) /\ UNCHANGED <<onServer, stored, typed, doc>>
    BY <1>14 DEF VerifySaved, At, Active
  <2>2. QED
    BY <1>0, <1>6, <1>14, <2>1 DEF VerifySaved
<1>15. CASE SaveFails(j)
  BY <1>6, <1>15 DEF SaveFails, Active
<1>16. CASE SaveStops(j)
  <2>1. /\ Active(j) /\ saves' = [saves EXCEPT ![j] = over]
        /\ UNCHANGED <<onServer, stored, typed, doc, answers>>
    BY <1>16 DEF SaveStops, At, Active, Over, over
  <2>2. QED
    BY <1>0, <1>2, <1>4, <2>1, SaveMoved
<1>17. QED
  BY <1>8, <1>9, <1>10, <1>11, <1>12, <1>13, <1>14, <1>15, <1>16

\* Somebody else writes the file.
LEMMA OthersStep ==
  ASSUME EdIInv, OthersWrite
  PROVE  EdIInv'
<1>1. /\ onServer' = typed + 1 /\ typed' = typed + 1 /\ stored' = stored \cup {typed + 1}
      /\ saves' = Raced(0) /\ UNCHANGED <<doc, answers>>
  BY DEF OthersWrite, NewText
<1>2. /\ onServer' \in Nat /\ onServer' # 0 /\ stored \subseteq stored' /\ stored' \subseteq Nat \ {0}
      /\ onServer' \in stored' /\ typed' \in Nat
  BY <1>1 DEF EdIInv, EdTyped
<1>3. /\ saves' \in [Saves -> SaveTask]
      /\ \A k \in Saves :
           /\ saves'[k].stage = saves[k].stage /\ saves'[k].backup = saves[k].backup
           /\ SameTask(saves'[k], saves[k])
           /\ saves[k].stage \in {"replace", "fallback"} => saves'[k].raced
  BY <1>1, RacedTasks, ZeroIsNoSave
<1>4. EdTyped'
  BY <1>1, <1>2, <1>3 DEF EdIInv, EdTyped
<1>5. Stored' /\ KeptAside' /\ TabTexts'
  BY <1>1, <1>2, <1>3 DEF EdIInv, Stored, KeptAside, TabTexts
<1>6. SaveTasks'
  BY <1>3 DEF EdIInv, SaveTasks, Active, SameTask
<1>7. Mail'
  <2> SUFFICES ASSUME NEW i \in 1..Len(answers)
               PROVE  /\ answers[i].kind = "content" => answers[i].content \in stored'
                      /\ answers[i].kind # "content" =>
                           answers[i].job # 0 /\ saves'[answers[i].job].stage = "over"
                      /\ answers[i].kind \in {"uploaded", "conflict"} => answers[i].content \in stored'
    BY <1>1 DEF Mail
  <2>1. answers[i] \in Answer
    BY DEF EdIInv, EdTyped
  <2>2. answers[i].job \in Saves \cup {0}
    BY <2>1 DEF Answer
  <2>3. QED
    BY <1>2, <1>3, <2>2 DEF EdIInv, Mail
<1>8. Awaited'
  <2>1. doc.awaits \in Saves \cup {0}
    BY DEF EdIInv, EdTyped, Doc
  <2>2. QED
    BY <1>1, <1>3, <2>1 DEF EdIInv, Awaited, Active, SameTask
<1>9. QED
  BY <1>4, <1>5, <1>6, <1>7, <1>8 DEF EdIInv

(* The first free save is asked for.                                       *)
LEMMA AskedStep ==
  ASSUME EdIInv, NEW force \in BOOLEAN, Save(force)
  PROVE  EdIInv'
<1>1. PICK j \in Saves :
        /\ saves[j].stage = "none"
        /\ doc' = [doc EXCEPT !.saving = TRUE, !.atStart = doc.text, !.awaits = j]
        /\ saves' = [saves EXCEPT ![j] =
             IF ~online THEN [NoSave EXCEPT !.stage = "over"]
             ELSE [NoSave EXCEPT !.stage = "look", !.content = doc.text,
                                 !.expected = doc.revision, !.force = force,
                                 !.base = doc.base, !.crossed = doc.crossed]]
  BY DEF Save
<1>2. UNCHANGED <<onServer, stored, typed, answers>> /\ doc.open
  BY DEF Save
<1> DEFINE s == IF ~online THEN [NoSave EXCEPT !.stage = "over"]
                ELSE [NoSave EXCEPT !.stage = "look", !.content = doc.text,
                                    !.expected = doc.revision, !.force = force,
                                    !.base = doc.base, !.crossed = doc.crossed]
<1>3. doc \in Doc /\ saves \in [Saves -> SaveTask] /\ answers \in Seq(Answer)
      /\ doc.text \in Nat /\ doc.revision \in Nat /\ doc.base \in Nat /\ doc.crossed \in BOOLEAN
  BY DEF EdIInv, EdTyped, Doc
<1>4. /\ s \in SaveTask /\ s.stage \in {"over", "look"}
      /\ s.stage = "look" => /\ s.content = doc.text /\ s.expected = doc.revision
                            /\ s.base = doc.base /\ s.crossed = doc.crossed
  <2>1. CASE online
    BY <1>3, <2>1 DEF SaveTask, SaveStages, NoSave
  <2>2. CASE ~online
    BY <2>2 DEF SaveTask, SaveStages, NoSave
  <2>3. QED
    BY <2>1, <2>2
<1>5. saves' = [saves EXCEPT ![j] = s]
  BY <1>1
<1> HIDE DEF s
<1>6. saves'[j] = s /\ \A k \in Saves \ {j} : saves'[k] = saves[k]
  BY <1>3, <1>5
<1>7. /\ doc' \in Doc /\ doc'.awaits = j /\ doc'.atStart = doc.text
      /\ \A f \in {"open", "text", "savedText", "source", "dirty", "conflict", "crossed", "revision", "base"} :
           doc'[f] = doc[f]
  BY <1>1, <1>3 DEF Doc
<1>8. EdTyped'
  BY <1>2, <1>3, <1>4, <1>5, <1>7 DEF EdIInv, EdTyped
<1>9. Stored' /\ KeptAside'
  <2>1. s.backup = 0
    BY DEF s, NoSave
  <2>2. Stored'
    BY <1>2, <1>6, <2>1 DEF EdIInv, Stored
  <2>3. KeptAside'
    BY <1>1, <1>2, <1>6 DEF EdIInv, KeptAside
  <2>4. QED
    BY <2>2, <2>3
<1>10. TabTexts'
  BY <1>2, <1>7 DEF EdIInv, TabTexts
<1>11. SaveTasks'
  BY <1>2, <1>4, <1>6 DEF EdIInv, SaveTasks, TabTexts, Active
<1>12. \A i \in 1..Len(answers) : answers[i].kind # "content" => answers[i].job # j
  BY <1>1 DEF EdIInv, Mail
<1>13. Mail'
  <2> SUFFICES ASSUME NEW i \in 1..Len(answers), answers[i].kind # "content"
               PROVE  answers[i].job # 0 /\ saves'[answers[i].job].stage = "over"
    BY <1>2 DEF EdIInv, Mail
  <2>1. answers[i] \in Answer
    BY <1>3
  <2>2. answers[i].job \in Saves \cup {0}
    BY <2>1 DEF Answer
  <2>3. QED
    BY <1>6, <1>12, <2>2 DEF EdIInv, Mail
<1>14. Awaited'
  BY <1>2, <1>4, <1>6, <1>7, <1>12 DEF Awaited, Active
<1>15. QED
  BY <1>8, <1>9, <1>10, <1>11, <1>13, <1>14 DEF EdIInv

\* A tab that is closed.
LEMMA NoTabIsDoc == NoTab \in Doc /\ ~NoTab.open
BY DEF NoTab, Doc

\* What the user and the session do with the tab.
LEMMA TabStep ==
  ASSUME EdIInv, Edit \/ Reload \/ ApplyEncoding \/ CloseTabOfFile \/ NotifyConnectionLost
  PROVE  EdIInv'
<1>0. /\ doc \in Doc /\ typed \in Nat
      /\ doc.text \in Nat /\ doc.savedText \in Nat /\ doc.conflict \in Nat /\ doc.source \in Nat
  BY DEF EdIInv, EdTyped, Doc
<1>1. CASE Edit
  <2>1. doc.open /\ UNCHANGED <<onServer, stored, saves, answers>>
    BY <1>1 DEF Edit
  <2>2. \E t \in Nat \ {0}, dirty \in BOOLEAN :
          /\ doc' = [doc EXCEPT !.text = t, !.dirty = dirty] /\ typed' \in Nat
          /\ dirty \/ t = doc.savedText
    <3>1. CASE doc' = [doc EXCEPT !.text = typed + 1, !.dirty = TRUE] /\ typed' = typed + 1
      <4>1. typed + 1 \in Nat \ {0} /\ typed' \in Nat /\ TRUE \in BOOLEAN
        BY <1>0, <3>1
      <4>2. QED
        BY <3>1, <4>1, Zenon
    <3>2. CASE doc' = [doc EXCEPT !.text = doc.savedText, !.dirty = FALSE] /\ typed' = typed
      BY <1>0, <2>1, <3>2 DEF EdIInv, TabTexts
    <3>3. QED
      BY <1>1, <3>1, <3>2 DEF Edit, NewText
  <2>3. PICK t \in Nat \ {0}, dirty \in BOOLEAN :
          /\ doc' = [doc EXCEPT !.text = t, !.dirty = dirty] /\ typed' \in Nat
          /\ dirty \/ t = doc.savedText
    BY <2>2
  <2>4. /\ doc' \in Doc /\ doc'.text = t /\ doc'.dirty = dirty
        /\ \A f \in {"open", "savedText", "source", "conflict", "crossed", "revision", "base",
                      "atStart", "awaits"} : doc'[f] = doc[f]
    BY <1>0, <2>3 DEF Doc
  <2>5. TabTexts'
    BY <2>1, <2>3, <2>4 DEF EdIInv, TabTexts
  <2>6. Awaited'
    BY <2>1, <2>4 DEF EdIInv, Awaited, Active
  <2>7. QED
    BY <2>1, <2>3, <2>4, <2>5, <2>6, TabMoved
<1>2. CASE Reload
  <2>1. /\ doc.open /\ doc.conflict # 0 /\ UNCHANGED <<onServer, stored, typed, saves, answers>>
        /\ doc' = [doc EXCEPT !.revision = doc.conflict, !.source = doc.conflict,
                        !.savedText = doc.conflict, !.text = doc.conflict,
                        !.saving = FALSE, !.atStart = 0, !.conflict = 0, !.dirty = FALSE,
                        !.awaits = 0, !.base = doc.conflict, !.crossed = FALSE]
    BY <1>2 DEF Reload
  <2>2. /\ doc' \in Doc /\ doc'.revision = doc.conflict /\ doc'.source = doc.conflict
        /\ doc'.savedText = doc.conflict /\ doc'.text = doc.conflict /\ doc'.conflict = 0
        /\ doc'.awaits = 0 /\ doc'.base = doc.conflict
    BY <1>0, <2>1 DEF Doc
  <2>3. TabTexts'
    BY <2>1, <2>2 DEF EdIInv, TabTexts
  <2>4. Awaited'
    BY <2>2 DEF Awaited
  <2>5. QED
    BY <1>0, <2>1, <2>2, <2>3, <2>4, TabMoved
<1>3. CASE ApplyEncoding
  <2>1. /\ doc.open /\ UNCHANGED <<onServer, stored, typed, saves, answers>>
        /\ doc' = [doc EXCEPT !.savedText = doc.source, !.text = doc.source, !.conflict = 0,
                        !.atStart = 0, !.dirty = FALSE]
    BY <1>3 DEF ApplyEncoding
  <2>2. /\ doc' \in Doc /\ doc'.savedText = doc.source /\ doc'.text = doc.source
        /\ doc'.source = doc.source /\ doc'.conflict = 0 /\ doc'.atStart = 0
        /\ doc'.awaits = doc.awaits /\ doc'.crossed = doc.crossed /\ doc'.revision = doc.revision
        /\ doc'.base = doc.base
    BY <1>0, <2>1 DEF Doc
  <2>3. TabTexts'
    BY <2>1, <2>2 DEF EdIInv, TabTexts
  <2>4. Awaited'
    BY <2>1, <2>2 DEF EdIInv, Awaited
  <2>5. QED
    BY <1>0, <2>1, <2>2, <2>3, <2>4, TabMoved
<1>4. CASE doc' = NoTab /\ UNCHANGED <<onServer, stored, typed, saves, answers>>
  <2>1. TabTexts' /\ Awaited'
    BY <1>4, NoTabIsDoc DEF TabTexts, Awaited
  <2>2. QED
    BY <1>0, <1>4, <2>1, NoTabIsDoc, TabMoved
<1>5. CASE NotifyConnectionLost /\ doc' # NoTab
  <2>1. /\ doc.open /\ UNCHANGED <<onServer, stored, typed, saves, answers>>
        /\ doc' = [doc EXCEPT !.connected = FALSE, !.saving = FALSE]
    BY <1>5 DEF NotifyConnectionLost
  <2>2. /\ doc' \in Doc
        /\ \A f \in {"open", "text", "savedText", "source", "dirty", "conflict", "crossed", "revision",
                      "base", "atStart", "awaits"} : doc'[f] = doc[f]
    BY <1>0, <2>1 DEF Doc
  <2>3. TabTexts'
    BY <2>1, <2>2 DEF EdIInv, TabTexts
  <2>4. Awaited'
    BY <2>1, <2>2 DEF EdIInv, Awaited, Active
  <2>5. QED
    BY <1>0, <2>1, <2>2, <2>3, <2>4, TabMoved
<1>6. QED
  BY <1>1, <1>2, <1>3, <1>4, <1>5 DEF CloseTabOfFile, NotifyConnectionLost

(* What a tab makes of an answer.                                          *)
LEMMA AnsweredTab ==
  ASSUME EdIInv, NEW e \in Answer, e.kind # "content", doc.open,
         NEW tab, tab = Answered(e)
  PROVE  /\ tab \in Doc /\ tab.text = doc.text
         /\ ~tab.crossed => ~doc.crossed /\ e.job = doc.awaits /\ tab.awaits = 0
         /\ \/ tab.savedText = doc.savedText /\ tab.source = doc.source
            \/ /\ e.kind = "uploaded" /\ doc.atStart # 0
               /\ tab.savedText = doc.atStart /\ tab.source = doc.atStart
         /\ \/ tab.dirty
            \/ tab.savedText = tab.text
            \/ ~doc.dirty /\ tab.savedText = doc.savedText
         /\ \/ tab.conflict \in {0, doc.conflict}
            \/ e.kind = "conflict" /\ tab.conflict = e.content
         /\ \/ tab.revision = doc.revision /\ tab.base = doc.base
            \/ /\ e.kind = "uploaded" /\ tab.revision = e.content
               /\ ~tab.crossed => tab.base = e.content
            \/ tab.crossed
<1> DEFINE own == e.job = doc.awaits
           marked == [doc EXCEPT !.crossed = @ \/ ~own, !.awaits = IF own THEN 0 ELSE @]
           based == [marked EXCEPT !.base = IF own THEN e.content ELSE @]
<1>1. doc \in Doc
  BY DEF EdIInv, EdTyped
<1>2. /\ e.kind \in {"uploaded", "conflict", "failed"} /\ e.content \in Nat /\ e.job \in Saves \cup {0}
  BY <1>1 DEF Answer
<1>3. /\ marked \in Doc /\ marked.crossed = (doc.crossed \/ ~own)
      /\ marked.awaits = (IF own THEN 0 ELSE doc.awaits)
      /\ \A f \in {"text", "savedText", "source", "dirty", "conflict", "revision", "base", "atStart"} :
           marked[f] = doc[f]
  BY <1>1 DEF Doc
<1>4. /\ based \in Doc /\ based.crossed = marked.crossed /\ based.awaits = marked.awaits
      /\ own => based.base = e.content
      /\ \A f \in {"text", "savedText", "source", "dirty", "conflict", "revision", "atStart"} :
           based[f] = doc[f]
  <2>1. PICK b \in Nat : b = IF own THEN e.content ELSE marked.base
    BY <1>2, <1>3 DEF Doc
  <2>2. based = [marked EXCEPT !.base = b]
    BY <2>1
  <2> HIDE DEF based, marked
  <2>3. QED
    BY <1>3, <2>1, <2>2 DEF Doc
<1>5. Answered(e) = CASE e.kind = "uploaded" -> MarkUploaded(based, e.content)
                      [] e.kind = "conflict" -> MarkConflict(marked, e.content)
                      [] e.kind = "failed" -> MarkUploadFailed(marked)
  BY <1>2 DEF Answered
<1> HIDE DEF marked, based
<1>6. CASE e.kind = "uploaded"
  <2> DEFINE done == IF based.atStart = 0 THEN based
              ELSE [based EXCEPT !.savedText = based.atStart, !.dirty = based.atStart # based.text,
                               !.source = based.atStart, !.atStart = 0]
             d == [done EXCEPT !.revision = e.content, !.saving = FALSE, !.conflict = 0]
  <2>1. Answered(e) = d
    BY <1>5, <1>6 DEF MarkUploaded
  <2>2. /\ done \in Doc /\ done.text = doc.text /\ done.crossed = based.crossed
        /\ done.awaits = based.awaits /\ done.base = based.base
        /\ doc.atStart # 0 => /\ done.savedText = doc.atStart /\ done.source = doc.atStart
                             /\ done.dirty = (doc.atStart # doc.text)
        /\ doc.atStart = 0 => /\ done.savedText = doc.savedText /\ done.source = doc.source
                             /\ done.dirty = doc.dirty
    BY <1>4 DEF Doc
  <2> HIDE DEF done
  <2>3. /\ d \in Doc /\ d.revision = e.content /\ d.conflict = 0
        /\ \A f \in {"text", "savedText", "source", "dirty", "crossed", "awaits", "base"} : d[f] = done[f]
    BY <1>2, <2>2 DEF Doc
  <2> HIDE DEF d
  <2>4. /\ d.text = doc.text
        /\ ~d.crossed => ~doc.crossed /\ own /\ d.awaits = 0 /\ d.base = e.content
    BY <1>3, <1>4, <2>2, <2>3
  <2>5. CASE doc.atStart = 0
    <3>1. d.savedText = doc.savedText /\ d.source = doc.source /\ d.dirty = doc.dirty
      BY <2>2, <2>3, <2>5
    <3>2. QED
      BY <1>6, <2>1, <2>3, <2>4, <3>1
  <2>6. CASE doc.atStart # 0
    <3>1. /\ d.savedText = doc.atStart /\ d.source = doc.atStart
          /\ d.dirty \/ d.savedText = d.text
      BY <2>2, <2>3, <2>6
    <3>2. QED
      BY <1>6, <2>1, <2>3, <2>4, <2>6, <3>1
  <2>7. QED
    BY <2>5, <2>6
<1>7. CASE e.kind \in {"conflict", "failed"}
  <2>1. PICK c \in Nat : c = IF e.kind = "conflict" THEN e.content ELSE marked.conflict
    BY <1>2, <1>3 DEF Doc
  <2> DEFINE d == [marked EXCEPT !.saving = FALSE, !.atStart = 0, !.dirty = TRUE, !.conflict = c]
  <2>2. Answered(e) = d
    <3>1. CASE e.kind = "conflict"
      BY <1>5, <2>1, <3>1 DEF MarkConflict
    <3>2. CASE e.kind = "failed"
      <4>1. Answered(e) = [marked EXCEPT !.saving = FALSE, !.atStart = 0, !.dirty = TRUE]
        BY <1>5, <3>2 DEF MarkUploadFailed
      <4>2. QED
        BY <1>3, <2>1, <3>2, <4>1 DEF Doc
    <3>3. QED
      BY <1>7, <3>1, <3>2
  <2>3. /\ d \in Doc /\ d.dirty /\ d.conflict = c
        /\ \A f \in {"text", "savedText", "source", "crossed", "awaits", "base", "revision"} :
             d[f] = marked[f]
    BY <1>3, <2>1 DEF Doc
  <2>4. ~d.crossed => ~doc.crossed /\ own /\ d.awaits = 0
    BY <1>3, <2>3
  <2> HIDE DEF d
  <2>5. /\ d.text = doc.text /\ d.savedText = doc.savedText /\ d.source = doc.source
        /\ d.revision = doc.revision /\ d.base = doc.base
        /\ d.conflict = doc.conflict \/ (e.kind = "conflict" /\ d.conflict = e.content)
    BY <1>3, <1>7, <2>1, <2>3
  <2>6. QED
    BY <2>2, <2>3, <2>4, <2>5
<1>8. QED
  BY <1>2, <1>6, <1>7

(* An answer is taken out of the mail.                                     *)
LEMMA MailTaken ==
  ASSUME EdIInv, answers # <<>>, answers' = Tail(answers), doc' \in Doc,
         UNCHANGED <<onServer, stored, typed, saves, online>>, TabTexts',
         doc'.open /\ ~doc'.crossed /\ doc'.awaits # 0 =>
           doc.open /\ ~doc.crossed /\ doc'.awaits = doc.awaits /\ doc'.atStart \in {0, doc.atStart}
  PROVE  EdIInv'
<1>1. /\ answers \in Seq(Answer) /\ answers' \in Seq(Answer)
      /\ \A i \in 1..Len(answers') : i + 1 \in 1..Len(answers) /\ answers'[i] = answers[i + 1]
  <2>1. answers \in Seq(Answer)
    BY DEF EdIInv, EdTyped
  <2>2. QED
    BY <2>1, HeadTailProperties
<1>2. EdTyped'
  BY <1>1 DEF EdIInv, EdTyped
<1>3. Stored' /\ KeptAside'
  BY DEF EdIInv, Stored, KeptAside
<1>4. SaveTasks'
  BY DEF EdIInv, SaveTasks, Active
<1>5. Mail'
  BY <1>1 DEF EdIInv, Mail
<1>6. Awaited'
  BY <1>1 DEF EdIInv, Awaited, Active
<1>7. QED
  BY <1>2, <1>3, <1>4, <1>5, <1>6 DEF EdIInv

\* The tab takes an answer.
LEMMA AnswerStep ==
  ASSUME EdIInv, HandleAnswer
  PROVE  EdIInv'
<1> DEFINE e == Head(answers)
<1>1. /\ answers # <<>> /\ answers' = Tail(answers) /\ UNCHANGED <<onServer, stored, typed, saves, online>>
      /\ doc' = IF e.kind = "content" THEN Opened(e.content) ELSE Answered(e)
  BY DEF HandleAnswer
<1>2. /\ e = answers[1] /\ 1 \in 1..Len(answers) /\ e \in Answer /\ doc \in Doc
  BY <1>1 DEF EdIInv, EdTyped
<1>3. /\ e.kind = "content" => e.content \in stored
      /\ e.kind # "content" => e.job # 0 /\ saves[e.job].stage = "over"
      /\ e.kind \in {"uploaded", "conflict"} => e.content \in stored
      /\ e.content \in Nat
  <2>1. /\ e.kind = "content" => e.content \in stored
        /\ e.kind # "content" => e.job # 0 /\ saves[e.job].stage = "over"
        /\ e.kind \in {"uploaded", "conflict"} => e.content \in stored
    BY <1>2 DEF EdIInv, Mail
  <2>2. e.content \in Nat
    BY <1>2 DEF Answer
  <2>3. QED
    BY <2>1, <2>2
<1>4. stored \subseteq Nat \ {0}
  BY DEF EdIInv, EdTyped
<1>5. CASE doc' = doc
  <2>1. TabTexts'
    BY <1>1, <1>5 DEF EdIInv, TabTexts
  <2>2. QED
    BY <1>1, <1>2, <1>5, <2>1, MailTaken
<1>6. CASE doc' # doc /\ e.kind = "content"
  <2> DEFINE c == e.content
             d == [NoTab EXCEPT !.open = TRUE, !.text = c, !.savedText = c, !.revision = c,
                     !.source = c, !.base = c]
  <2>1. doc' = d
    BY <1>1, <1>6 DEF Opened
  <2>2. /\ d \in Doc /\ d.text = c /\ d.savedText = c /\ d.revision = c /\ d.source = c /\ d.base = c
        /\ d.conflict = 0 /\ d.awaits = 0
    BY <1>3 DEF NoTab, Doc
  <2> HIDE DEF d
  <2>3. TabTexts'
    BY <1>1, <1>3, <1>4, <1>6, <2>1, <2>2 DEF TabTexts
  <2>4. QED
    BY <1>1, <2>1, <2>2, <2>3, MailTaken
<1>7. CASE doc' # doc /\ e.kind # "content"
  <2>1. doc.open /\ doc' = Answered(e)
    BY <1>1, <1>7 DEF Answered
  <2>2. /\ doc' \in Doc /\ doc'.text = doc.text
        /\ ~doc'.crossed => ~doc.crossed /\ e.job = doc.awaits /\ doc'.awaits = 0
        /\ \/ doc'.savedText = doc.savedText /\ doc'.source = doc.source
           \/ /\ e.kind = "uploaded" /\ doc.atStart # 0
              /\ doc'.savedText = doc.atStart /\ doc'.source = doc.atStart
        /\ \/ doc'.dirty
           \/ doc'.savedText = doc'.text
           \/ ~doc.dirty /\ doc'.savedText = doc.savedText
        /\ \/ doc'.conflict \in {0, doc.conflict}
           \/ e.kind = "conflict" /\ doc'.conflict = e.content
        /\ \/ doc'.revision = doc.revision /\ doc'.base = doc.base
           \/ /\ e.kind = "uploaded" /\ doc'.revision = e.content
              /\ ~doc'.crossed => doc'.base = e.content
           \/ doc'.crossed
    BY <1>2, <1>7, <2>1, AnsweredTab
  <2>3. ASSUME ~doc'.crossed, e.kind = "uploaded", doc.atStart # 0
        PROVE  doc.atStart \in stored
    <3>1. e.content = doc.atStart
      BY <1>2, <1>3, <2>1, <2>2, <2>3 DEF EdIInv, Awaited
    <3>2. QED
      BY <1>3, <2>3, <3>1
  <2>4. TabTexts'
    <3>1. /\ doc.text # 0 /\ doc.savedText # 0 /\ doc.source # 0
          /\ ~doc.dirty => doc.text = doc.savedText
          /\ doc.conflict # 0 => doc.conflict \in stored
          /\ ~doc.crossed => doc.savedText \in stored /\ doc.source \in stored /\ doc.revision = doc.base
      BY <2>1 DEF EdIInv, TabTexts
    <3>2. doc'.text # 0 /\ doc'.savedText # 0 /\ doc'.source # 0
      BY <2>2, <3>1
    <3>3. ~doc'.dirty => doc'.text = doc'.savedText
      BY <2>2, <3>1
    <3>4. doc'.conflict # 0 => doc'.conflict \in stored
      BY <1>3, <2>2, <3>1
    <3>5. ~doc'.crossed => doc'.savedText \in stored /\ doc'.source \in stored /\ doc'.revision = doc'.base
      BY <2>2, <2>3, <3>1
    <3>6. QED
      BY <1>1, <3>2, <3>3, <3>4, <3>5 DEF TabTexts
  <2>5. ~doc'.crossed => doc'.awaits = 0
    BY <2>2
  <2>6. QED
    BY <1>1, <2>2, <2>4, <2>5, MailTaken
<1>8. QED
  BY <1>5, <1>6, <1>7

\* The file is read for the tab.
LEMMA ReadStep ==
  ASSUME EdIInv, ReadFile
  PROVE  EdIInv'
<1> DEFINE a == [kind |-> "content", content |-> onServer, job |-> 0]
<1>1. /\ answers' = Append(answers, a) /\ onServer # 0 /\ ~doc.open
      /\ UNCHANGED <<onServer, stored, typed, doc, saves>>
  BY DEF ReadFile
<1>2. a \in Answer /\ a.kind = "content" /\ a.content = onServer /\ a.job = 0
  BY DEF EdIInv, EdTyped, Answer
<1> HIDE DEF a
<1>3. answers \in Seq(Answer)
  BY DEF EdIInv, EdTyped
<1>4. /\ answers' \in Seq(Answer)
      /\ \A i \in 1..Len(answers') : \/ i \in 1..Len(answers) /\ answers'[i] = answers[i]
                                    \/ answers'[i] = a
  BY <1>1, <1>2, <1>3, AppendProperties
<1>5. EdTyped'
  BY <1>1, <1>4 DEF EdIInv, EdTyped
<1>6. Stored' /\ KeptAside' /\ TabTexts' /\ Awaited'
  BY <1>1 DEF EdIInv, Stored, KeptAside, TabTexts, Awaited
<1>7. SaveTasks'
  BY <1>1 DEF EdIInv, SaveTasks, Active
<1>8. Mail'
  <2>1. onServer \in stored
    BY <1>1 DEF EdIInv, Stored
  <2>2. QED
    BY <1>1, <1>2, <1>4, <2>1 DEF EdIInv, Mail
<1>9. QED
  BY <1>5, <1>6, <1>7, <1>8 DEF EdIInv

\* A step that leaves what the invariant speaks of alone.
LEMMA EdStutter ==
  ASSUME EdIInv, UNCHANGED <<onServer, stored, typed, doc, saves, answers>>
  PROVE  EdIInv'
BY DEF EdIInv, EdTyped, Stored, KeptAside, TabTexts, SaveTasks, Active, Mail, Awaited

\* Every step keeps the invariant.
LEMMA EdStep ==
  ASSUME EdIInv, [EdNext]_edVars
  PROVE  EdIInv'
<1>1. CASE SessionLost \/ UNCHANGED edVars
  BY <1>1, EdStutter DEF SessionLost, edVars
<1>2. QED
  BY <1>1, TabStep, AnswerStep, ReadStep, AskedStep, SaveStep, OthersStep DEF EdNext

\* It holds at the start.
LEMMA EdInitially ==
  ASSUME EdInit
  PROVE  EdIInv
<1>1. /\ onServer = 1 /\ stored = {1} /\ typed = 1 /\ doc = NoTab /\ answers = <<>>
      /\ saves = [j \in Saves |-> NoSave]
  BY DEF EdInit
<1>2. NoSave \in SaveTask /\ NoSave.stage = "none" /\ NoSave.backup = 0
  BY DEF NoSave, SaveTask, SaveStages
<1>3. EdTyped
  <2>1. saves \in [Saves -> SaveTask]
    BY <1>1, <1>2
  <2>2. QED
    BY <1>1, <2>1, NoTabIsDoc DEF EdTyped
<1>4. Stored /\ KeptAside /\ SaveTasks
  BY <1>1, <1>2 DEF Stored, KeptAside, SaveTasks, Active
<1>5. TabTexts /\ Awaited /\ Mail
  BY <1>1, NoTabIsDoc DEF TabTexts, Awaited, Mail
<1>6. QED
  BY <1>3, <1>4, <1>5 DEF EdIInv

\* The invariant of the editor.
LEMMA EdAlways == EdSpec => []EdIInv
BY EdInitially, EdStep, PTL DEF EdSpec

(* A tab without the mark of changes shows a text the file had, however    *)
(* saves, answers, reloads and lost sessions interleave (mark_uploaded,    *)
(* subscribe_input_changes, notify_connection_lost).                       *)
THEOREM CleanTabIsSafe == EdSpec => []CleanIsSafe
<1>1. EdIInv => CleanIsSafe
  BY DEF EdIInv, TabTexts, CleanIsSafe
<1>2. QED
  BY EdAlways, <1>1, PTL

(* Where the server does not rename over a file, the path or a backup      *)
(* holds one at every step, for any number of saves (replace_remote_file). *)
THEOREM FileKept == EdSpec => []FileSurvives
<1>1. EdIInv => FileSurvives
  BY DEF EdIInv, KeptAside, FileSurvives
<1>2. QED
  BY EdAlways, <1>1, PTL

\* A save that is about to replace the file knows what it replaces.
LEMMA ReplacesBase ==
  ASSUME EdIInv, EdNext, NEW j \in Saves,
         Replacing(j), ~saves[j].force, ~saves[j].raced, ~saves[j].crossed
  PROVE  onServer = saves[j].base
BY DEF Replacing, EdIInv, SaveTasks, Active

(* A save that was not forced replaces what its text was made from, unless *)
(* raced between its last look and the rename (save_remote_text_file).     *)
THEOREM NothingOverwritten == EdSpec => NoSilentOverwrite
<1>1. EdIInv /\ [EdNext]_edVars =>
        [\A j \in Saves :
           Replacing(j) /\ ~saves[j].force /\ ~saves[j].raced /\ ~saves[j].crossed
             => onServer = saves[j].base]_edVars
  BY ReplacesBase
<1>2. QED
  BY EdAlways, <1>1, PTL DEF EdSpec, NoSilentOverwrite
=============================================================================
