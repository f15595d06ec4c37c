---------------------- MODULE ConfigRepository_proofs ----------------------
(***************************************************************************)
(* What holds of the configuration repository for every number of windows  *)
(* and every capacity of the save queue: first that no count of command    *)
(* uses is lost, then what the windows may trust.  A receipt is connected  *)
(* to its request, a clean window is stored, a clean close leaves nothing  *)
(* behind, a failure is reported.                                          *)
(***************************************************************************)
EXTENDS ConfigRepository, SequenceTheorems, FiniteSetTheorems, TLAPS

USE DEF Config

\* Growth of the counters from one configuration to another.
Counted(before, after) == \A v \in Windows : after.usage[v] >= before.usage[v]

\* CommandUsage::merge yields counters, none below either argument's.
LEMMA UsageMerges ==
  ASSUME NEW a \in [Windows -> Nat], NEW b \in [Windows -> Nat]
  PROVE  /\ MergedUsage(a, b) \in [Windows -> Nat]
         /\ \A v \in Windows : MergedUsage(a, b)[v] >= a[v] /\ MergedUsage(a, b)[v] >= b[v]
BY DEF MergedUsage

\* The two merges of ConfigStore yield a configuration that has lost no use.
LEMMA ConfigMerges ==
  ASSUME NEW c \in Config, NEW s \in Config, NEW layout \in BOOLEAN
  PROVE  /\ MergedPreferences(c, s, layout) \in Config
         /\ Counted(c, MergedPreferences(c, s, layout))
         /\ Counted(s, MergedPreferences(c, s, layout))
         /\ MergedFull(c, s) \in Config
         /\ Counted(c, MergedFull(c, s))
         /\ Counted(s, MergedFull(c, s))
<1> DEFINE one == MergedUsage(s.usage, c.usage)
           two == MergedUsage(c.usage, s.usage)
           shown == IF layout THEN s.layout ELSE c.layout
<1>1. /\ one \in [Windows -> Nat] /\ two \in [Windows -> Nat] /\ shown \in Nat
      /\ \A v \in Windows : one[v] >= s.usage[v] /\ one[v] >= c.usage[v]
      /\ \A v \in Windows : two[v] >= s.usage[v] /\ two[v] >= c.usage[v]
  BY UsageMerges
<1>2. /\ MergedPreferences(c, s, layout) =
           [c EXCEPT !.prefs = s.prefs, !.usage = one, !.layout = shown]
      /\ MergedFull(c, s) = [c EXCEPT !.usage = two]
  BY DEF MergedPreferences, MergedFull
<1> HIDE DEF one, two, shown
<1> QED
  BY <1>1, <1>2 DEF Counted

\* What the worker writes for a request is a configuration that counts no use less
\* than the file it replaces.
LEMMA WrittenIsConfig ==
  ASSUME NEW r \in Request, disk \in Config
  PROVE  Written(r) \in Config /\ Counted(disk, Written(r))
<1>1. r.config \in Config /\ r.layout \in BOOLEAN
  BY DEF Request
<1> QED
  BY <1>1, ConfigMerges DEF Written

\* The empty configuration is one.
LEMMA BlankIsConfig == Blank \in Config
BY DEF Blank

\* What the handlers do to the generations of a window.
LEMMA PersistenceSteps ==
  ASSUME NEW p \in Persistence, NEW g \in Nat, NEW layout \in BOOLEAN
  PROVE  /\ MarkDirty(p) \in Persistence
         /\ MarkLayoutDirty(p) \in Persistence
         /\ MarkSaved(p, g, layout) \in Persistence
         /\ LayoutRequired(p) \in BOOLEAN
         /\ IsDirty(p) \in BOOLEAN
         /\ [p EXCEPT !.inFlight = NoSave] \in Persistence
<1>1. p.generation + 1 \in Nat /\ Later(p.persisted, g) \in Nat
      /\ Later(p.persistedLayout, g) \in Nat
  BY DEF Persistence, Later
<1> DEFINE stored == Later(p.persisted, g)
           shown == IF layout THEN Later(p.persistedLayout, g) ELSE p.persistedLayout
           next == p.generation + 1
<1>2. stored \in Nat /\ shown \in Nat /\ next \in Nat
  BY <1>1 DEF Persistence
<1>3. /\ MarkSaved(p, g, layout) = [p EXCEPT !.persisted = stored, !.persistedLayout = shown]
      /\ MarkDirty(p) = [p EXCEPT !.generation = next]
      /\ MarkLayoutDirty(p) = [p EXCEPT !.generation = next, !.layoutGeneration = next]
  BY DEF MarkSaved, MarkDirty, MarkLayoutDirty
<1>4. NoSave \in Save
  BY DEF NoSave, Save, Answers
<1> HIDE DEF stored, shown, next
<1>5. /\ MarkSaved(p, g, layout) \in Persistence
      /\ MarkDirty(p) \in Persistence
      /\ MarkLayoutDirty(p) \in Persistence
  BY <1>2, <1>3 DEF Persistence
<1>6. [p EXCEPT !.inFlight = NoSave] \in Persistence
  BY <1>4 DEF Persistence
<1>7. LayoutRequired(p) \in BOOLEAN /\ IsDirty(p) \in BOOLEAN
  BY DEF LayoutRequired, IsDirty
<1> QED
  BY <1>5, <1>6, <1>7

\* poll_result and its outcome keep the generations well typed.
LEMMA PolledIsPersistence ==
  ASSUME NEW p \in Persistence
  PROVE  Polled(p) \in Persistence
<1>1. p.inFlight.generation \in Nat /\ p.inFlight.layout \in BOOLEAN
  BY DEF Persistence, Save
<1>2. MarkSaved(p, p.inFlight.generation, p.inFlight.layout) \in Persistence
  BY <1>1, PersistenceSteps
<1> DEFINE q == MarkSaved(p, p.inFlight.generation, p.inFlight.layout)
<1>3. [q EXCEPT !.inFlight = NoSave] \in Persistence
  BY <1>2, PersistenceSteps
<1>4. [p EXCEPT !.inFlight = NoSave] \in Persistence
  BY PersistenceSteps
<1> QED
  BY <1>3, <1>4 DEF Polled

\* The queue stays a queue of requests: what a send, the worker and a receiver
\* that gives up do to it.
LEMMA QueueSteps ==
  ASSUME queue \in Seq(Request), NEW w \in Windows, NEW to,
         NEW r \in Request
  PROVE  /\ Append(queue, r) \in Seq(Request) /\ Len(Append(queue, r)) = Len(queue) + 1
         /\ Unheard(w, to) \in Seq(Request) /\ Len(Unheard(w, to)) = Len(queue)
         /\ Len(queue) \in Nat
         /\ queue # <<>> => /\ Head(queue) \in Request
                            /\ Tail(queue) \in Seq(Request)
                            /\ Len(Tail(queue)) = Len(queue) - 1
<1>1. Append(queue, r) \in Seq(Request) /\ Len(Append(queue, r)) = Len(queue) + 1
  OBVIOUS
<1>2. queue # <<>> => /\ Head(queue) \in Request
                      /\ Tail(queue) \in Seq(Request)
                      /\ Len(Tail(queue)) = Len(queue) - 1
  OBVIOUS
<1>3. Unheard(w, to) \in Seq(Request) /\ Len(Unheard(w, to)) = Len(queue)
  <2> DEFINE n == Len(queue)
  <2>1. n \in Nat /\ DOMAIN queue = 1 .. n /\ \A i \in 1 .. n : queue[i] \in Request
    BY LenProperties
  <2>2. \A q \in Request : [q EXCEPT !.to = "nobody"] \in Request
    BY DEF Request
  <2>3. Unheard(w, to) \in [1 .. n -> Request]
    BY <2>1, <2>2 DEF Unheard
  <2> QED
    BY <2>1, <2>3
<1> QED
  BY <1>1, <1>2, <1>3, LenProperties

\* The requests and the states of a blocking call are well typed.
LEMMA NewRequests ==
  ASSUME NEW w \in Windows, NEW config \in Config, NEW layout \in BOOLEAN,
         NEW kind \in {"preferences", "full", "flush", "shutdown"},
         NEW to \in {"save", "commit", "call", "nobody"}
  PROVE  Asked(kind, w, to, config, layout) \in Request
BY DEF Asked, Request

\* What follows a blocking call is well typed, and neither an edit nor a wait.
LEMMA CallSteps ==
  ASSUME NEW w \in Windows
  PROVE  /\ \A what \in {"preferences", "layout", "release"} : Due(what, w) \in Call
         /\ \A what \in {"edit", "preferences", "layout", "release"} :
              AfterCall(what, w) \in Call /\ AfterCall(what, w).what # "edit"
              /\ AfterCall(what, w).answer # "waiting"
         /\ NoCall \in Call
<1>1. NoCall \in Call /\ NoCall.what = "none" /\ NoCall.answer = "ok"
  BY BlankIsConfig, RepositoryAssumption DEF NoCall, Call, Answers
<1>2. \A what \in {"preferences", "layout", "release"} :
        Due(what, w) \in Call /\ Due(what, w).what = what /\ Due(what, w).answer = "due"
  BY BlankIsConfig DEF Due, Call, Answers
<1> QED
  BY <1>1, <1>2 DEF AfterCall

\* A reply changes an answer that is awaited and nothing else of a call.
LEMMA ReplyTypeOK ==
  ASSUME persist \in [Windows -> Persistence], commit \in [Windows -> Commit], call \in Call,
         NEW r \in Request, NEW answer \in {"ok", "failed"}, Reply(r, answer)
  PROVE  /\ persist' \in [Windows -> Persistence]
         /\ commit' \in [Windows -> Commit]
         /\ call' \in Call
         /\ call'.what = call.what /\ call'.window = call.window /\ call'.config = call.config
         /\ call'.answer = "waiting" => call.answer = "waiting"
<1>1. r.window \in Windows /\ answer \in Answers
  BY DEF Request, Answers
<1>2. persist' \in [Windows -> Persistence]
  <2>1. \A p \in Persistence : [p EXCEPT !.inFlight = [p.inFlight EXCEPT !.answer = answer]] \in Persistence
    <3>1. \A q \in Save : [q EXCEPT !.answer = answer] \in Save
      BY <1>1 DEF Save
    <3> QED
      BY <3>1 DEF Persistence
  <2> QED
    BY <1>1, <2>1 DEF Reply
<1>3. commit' \in [Windows -> Commit]
  <2>1. \A c \in Commit : [c EXCEPT !.answer = answer] \in Commit
    BY <1>1 DEF Commit
  <2> QED
    BY <1>1, <2>1 DEF Reply
<1>4. /\ call' \in Call
      /\ call'.what = call.what /\ call'.window = call.window /\ call'.config = call.config
      /\ call'.answer = "waiting" => call.answer = "waiting"
  BY <1>1 DEF Reply, Call, Answers
<1> QED
  BY <1>2, <1>3, <1>4
-----------------------------------------------------------------------------
\* While a catalog change is being stored, the configuration it stores counts
\* no use less than the window that waits for it (commit_catalog_change).
EditCounts == call.what = "edit" => Counted(mem[call.window], call.config)

IInv == TypeOK /\ EditCounts

\* The variables no handler of a window changes.
LEMMA Kept ==
  ASSUME TypeOK, UiKeeps
  PROVE  /\ disk' \in Config /\ lastSaved' \in [known : BOOLEAN, config : Config]
         /\ {lastError', working', unseen'} \subseteq BOOLEAN
         /\ failures' \in Nat /\ written' \in [prefs : SUBSET Nat, layout : SUBSET Nat]
         /\ report' \in [Windows -> SUBSET {"preferences", "layout", "release"}]
BY DEF TypeOK, UiKeeps, workerVars

\* A save of the worker keeps the invariant.
LEMMA WorkerSavesStep ==
  ASSUME IInv, WorkerSaves
  PROVE  IInv'
<1> DEFINE r == Head(queue)
<1>1. r \in Request /\ Tail(queue) \in Seq(Request) /\ Len(Tail(queue)) = Len(queue) - 1
      /\ Len(queue) \in Nat
  BY QueueSteps, RepositoryAssumption DEF WorkerSaves, IInv, TypeOK
<1>2. PICK stored \in BOOLEAN, ok \in BOOLEAN :
        /\ failures' = IF stored THEN failures ELSE failures + 1
        /\ disk' = IF ok THEN Written(r) ELSE disk
        /\ lastSaved' = IF ok THEN [known |-> TRUE, config |-> Written(r)] ELSE lastSaved
        /\ written' = [prefs |-> written.prefs \cup {disk'.prefs},
                       layout |-> written.layout \cup {disk'.layout}]
        /\ lastError' = ErrorAfter(ok)
        /\ unseen' = (unseen \/ ~ok)
        /\ Reply(r, IF ok THEN "ok" ELSE "failed")
  BY DEF WorkerSaves
<1>3. Written(r) \in Config
  BY <1>1, WrittenIsConfig DEF IInv, TypeOK
<1>4. /\ disk' \in Config /\ lastSaved' \in [known : BOOLEAN, config : Config]
      /\ failures' \in Nat
  BY <1>2, <1>3 DEF IInv, TypeOK
<1>5. written' \in [prefs : SUBSET Nat, layout : SUBSET Nat]
  BY <1>2, <1>4 DEF IInv, TypeOK
<1>6. {lastError', unseen'} \subseteq BOOLEAN
  BY <1>2, Zenon DEF IInv, TypeOK, ErrorAfter
<1>7. /\ persist' \in [Windows -> Persistence] /\ commit' \in [Windows -> Commit]
      /\ call' \in Call
      /\ call'.what = call.what /\ call'.window = call.window /\ call'.config = call.config
      /\ call'.answer = "waiting" => call.answer = "waiting"
  BY <1>1, <1>2, ReplyTypeOK DEF IInv, TypeOK
<1>8. /\ queue' = Tail(queue)
      /\ UNCHANGED <<working, open, opened, mem, report, edits, entries, acked, crossed>>
  BY DEF WorkerSaves
<1>9. Len(queue') <= IF call'.answer = "waiting" THEN Capacity + 1 ELSE Capacity
  BY <1>1, <1>7, <1>8, RepositoryAssumption DEF IInv, TypeOK
<1>10. TypeOK'
  BY <1>1, <1>4, <1>5, <1>6, <1>7, <1>8, <1>9 DEF IInv, TypeOK
<1>11. EditCounts'
  BY <1>7, <1>8 DEF IInv, EditCounts, Counted
<1> QED
  BY <1>10, <1>11 DEF IInv

\* A flush or a shutdown keeps the invariant.
LEMMA WorkerReportsStep ==
  ASSUME IInv, WorkerReports
  PROVE  IInv'
<1> DEFINE r == Head(queue)
           answer == IF lastError THEN "failed" ELSE "ok"
<1>1. r \in Request /\ Tail(queue) \in Seq(Request) /\ Len(Tail(queue)) = Len(queue) - 1
      /\ Len(queue) \in Nat
  BY QueueSteps, RepositoryAssumption DEF WorkerReports, IInv, TypeOK
<1>2. /\ Reply(r, answer) /\ answer \in {"ok", "failed"}
      /\ lastError' = FALSE /\ working' \in BOOLEAN /\ queue' = Tail(queue)
      /\ UNCHANGED <<disk, lastSaved, failures, written, open, opened, mem, report, edits,
                     entries, acked, crossed, unseen>>
  BY DEF WorkerReports
<1> HIDE DEF r, answer
<1>3. /\ persist' \in [Windows -> Persistence] /\ commit' \in [Windows -> Commit]
      /\ call' \in Call
      /\ call'.what = call.what /\ call'.window = call.window /\ call'.config = call.config
      /\ call'.answer = "waiting" => call.answer = "waiting"
  BY <1>1, <1>2, ReplyTypeOK DEF IInv, TypeOK
<1>4. Len(queue') <= IF call'.answer = "waiting" THEN Capacity + 1 ELSE Capacity
  BY <1>1, <1>2, <1>3, RepositoryAssumption DEF IInv, TypeOK
<1>5. TypeOK'
  BY <1>1, <1>2, <1>3, <1>4 DEF IInv, TypeOK
<1>6. EditCounts'
  BY <1>2, <1>3 DEF IInv, EditCounts, Counted
<1> QED
  BY <1>5, <1>6 DEF IInv

\* While the user interface is free, no edit is being stored.
LEMMA FreeCounts ==
  ASSUME Free, UNCHANGED call
  PROVE  EditCounts' /\ call.answer # "waiting"
BY DEF Free, NoCall, EditCounts

\* A new window, with the configuration in the file, keeps the invariant.
LEMMA OpenWindowStep ==
  ASSUME IInv, NEW w \in Windows, OpenWindow(w)
  PROVE  IInv'
<1>1. /\ Free /\ UiKeeps /\ open' = open \cup {w} /\ opened' = opened \cup {w}
      /\ mem' = [mem EXCEPT ![w] = disk]
      /\ UNCHANGED <<persist, commit, queue, call, edits, entries, acked, crossed>>
  BY DEF OpenWindow
<1> QED
  BY <1>1, Kept, FreeCounts DEF IInv, TypeOK

\* Changes of preferences, layout and usage keep the invariant.
LEMMA EditSteps ==
  ASSUME IInv, NEW w \in Windows, EditPreference(w) \/ EditLayout(w) \/ RecordUsage(w)
  PROVE  IInv'
<1>1. /\ Free /\ UiKeeps /\ edits' = edits + 1
      /\ UNCHANGED <<open, opened, commit, queue, call, entries, acked, crossed>>
  BY DEF EditPreference, EditLayout, RecordUsage
<1>2. mem[w] \in Config /\ persist[w] \in Persistence /\ edits + 1 \in Nat
      /\ mem \in [Windows -> Config] /\ persist \in [Windows -> Persistence]
  BY DEF IInv, TypeOK
<1>3. persist' \in [Windows -> Persistence]
  <2>1. MarkDirty(persist[w]) \in Persistence /\ MarkLayoutDirty(persist[w]) \in Persistence
    BY <1>2, PersistenceSteps
  <2>2. \/ persist' = [persist EXCEPT ![w] = MarkDirty(persist[w])]
        \/ persist' = [persist EXCEPT ![w] = MarkLayoutDirty(persist[w])]
    BY DEF EditPreference, EditLayout, RecordUsage
  <2> QED
    BY <1>2, <2>1, <2>2
<1>4. mem' \in [Windows -> Config]
  <2> DEFINE n == edits + 1
             used == [mem[w].usage EXCEPT ![w] = @ + 1]
  <2>1. \/ mem' = [mem EXCEPT ![w] = [mem[w] EXCEPT !.prefs = n]]
        \/ mem' = [mem EXCEPT ![w] = [mem[w] EXCEPT !.layout = n]]
        \/ mem' = [mem EXCEPT ![w] = [mem[w] EXCEPT !.usage = used]]
    BY DEF EditPreference, EditLayout, RecordUsage
  <2>2. n \in Nat /\ used \in [Windows -> Nat]
    BY <1>2
  <2> HIDE DEF n, used
  <2>3. /\ [mem[w] EXCEPT !.prefs = n] \in Config
        /\ [mem[w] EXCEPT !.layout = n] \in Config
        /\ [mem[w] EXCEPT !.usage = used] \in Config
    BY <1>2, <2>2
  <2> QED
    BY <1>2, <2>1, <2>3
<1>5. edits' \in Nat
  BY <1>1, <1>2
<1> QED
  BY <1>1, <1>3, <1>4, <1>5, Kept, FreeCounts DEF IInv, TypeOK

\* The driver of the preference saves keeps the invariant.
LEMMA DriveStep ==
  ASSUME IInv, NEW w \in Windows, NEW ready \in BOOLEAN, Drive(w, ready)
  PROVE  IInv'
<1> DEFINE p == Polled(persist[w])
           layout == LayoutRequired(p)
           sent == [answer |-> "waiting", generation |-> p.generation, layout |-> layout]
           request == Asked("preferences", w, "save", mem[w], layout)
<1>1. p \in Persistence /\ persist \in [Windows -> Persistence] /\ mem[w] \in Config
  BY PolledIsPersistence DEF IInv, TypeOK
<1>2. layout \in BOOLEAN /\ p.generation \in Nat
  BY <1>1, PersistenceSteps DEF Persistence
<1>3. sent \in Save
  <2> HIDE DEF layout
  <2> QED
    BY <1>2 DEF Save, Answers
<1>4. request \in Request
  BY <1>1, <1>2, NewRequests
<1>5. /\ Free /\ UiKeeps
      /\ UNCHANGED <<open, opened, mem, commit, call, edits, entries, acked, crossed>>
      /\ \/ /\ Len(queue) < Capacity
            /\ persist' = [persist EXCEPT ![w] = [p EXCEPT !.inFlight = sent]]
            /\ queue' = Append(queue, request)
         \/ persist' = [persist EXCEPT ![w] = p] /\ queue' = queue
  BY DEF Drive, HasRoom
<1> HIDE DEF p, layout, sent, request
<1>6. [p EXCEPT !.inFlight = sent] \in Persistence
  BY <1>1, <1>3 DEF Persistence
<1>7. persist' \in [Windows -> Persistence]
  BY <1>1, <1>5, <1>6
<1>8. queue' \in Seq(Request) /\ (Len(queue') <= Capacity \/ queue' = queue)
  <2>1. queue \in Seq(Request) /\ Capacity \in Nat
    BY RepositoryAssumption DEF IInv, TypeOK
  <2>2. /\ Append(queue, request) \in Seq(Request)
        /\ Len(Append(queue, request)) = Len(queue) + 1 /\ Len(queue) \in Nat
    BY <1>4, <2>1, QueueSteps
  <2> QED
    BY <1>5, <2>1, <2>2
<1>9. call.answer # "waiting" /\ EditCounts'
  BY <1>5, FreeCounts
<1> QED
  BY <1>5, <1>7, <1>8, <1>9, Kept DEF IInv, TypeOK

\* What a window stages for a full save: its configuration and one entry more.
LEMMA StagedIsConfig ==
  ASSUME TypeOK, NEW w \in Windows
  PROVE  Staged(w) \in Config /\ Counted(mem[w], Staged(w))
<1>1. mem[w] \in Config /\ entries + 1 \in Nat
  BY DEF TypeOK
<1>2. mem[w].catalog \cup {entries + 1} \in SUBSET Nat
  BY <1>1
<1> DEFINE catalog == mem[w].catalog \cup {entries + 1}
<1>3. Staged(w) = [mem[w] EXCEPT !.catalog = catalog]
  BY DEF Staged
<1> HIDE DEF catalog
<1>4. catalog \in SUBSET Nat
  BY <1>2 DEF catalog
<1> QED
  BY <1>1, <1>3, <1>4 DEF Counted

\* The beginning of a full commit keeps the invariant.
LEMMA BeginCommitStep ==
  ASSUME IInv, NEW w \in Windows, BeginCommit(w)
  PROVE  IInv'
<1> DEFINE config == Staged(w)
           layout == LayoutRequired(persist[w])
           sent == [answer |-> "waiting", staged |-> config,
                    generation |-> persist[w].generation, layout |-> layout]
           request == Asked("full", w, "commit", config, FALSE)
<1>1. /\ config \in Config /\ layout \in BOOLEAN /\ persist[w].generation \in Nat
      /\ request \in Request
  <2>1. config \in Config
    BY StagedIsConfig DEF IInv
  <2>2. persist[w] \in Persistence
    BY DEF IInv, TypeOK
  <2>3. layout \in BOOLEAN /\ persist[w].generation \in Nat
    BY <2>2 DEF Persistence, LayoutRequired
  <2> QED
    BY <2>1, <2>3, NewRequests
<1>2. /\ Free /\ UiKeeps /\ Len(queue) < Capacity /\ entries' = entries + 1
      /\ commit' = [commit EXCEPT ![w] = sent]
      /\ queue' = Append(queue, request)
      /\ UNCHANGED <<open, opened, mem, persist, call, edits, acked, crossed>>
  BY DEF BeginCommit, HasRoom
<1>3. sent \in Commit
  <2> HIDE DEF config, layout
  <2> QED
    BY <1>1 DEF Commit, Answers
<1> HIDE DEF config, layout, sent, request
<1>4. commit' \in [Windows -> Commit] /\ entries' \in Nat
  BY <1>2, <1>3 DEF IInv, TypeOK
<1>5. queue' \in Seq(Request) /\ Len(queue') <= Capacity
  <2>1. queue \in Seq(Request) /\ Capacity \in Nat
    BY RepositoryAssumption DEF IInv, TypeOK
  <2>2. /\ Append(queue, request) \in Seq(Request)
        /\ Len(Append(queue, request)) = Len(queue) + 1 /\ Len(queue) \in Nat
    BY <1>1, <2>1, QueueSteps
  <2> QED
    BY <1>2, <2>1, <2>2
<1>6. call.answer # "waiting" /\ EditCounts'
  BY <1>2, FreeCounts
<1> QED
  BY <1>2, <1>4, <1>5, <1>6, Kept DEF IInv, TypeOK

\* What a window keeps when its commit has been written.
LEMMA CommittedIsConfig ==
  ASSUME NEW c \in Commit, NEW now \in Config, NEW p
  PROVE  Committed(c, now, p) \in Config /\ Counted(now, Committed(c, now, p))
<1> DEFINE newer == p.layoutGeneration > c.generation
<1>1. c.staged \in Config
  BY DEF Commit
<1>2. Committed(c, now, p) = MergedPreferences(c.staged, now, newer)
  BY DEF Committed
<1>3. \A b \in BOOLEAN : /\ MergedPreferences(c.staged, now, b) \in Config
                           /\ Counted(now, MergedPreferences(c.staged, now, b))
  BY <1>1, ConfigMerges
<1>4. newer \in BOOLEAN
  OBVIOUS
<1> HIDE DEF newer
<1> QED
  BY <1>2, <1>3, <1>4, Zenon

\* The completion of a full commit keeps the invariant and lowers no count.
LEMMA FinishCommitStep ==
  ASSUME IInv, NEW w \in Windows, FinishCommit(w)
  PROVE  IInv' /\ \A v \in Windows : Counted(mem[v], mem[v]')
<1> DEFINE c == commit[w]
           config == Committed(c, mem[w], persist[w])
           saved == MarkSaved(persist[w], c.generation, c.layout)
<1>1. /\ c \in Commit /\ mem[w] \in Config /\ persist[w] \in Persistence
      /\ mem \in [Windows -> Config] /\ persist \in [Windows -> Persistence]
  BY DEF IInv, TypeOK
<1>2. config \in Config /\ Counted(mem[w], config)
  BY <1>1, CommittedIsConfig
<1>3. saved \in Persistence
  BY <1>1, PersistenceSteps DEF Commit
<1>4. acked' \subseteq Nat
  <2>1. c.staged.catalog \subseteq Nat
    BY <1>1 DEF Commit
  <2>2. acked' = acked \/ acked' = acked \cup (c.staged.catalog \ mem[w].catalog)
    BY DEF FinishCommit
  <2> QED
    BY <2>1, <2>2 DEF IInv, TypeOK
<1>5. /\ Free /\ UiKeeps /\ commit' = [commit EXCEPT ![w] = NoCommit]
      /\ UNCHANGED <<open, opened, queue, call, edits, entries, crossed>>
      /\ \/ UNCHANGED <<mem, persist>>
         \/ /\ mem' = [mem EXCEPT ![w] = config]
            /\ persist' = [persist EXCEPT ![w] = saved]
  BY DEF FinishCommit
<1> HIDE DEF config, saved
<1>6. mem' \in [Windows -> Config] /\ persist' \in [Windows -> Persistence]
  BY <1>1, <1>2, <1>3, <1>5
<1>7. NoCommit \in Commit
  BY BlankIsConfig DEF NoCommit, Commit, Answers
<1>8. \A v \in Windows : Counted(mem[v], mem[v]')
  <2> TAKE v \in Windows
  <2>1. CASE mem[v]' = mem[v]
    <3>1. mem[v].usage \in [Windows -> Nat]
      BY <1>1
    <3> QED
      BY <2>1, <3>1 DEF Counted
  <2>2. CASE mem[v]' # mem[v]
    <3>1. v = w /\ mem[v]' = config
      BY <1>1, <1>5, <2>2
    <3> QED
      BY <1>2, <3>1
  <2> QED
    BY <2>1, <2>2
<1>9. IInv'
  BY <1>4, <1>5, <1>6, <1>7, Kept, FreeCounts DEF IInv, TypeOK
<1> QED
  BY <1>8, <1>9

\* Giving a commit up keeps the invariant.
LEMMA CommitTimesOutStep ==
  ASSUME IInv, NEW w \in Windows, CommitTimesOut(w)
  PROVE  IInv'
<1>1. /\ Free /\ UiKeeps /\ commit' = [commit EXCEPT ![w] = NoCommit]
      /\ queue' = Unheard(w, "commit")
      /\ UNCHANGED <<open, opened, mem, persist, call, edits, entries, acked, crossed>>
  BY DEF CommitTimesOut
<1>2. NoCommit \in Commit
  BY BlankIsConfig DEF NoCommit, Commit, Answers
<1>3. queue' \in Seq(Request) /\ Len(queue') = Len(queue)
  <2>1. \A r \in Request : Unheard(w, "commit") \in Seq(Request)
                            /\ Len(Unheard(w, "commit")) = Len(queue)
    BY QueueSteps DEF IInv, TypeOK
  <2>2. Asked("flush", w, "call", Blank, FALSE) \in Request
    BY BlankIsConfig, NewRequests
  <2> QED
    BY <1>1, <2>1, <2>2
<1> QED
  BY <1>1, <1>2, <1>3, Kept, FreeCounts DEF IInv, TypeOK

\* Sending a blocking request fills at most one place more than the queue has.
LEMMA CallsStep ==
  ASSUME TypeOK, call.answer # "waiting", NEW w \in Windows,
         NEW what \in {"edit", "preferences", "layout", "release"},
         NEW config \in Config, NEW r \in Request,
         queue' = Append(queue, r),
         call' = [what |-> what, window |-> w, answer |-> "waiting", config |-> config]
  PROVE  /\ call' \in Call /\ call'.what = what /\ call'.window = w /\ call'.config = config
         /\ call'.answer = "waiting"
         /\ queue' \in Seq(Request) /\ Len(queue') <= Capacity + 1
<1>1. queue \in Seq(Request) /\ Capacity \in Nat /\ Len(queue) <= Capacity
  BY RepositoryAssumption DEF TypeOK
<1>2. Append(queue, r) \in Seq(Request) /\ Len(Append(queue, r)) = Len(queue) + 1
      /\ Len(queue) \in Nat
  BY <1>1, QueueSteps
<1>3. queue' \in Seq(Request) /\ Len(queue') <= Capacity + 1
  BY <1>1, <1>2
<1> QED
  BY <1>3 DEF Call, Answers

\* A blocking catalog change begins with the counts of its window.
LEMMA BeginEditStep ==
  ASSUME IInv, NEW w \in Windows, BeginEdit(w)
  PROVE  IInv'
<1>1. Staged(w) \in Config /\ Counted(mem[w], Staged(w))
  BY StagedIsConfig DEF IInv
<1>2. /\ Free /\ UiKeeps /\ Calls("edit", w, "full", Staged(w), FALSE)
      /\ entries' = entries + 1 /\ crossed' = (crossed \/ commit[w] # NoCommit)
      /\ UNCHANGED <<open, opened, mem, persist, commit, edits, acked>>
  BY DEF BeginEdit, windowVars
<1>3. call.answer # "waiting"
  BY <1>2 DEF Free, NoCall
<1>4. /\ call' \in Call /\ call'.what = "edit" /\ call'.window = w /\ call'.config = Staged(w)
      /\ call'.answer = "waiting"
      /\ queue' \in Seq(Request) /\ Len(queue') <= Capacity + 1
  <2>1. Asked("full", w, "call", Staged(w), FALSE) \in Request
    BY <1>1, NewRequests
  <2> QED
    BY <1>1, <1>2, <1>3, <2>1, CallsStep DEF IInv, Calls
<1>5. entries' \in Nat
  BY <1>2 DEF IInv, TypeOK
<1>6. crossed' \in BOOLEAN
  BY <1>2, Zenon DEF IInv, TypeOK
<1>7. TypeOK'
  BY <1>2, <1>4, <1>5, <1>6, Kept DEF IInv, TypeOK
<1>8. EditCounts'
  BY <1>1, <1>2, <1>4 DEF EditCounts, Counted
<1> QED
  BY <1>7, <1>8 DEF IInv

\* The steps of a close before its last: they leave the windows alone.
LEMMA CloseSteps ==
  ASSUME IInv, NEW w \in Windows, BeginClose(w) \/ ClosePreferences(w) \/ CloseLayout(w)
  PROVE  IInv'
<1>1. UiKeeps /\ UNCHANGED <<open, opened, mem, persist, commit, edits, entries, acked, crossed>>
  BY DEF BeginClose, ClosePreferences, CloseLayout, windowVars
<1>2. call.answer # "waiting" /\ disk \in Config /\ mem[w] \in Config
  <2>1. call = NoCall \/ \E what \in {"preferences", "layout"} : call = Due(what, w)
    BY DEF BeginClose, ClosePreferences, CloseLayout, Free
  <2>2. call.answer # "waiting"
    BY <2>1 DEF NoCall, Due
  <2> QED
    BY <2>2 DEF IInv, TypeOK
<1>3. /\ call' \in Call /\ call'.what # "edit" /\ queue' \in Seq(Request)
      /\ Len(queue') <= IF call'.answer = "waiting" THEN Capacity + 1 ELSE Capacity
  <2>1. CASE /\ UNCHANGED queue
             /\ \E what \in {"preferences", "layout", "release"} : call' = Due(what, w)
    <3>1. call' \in Call
      BY <2>1, CallSteps
    <3>2. call'.what # "edit" /\ call'.answer # "waiting"
      BY <2>1 DEF Due
    <3> QED
      BY <1>2, <2>1, <3>1, <3>2 DEF IInv, TypeOK
  <2>2. CASE Calls("preferences", w, "preferences", mem[w], LayoutRequired(persist[w]))
    <3> DEFINE layout == LayoutRequired(persist[w])
               r == Asked("preferences", w, "call", mem[w], layout)
    <3>1. layout \in BOOLEAN
      BY DEF LayoutRequired
    <3>2. r \in Request
      BY <1>2, <3>1, NewRequests
    <3>3. queue' = Append(queue, r)
          /\ call' = [what |-> "preferences", window |-> w, answer |-> "waiting",
                      config |-> mem[w]]
      BY <2>2 DEF Calls
    <3> HIDE DEF r
    <3> QED
      BY <1>2, <3>2, <3>3, CallsStep DEF IInv
  <2>3. CASE Calls("layout", w, "full", [disk EXCEPT !.layout = mem[w].layout], FALSE)
    <3>1. [disk EXCEPT !.layout = mem[w].layout] \in Config
      BY <1>2
    <3>2. Asked("full", w, "call", [disk EXCEPT !.layout = mem[w].layout], FALSE) \in Request
      BY <3>1, NewRequests
    <3> QED
      BY <1>2, <2>3, <3>1, <3>2, CallsStep DEF IInv, Calls
  <2> QED
    BY <2>1, <2>2, <2>3 DEF BeginClose, ClosePreferences, CloseLayout
<1> QED
  BY <1>1, <1>3, Kept DEF IInv, TypeOK, EditCounts

\* The release of a window keeps the invariant.
LEMMA CloseReleaseStep ==
  ASSUME IInv, NEW w \in Windows, CloseRelease(w)
  PROVE  IInv'
<1> DEFINE kind == IF open = {w} THEN "shutdown" ELSE "flush"
<1>1. /\ UiKeeps /\ Calls("release", w, kind, Blank, FALSE) /\ open' = open \ {w}
      /\ UNCHANGED <<opened, mem, persist, commit, edits, entries, acked, crossed>>
  BY DEF CloseRelease
<1>2. call.answer # "waiting" /\ kind \in {"shutdown", "flush"}
  BY DEF CloseRelease, Due
<1> HIDE DEF kind
<1>3. /\ call' \in Call /\ call'.what = "release" /\ call'.answer = "waiting"
      /\ queue' \in Seq(Request) /\ Len(queue') <= Capacity + 1
  <2>1. Asked(kind, w, "call", Blank, FALSE) \in Request
    BY <1>2, BlankIsConfig, NewRequests
  <2> QED
    BY <1>1, <1>2, <2>1, BlankIsConfig, CallsStep DEF IInv, Calls
<1> QED
  BY <1>1, <1>3, Kept DEF IInv, TypeOK, EditCounts

\* The end of a blocking call keeps the invariant and lowers no count.
LEMMA CallReturnsStep ==
  ASSUME IInv, CallReturns
  PROVE  IInv' /\ \A v \in Windows : Counted(mem[v], mem[v]')
<1> DEFINE w == call.window
           layout == LayoutRequired(persist[w])
           saved == MarkSaved(persist[w], persist[w].generation, layout)
<1>1. /\ w \in Windows /\ call.config \in Config /\ mem[w] \in Config
      /\ mem \in [Windows -> Config] /\ persist \in [Windows -> Persistence]
      /\ persist[w] \in Persistence
      /\ call.what \in {"edit", "preferences", "layout", "release"}
  BY DEF IInv, TypeOK, Call, CallReturns
<1>2. saved \in Persistence
  <2>1. persist[w].generation \in Nat /\ layout \in BOOLEAN
    BY <1>1 DEF Persistence, LayoutRequired
  <2> QED
    BY <1>1, <2>1, PersistenceSteps
<1>3. /\ UiKeeps /\ call.answer = "ok" /\ call' = AfterCall(call.what, w)
      /\ UNCHANGED <<open, opened, commit, queue, edits, entries, crossed>>
      /\ \/ mem' = mem
         \/ call.what = "edit" /\ mem' = [mem EXCEPT ![w] = call.config]
      /\ persist' = persist \/ persist' = [persist EXCEPT ![w] = saved]
      /\ acked' = acked \/ acked' = acked \cup (call.config.catalog \ mem[w].catalog)
  BY DEF CallReturns
<1> HIDE DEF saved
<1>4. call' \in Call /\ call'.what # "edit" /\ call'.answer # "waiting"
  BY <1>1, <1>3, CallSteps
<1>5. mem' \in [Windows -> Config] /\ persist' \in [Windows -> Persistence]
  BY <1>1, <1>2, <1>3
<1>6. acked' \subseteq Nat
  <2>1. call.config.catalog \subseteq Nat
    BY <1>1
  <2> QED
    BY <1>3, <2>1 DEF IInv, TypeOK
<1>7. TypeOK'
  BY <1>3, <1>4, <1>5, <1>6, Kept DEF IInv, TypeOK
<1>8. \A v \in Windows : Counted(mem[v], mem[v]')
  <2> TAKE v \in Windows
  <2>1. CASE mem[v]' = mem[v]
    <3>1. mem[v].usage \in [Windows -> Nat]
      BY <1>1
    <3> QED
      BY <2>1, <3>1 DEF Counted
  <2>2. CASE mem[v]' # mem[v]
    <3>1. v = w /\ mem[v]' = call.config /\ call.what = "edit"
      BY <1>1, <1>3, <2>2
    <3> QED
      BY <3>1 DEF IInv, EditCounts
  <2> QED
    BY <2>1, <2>2
<1> QED
  BY <1>4, <1>7, <1>8 DEF IInv, EditCounts

\* A blocking call that fails keeps the invariant.
LEMMA CallFailsStep ==
  ASSUME IInv, CallFails
  PROVE  IInv'
<1> DEFINE w == call.window
<1>1. /\ w \in Windows /\ report \in [Windows -> SUBSET {"preferences", "layout", "release"}]
      /\ call.what \in {"edit", "preferences", "layout", "release"}
      /\ queue \in Seq(Request)
  BY DEF IInv, TypeOK, Call, CallFails
<1>2. /\ queue' = Unheard(w, "call") /\ Reported(call.what, w)
      /\ call' = AfterCall(call.what, w) /\ unseen' = (unseen /\ call.what # "release")
      /\ UNCHANGED <<disk, lastSaved, lastError, working, failures, written, open, opened, mem,
                     persist, commit, edits, entries, acked, crossed>>
      /\ call.answer = "waiting" => Len(queue) <= Capacity
  BY DEF CallFails, workerVars, windowVars
<1>3. call' \in Call /\ call'.what # "edit" /\ call'.answer # "waiting"
  BY <1>1, <1>2, CallSteps
<1>4. queue' \in Seq(Request) /\ Len(queue') <= Capacity
  <2>1. Asked("flush", w, "call", Blank, FALSE) \in Request
    BY <1>1, BlankIsConfig, NewRequests
  <2>2. Unheard(w, "call") \in Seq(Request) /\ Len(Unheard(w, "call")) = Len(queue)
    BY <1>1, <2>1, QueueSteps
  <2> QED
    BY <1>2, <2>2 DEF IInv, TypeOK
<1>5. report' \in [Windows -> SUBSET {"preferences", "layout", "release"}]
  BY <1>1, <1>2 DEF Reported
<1>6. unseen' \in BOOLEAN
  BY <1>2, Zenon
<1> QED
  BY <1>2, <1>3, <1>4, <1>5, <1>6 DEF IInv, TypeOK, EditCounts

\* A write of another process keeps the invariant and lowers no count.
LEMMA OutsideWriteStep ==
  ASSUME IInv, OutsideWrite
  PROVE  IInv' /\ Counted(disk, disk')
<1>1. disk \in Config /\ entries + 1 \in Nat
  BY DEF IInv, TypeOK
<1> DEFINE catalog == disk.catalog \cup {entries + 1}
<1>2. catalog \in SUBSET Nat
  BY <1>1
<1>3. /\ disk' = [disk EXCEPT !.catalog = catalog] /\ entries' = entries + 1
      /\ UNCHANGED <<lastSaved, lastError, working, failures, written, open, opened, mem, persist,
                     commit, queue, call, report, edits, acked, crossed, unseen>>
  BY DEF OutsideWrite, windowVars
<1> HIDE DEF catalog
<1>4. disk' \in Config /\ Counted(disk, disk')
  BY <1>1, <1>2, <1>3 DEF Counted
<1>5. entries' \in Nat
  BY <1>1, <1>3
<1> QED
  BY <1>3, <1>4, <1>5 DEF IInv, TypeOK, EditCounts, Counted

\* The invariant holds at the start.
LEMMA InitIInv == Init => IInv
<1> SUFFICES ASSUME Init PROVE IInv
  OBVIOUS
<1>1. NoCommit \in Commit
  BY BlankIsConfig DEF NoCommit, Commit, Answers
<1>2. FreshPersistence \in Persistence
  BY DEF FreshPersistence, Persistence, NoSave, Save, Answers
<1>3. NoCall \in Call /\ NoCall.what = "none" /\ NoCall.answer = "ok"
  BY BlankIsConfig, RepositoryAssumption DEF NoCall, Call, Answers
<1>4. queue \in Seq(Request) /\ Len(queue) <= Capacity
  BY EmptySeq, RepositoryAssumption DEF Init
<1>5. {lastError, working, crossed, unseen} \subseteq BOOLEAN
  BY DEF Init
<1>6. /\ disk \in Config /\ mem \in [Windows -> Config]
      /\ lastSaved \in [known : BOOLEAN, config : Config]
      /\ written \in [prefs : SUBSET Nat, layout : SUBSET Nat]
  BY BlankIsConfig DEF Init
<1>7. /\ persist \in [Windows -> Persistence] /\ commit \in [Windows -> Commit]
      /\ report \in [Windows -> SUBSET {"preferences", "layout", "release"}]
      /\ open \subseteq opened /\ opened \subseteq Windows
      /\ {edits, entries, failures} \subseteq Nat /\ acked \subseteq Nat
  BY <1>1, <1>2, RepositoryAssumption DEF Init
<1>8. call = NoCall
  BY DEF Init
<1> QED
  BY <1>3, <1>4, <1>5, <1>6, <1>7, <1>8 DEF IInv, TypeOK, EditCounts
-----------------------------------------------------------------------------
\* The invariant is inductive: one step per action of the specification.
LEMMA Inductive == IInv /\ [Next]_vars => IInv'
<1> SUFFICES ASSUME IInv, [Next]_vars PROVE IInv'
  OBVIOUS
<1>1. CASE WorkerSaves
  BY <1>1, WorkerSavesStep
<1>2. CASE WorkerReports
  BY <1>2, WorkerReportsStep
<1>3. ASSUME NEW w \in Windows, Handler(w) PROVE IInv'
  BY <1>3, OpenWindowStep, EditSteps, DriveStep, BeginCommitStep, FinishCommitStep,
     CommitTimesOutStep, BeginEditStep, CloseSteps, CloseReleaseStep DEF Handler
<1>4. CASE CallReturns
  BY <1>4, CallReturnsStep
<1>5. CASE CallFails
  BY <1>5, CallFailsStep
<1>6. CASE OutsideWrite
  BY <1>6, OutsideWriteStep
<1>7. CASE UNCHANGED vars
  BY <1>7 DEF IInv, TypeOK, EditCounts, Counted, vars, workerVars, windowVars
<1> QED
  BY <1>1, <1>2, <1>3, <1>4, <1>5, <1>6, <1>7 DEF Next

\* No step of any window or of the worker lowers a count.
LEMMA Growth ==
  ASSUME IInv, [Next]_vars
  PROVE  Counted(disk, disk') /\ \A v \in opened : Counted(mem[v], mem[v]')
<1>1. /\ disk \in Config /\ mem \in [Windows -> Config] /\ opened \subseteq Windows
      /\ disk.usage \in [Windows -> Nat] /\ \A v \in Windows : mem[v].usage \in [Windows -> Nat]
  BY DEF IInv, TypeOK
<1>2. /\ disk' = disk => Counted(disk, disk')
      /\ mem' = mem => \A v \in opened : Counted(mem[v], mem[v]')
  BY <1>1 DEF Counted
<1>3. CASE WorkerSaves
  <2>1. Head(queue) \in Request
    BY <1>3, QueueSteps DEF WorkerSaves, IInv, TypeOK
  <2>2. Counted(disk, Written(Head(queue)))
    BY <1>1, <2>1, WrittenIsConfig
  <2>3. (disk' = disk \/ disk' = Written(Head(queue))) /\ mem' = mem
    BY <1>3 DEF WorkerSaves
  <2> QED
    BY <1>2, <2>2, <2>3
<1>4. CASE WorkerReports \/ CallFails \/ UNCHANGED vars
  BY <1>2, <1>4 DEF WorkerReports, CallFails, vars, workerVars, windowVars
<1>5. ASSUME NEW w \in Windows, Handler(w)
      PROVE  Counted(disk, disk') /\ \A v \in opened : Counted(mem[v], mem[v]')
  <2>1. CASE FinishCommit(w)
    <3>1. disk' = disk
      BY <2>1 DEF FinishCommit, UiKeeps, workerVars
    <3> QED
      BY <1>1, <1>2, <2>1, <3>1, FinishCommitStep
  <2>2. CASE OpenWindow(w)
    <3>1. disk' = disk /\ \A v \in opened : mem[v]' = mem[v]
      BY <1>1, <2>2 DEF OpenWindow, UiKeeps, workerVars
    <3> QED
      BY <1>1, <3>1 DEF Counted
  <2>3. CASE EditPreference(w) \/ EditLayout(w) \/ RecordUsage(w)
    <3>1. disk' = disk
      BY <2>3 DEF EditPreference, EditLayout, RecordUsage, UiKeeps, workerVars
    <3>2. \/ mem' = [mem EXCEPT ![w] = [mem[w] EXCEPT !.prefs = edits + 1]]
          \/ mem' = [mem EXCEPT ![w] = [mem[w] EXCEPT !.layout = edits + 1]]
          \/ mem' = [mem EXCEPT ![w] = [mem[w] EXCEPT !.usage = [mem[w].usage EXCEPT ![w] = @ + 1]]]
      BY <2>3 DEF EditPreference, EditLayout, RecordUsage
    <3>3. ASSUME NEW v \in Windows PROVE Counted(mem[v], mem[v]')
      <4> DEFINE used == [mem[w].usage EXCEPT ![w] = @ + 1]
      <4> DEFINE one == [mem[w] EXCEPT !.prefs = edits + 1]
                 two == [mem[w] EXCEPT !.layout = edits + 1]
                 three == [mem[w] EXCEPT !.usage = used]
      <4>1. one.usage = mem[w].usage /\ two.usage = mem[w].usage /\ three.usage = used
        BY <1>1
      <4>2. \E c \in {one, two, three} : mem' = [mem EXCEPT ![w] = c]
        BY <3>2
      <4> HIDE DEF used, one, two, three
      <4>3. mem[v]'.usage = mem[v].usage \/ (v = w /\ mem[v]'.usage = used)
        BY <1>1, <4>1, <4>2
      <4> USE DEF used
      <4>4. \A u \in Windows : used[u] >= mem[w].usage[u]
        BY <1>1
      <4> QED
        BY <1>1, <4>3, <4>4 DEF Counted
    <3> QED
      BY <1>1, <1>2, <3>1, <3>3
  <2>4. CASE \/ \E ready \in BOOLEAN : Drive(w, ready)
             \/ BeginCommit(w) \/ CommitTimesOut(w) \/ BeginEdit(w)
             \/ BeginClose(w) \/ ClosePreferences(w) \/ CloseLayout(w) \/ CloseRelease(w)
    <3>1. disk' = disk /\ mem' = mem
      BY <2>4 DEF Drive, BeginCommit, CommitTimesOut, BeginEdit, BeginClose, ClosePreferences,
                  CloseLayout, CloseRelease, UiKeeps, workerVars, windowVars
    <3> QED
      BY <1>2, <3>1
  <2> QED
    BY <1>5, <2>1, <2>2, <2>3, <2>4 DEF Handler
<1>6. CASE CallReturns
  <2>1. disk' = disk
    BY <1>6 DEF CallReturns, UiKeeps, workerVars
  <2> QED
    BY <1>1, <1>2, <1>6, <2>1, CallReturnsStep
<1>7. CASE OutsideWrite
  <2>1. mem' = mem
    BY <1>7 DEF OutsideWrite, windowVars
  <2> QED
    BY <1>2, <1>7, <2>1, OutsideWriteStep
<1> QED
  BY <1>3, <1>4, <1>5, <1>6, <1>7 DEF Next

\* The state of the repository and of its windows is well typed in every
\* behaviour, and the queue never holds more than its capacity and the request
\* of one blocking call, for every number of windows and every capacity.
THEOREM RepositoryTypeCorrect == Spec => []TypeOK
<1>1. IInv => TypeOK
  BY DEF IInv
<1> QED
  BY <1>1, InitIInv, Inductive, PTL DEF Spec

\* Whatever windows save, in whatever order, late, stale or refused, and whoever
\* else writes the file: a counted use of a quick command is never lost, in the
\* file and in the windows.
THEOREM UsageIsKept == Spec => UsageNeverErased
<1>1. IInv /\ [Next]_vars =>
        [\A v \in Windows :
           /\ disk'.usage[v] >= disk.usage[v]
           /\ \A w \in opened : mem'[w].usage[v] >= mem[w].usage[v]]_vars
  BY Growth DEF Counted
<1> QED
  BY <1>1, InitIInv, Inductive, PTL DEF Spec, UsageNeverErased

-----------------------------------------------------------------------------
(* What waits for an answer.                                               *)

Channels == {"save", "commit", "call"}
Indices == 1 .. Len(queue)
Carries(i, w, to) == queue[i].window = w /\ queue[i].to = to

\* w waits on the channel "to" for one request that is in the queue, or not at
\* all, and then none answers it.
Receipt(w, to) ==
  /\ \A i \in Indices : Carries(i, w, to) => Awaited(to, w)
  /\ Awaited(to, w) => \E i \in Indices : Carries(i, w, to)
  /\ \A i, j \in Indices : Carries(i, w, to) /\ Carries(j, w, to) => i = j

Receipts == \A w \in Windows, to \in Channels : Receipt(w, to)
-----------------------------------------------------------------------------
(* What the steps do to the queue.                                         *)

\* A send adds one request behind the others.
LEMMA Grown ==
  ASSUME queue \in Seq(Request), NEW r \in Request, queue' = Append(queue, r)
  PROVE  \E last \in Nat :
           /\ last = Len(queue') /\ last = Len(queue) + 1
           /\ last \notin Indices /\ Indices' = Indices \cup {last}
           /\ \A i \in Indices : queue'[i] = queue[i] /\ queue[i] \in Request
           /\ queue'[last] = r
<1> DEFINE n == Len(queue)
<1>1. n \in Nat /\ Len(queue') = n + 1 /\ queue'[n + 1] = r
      /\ \A i \in 1 .. n : queue'[i] = queue[i] /\ queue[i] \in Request
  OBVIOUS
<1> HIDE DEF n
<1>2. 1 .. (n + 1) = (1 .. n) \cup {n + 1} /\ n + 1 \notin 1 .. n /\ n + 1 \in Nat
  BY <1>1
<1> QED
  BY <1>1, <1>2 DEF Indices, n

\* The worker takes the first request, and the others move up.
LEMMA Shrunk ==
  ASSUME queue \in Seq(Request), queue # <<>>, queue' = Tail(queue)
  PROVE  /\ 1 \in Indices /\ Head(queue) = queue[1] /\ queue[1] \in Request
         /\ Len(queue) \in Nat /\ Len(queue') = Len(queue) - 1
         /\ \A i \in Indices' : i + 1 \in Indices /\ i + 1 # 1 /\ queue'[i] = queue[i + 1]
                                /\ queue'[i] \in Request
         /\ \A i \in Indices : i # 1 => i - 1 \in Indices' /\ queue'[i - 1] = queue[i]
<1> DEFINE n == Len(queue)
<1>1. n \in Nat /\ n > 0 /\ Len(queue') = n - 1 /\ Head(queue) = queue[1]
      /\ (\A i \in 1 .. n : queue[i] \in Request)
      /\ \A i \in 1 .. (n - 1) : queue'[i] = queue[i + 1]
  BY EmptySeq
<1> HIDE DEF n
<1>2. \A i \in 1 .. (n - 1) : i + 1 \in 1 .. n /\ i + 1 # 1
  BY <1>1
<1>3. \A i \in 1 .. n : i # 1 => i - 1 \in 1 .. (n - 1) /\ (i - 1) + 1 = i
  BY <1>1
<1>4. 1 \in 1 .. n
  BY <1>1
<1> QED
  BY <1>1, <1>2, <1>3, <1>4 DEF Indices, n

\* A receiver that gives up leaves its requests where they are, unheard.
LEMMA Released ==
  ASSUME queue \in Seq(Request), NEW w \in Windows, NEW to, queue' = Unheard(w, to)
  PROVE  /\ Len(queue) \in Nat /\ Len(queue') = Len(queue) /\ Indices' = Indices
         /\ \A i \in Indices :
              /\ queue[i] \in Request
              /\ queue'[i].kind = queue[i].kind /\ queue'[i].window = queue[i].window
              /\ queue'[i].config = queue[i].config /\ queue'[i].layout = queue[i].layout
              /\ queue'[i].to = IF Carries(i, w, to) THEN "nobody" ELSE queue[i].to
<1> DEFINE n == Len(queue)
<1>1. n \in Nat /\ DOMAIN queue = 1 .. n /\ \A i \in 1 .. n : queue[i] \in Request
  BY LenProperties
<1>2. Len(queue') = n
  BY BlankIsConfig, QueueSteps, NewRequests
<1>3. \A i \in 1 .. n :
        queue'[i] = IF Carries(i, w, to) THEN [queue[i] EXCEPT !.to = "nobody"] ELSE queue[i]
  BY <1>1 DEF Unheard, Carries
<1>4. \A q \in Request :
        LET u == [q EXCEPT !.to = "nobody"]
        IN  u.to = "nobody" /\ u.kind = q.kind /\ u.window = q.window
            /\ u.config = q.config /\ u.layout = q.layout
  BY DEF Request
<1> QED
  BY <1>1, <1>2, <1>3, <1>4 DEF Indices, n
-----------------------------------------------------------------------------
(* Receipts.                                                               *)

\* A send on a channel that was silent connects it, and no other channel.
LEMMA Sent ==
  ASSUME queue \in Seq(Request), NEW r \in Request, queue' = Append(queue, r),
         NEW w \in Windows, NEW to \in Channels, Receipt(w, to),
         IF r.window = w /\ r.to = to THEN ~Awaited(to, w) /\ Awaited(to, w)'
         ELSE Awaited(to, w)' <=> Awaited(to, w)
  PROVE  Receipt(w, to)'
<1>1. PICK last \in Nat :
        /\ last \notin Indices /\ Indices' = Indices \cup {last}
        /\ \A i \in Indices : Carries(i, w, to)' <=> Carries(i, w, to)
        /\ Carries(last, w, to)' <=> r.window = w /\ r.to = to
  <2>1. PICK last \in Nat :
          /\ last \notin Indices /\ Indices' = Indices \cup {last}
          /\ \A i \in Indices : queue'[i] = queue[i] /\ queue[i] \in Request
          /\ queue'[last] = r
    BY Grown
  <2>2. \A i \in Indices : Carries(i, w, to)' <=> Carries(i, w, to)
    BY <2>1 DEF Carries
  <2>3. Carries(last, w, to)' <=> (r.window = w /\ r.to = to)
    BY <2>1 DEF Carries
  <2> QED
    BY <2>1, <2>2, <2>3
<1>2. CASE r.window = w /\ r.to = to
  BY <1>1, <1>2 DEF Receipt
<1>3. CASE ~(r.window = w /\ r.to = to)
  BY <1>1, <1>3 DEF Receipt
<1> QED
  BY <1>2, <1>3

\* The first request is taken, and the channel it carried is silent.
LEMMA Served ==
  ASSUME queue \in Seq(Request), queue # <<>>, queue' = Tail(queue),
         NEW w \in Windows, NEW to \in Channels, Receipt(w, to),
         IF Carries(1, w, to) THEN ~Awaited(to, w)' ELSE Awaited(to, w)' <=> Awaited(to, w)
  PROVE  Receipt(w, to)'
<1>1. /\ 1 \in Indices
      /\ \A i \in Indices' : /\ i + 1 \in Indices /\ i + 1 # 1 /\ i \in Int
                             /\ Carries(i, w, to)' <=> Carries(i + 1, w, to)
      /\ \A i \in Indices : i # 1 => i - 1 \in Indices' /\ (Carries(i - 1, w, to)' <=> Carries(i, w, to))
  BY Shrunk DEF Carries, Indices
<1>2. CASE Carries(1, w, to)
  BY <1>1, <1>2 DEF Receipt
<1>3. CASE ~Carries(1, w, to)
  <2>1. \A i, j \in Indices' : i + 1 = j + 1 => i = j
    BY <1>1
  <2> QED
    BY <1>1, <1>3, <2>1 DEF Receipt
<1> QED
  BY <1>2, <1>3

\* A receiver that gives up is answered no more.
LEMMA GivenUp ==
  ASSUME queue \in Seq(Request), NEW v \in Windows, NEW t \in Channels, queue' = Unheard(v, t),
         NEW w \in Windows, NEW to \in Channels, Receipt(w, to),
         IF v = w /\ t = to THEN ~Awaited(to, w)' ELSE Awaited(to, w)' <=> Awaited(to, w)
  PROVE  Receipt(w, to)'
<1>1. /\ Indices' = Indices
      /\ \A i \in Indices :
           /\ queue'[i].window = queue[i].window
           /\ queue'[i].to = IF Carries(i, v, t) THEN "nobody" ELSE queue[i].to
  BY Released
<1>2. to # "nobody"
  BY DEF Channels
<1>3. \A i \in Indices : Carries(i, w, to)' <=> Carries(i, w, to) /\ ~(v = w /\ t = to)
  BY <1>1, <1>2 DEF Carries
<1> QED
  BY <1>1, <1>3 DEF Receipt

\* Nothing is sent, taken or given up.
LEMMA Silence ==
  ASSUME UNCHANGED queue,
         NEW w \in Windows, NEW to \in Channels, Receipt(w, to), Awaited(to, w)' <=> Awaited(to, w)
  PROVE  Receipt(w, to)'
BY DEF Receipt, Carries, Indices

\* Who waits for which answer.
LEMMA Waiting ==
  ASSUME NEW w \in Windows
  PROVE  /\ Awaited("save", w) <=> persist[w].inFlight.answer = "waiting"
         /\ Awaited("commit", w) <=> commit[w].answer = "waiting"
         /\ Awaited("call", w) <=> call.window = w /\ call.answer = "waiting"
         /\ Awaited("save", w)' <=> persist'[w].inFlight.answer = "waiting"
         /\ Awaited("commit", w)' <=> commit'[w].answer = "waiting"
         /\ Awaited("call", w)' <=> call'.window = w /\ call'.answer = "waiting"
BY DEF Awaited

Generational == {"generation", "persisted", "layoutGeneration", "persistedLayout"}

\* A reply changes the answer of the receiver it names and nothing else.
LEMMA ReplyFields ==
  ASSUME TypeOK, NEW r \in Request, NEW answer \in {"ok", "failed"}, Reply(r, answer)
  PROVE  /\ \A v \in Windows :
              /\ \A f \in Generational : persist'[v][f] = persist[v][f]
              /\ \A f \in {"generation", "layout"} : persist'[v].inFlight[f] = persist[v].inFlight[f]
              /\ persist'[v].inFlight.answer =
                   IF r.to = "save" /\ r.window = v THEN answer ELSE persist[v].inFlight.answer
              /\ \A f \in {"staged", "generation", "layout"} : commit'[v][f] = commit[v][f]
              /\ commit'[v].answer =
                   IF r.to = "commit" /\ r.window = v THEN answer ELSE commit[v].answer
         /\ \A f \in {"what", "window", "config"} : call'[f] = call[f]
         /\ call'.answer = IF r.to = "call" THEN answer ELSE call.answer
         /\ r.to # "call" => call' = call
<1>1. /\ persist \in [Windows -> Persistence] /\ commit \in [Windows -> Commit] /\ call \in Call
      /\ r.window \in Windows
  BY DEF TypeOK, Request
<1>2. \A p \in Persistence :
        LET q == [p EXCEPT !.inFlight.answer = answer]
        IN  /\ \A f \in Generational : q[f] = p[f]
            /\ \A f \in {"generation", "layout"} : q.inFlight[f] = p.inFlight[f]
            /\ q.inFlight.answer = answer
  BY DEF Persistence, Save, Generational
<1>3. \A c \in Commit :
        LET d == [c EXCEPT !.answer = answer]
        IN  (\A f \in {"staged", "generation", "layout"} : d[f] = c[f]) /\ d.answer = answer
  BY DEF Commit
<1>4. LET d == [call EXCEPT !.answer = answer]
      IN  (\A f \in {"what", "window", "config"} : d[f] = call[f]) /\ d.answer = answer
  BY <1>1 DEF Call
<1>5. ASSUME NEW v \in Windows
      PROVE  /\ \A f \in Generational : persist'[v][f] = persist[v][f]
             /\ \A f \in {"generation", "layout"} : persist'[v].inFlight[f] = persist[v].inFlight[f]
             /\ persist'[v].inFlight.answer =
                  IF r.to = "save" /\ r.window = v THEN answer ELSE persist[v].inFlight.answer
  <2>1. persist'[v] = IF r.to = "save" /\ r.window = v THEN [persist[v] EXCEPT !.inFlight.answer = answer]
                      ELSE persist[v]
    BY <1>1 DEF Reply
  <2>2. persist[v] \in Persistence
    BY <1>1
  <2>3. CASE r.to = "save" /\ r.window = v
    BY <1>2, <2>1, <2>2, <2>3
  <2>4. CASE ~(r.to = "save" /\ r.window = v)
    BY <2>1, <2>4
  <2> QED
    BY <2>3, <2>4
<1>6. ASSUME NEW v \in Windows
      PROVE  /\ \A f \in {"staged", "generation", "layout"} : commit'[v][f] = commit[v][f]
             /\ commit'[v].answer =
                  IF r.to = "commit" /\ r.window = v THEN answer ELSE commit[v].answer
  <2>1. commit'[v] = IF r.to = "commit" /\ r.window = v THEN [commit[v] EXCEPT !.answer = answer]
                     ELSE commit[v]
    BY <1>1 DEF Reply
  <2> QED
    BY <1>1, <1>3, <2>1
<1>7. call' = IF r.to = "call" THEN [call EXCEPT !.answer = answer] ELSE call
  BY DEF Reply
<1> QED
  BY <1>4, <1>5, <1>6, <1>7

\* After a reply, its receiver waits no more; the others wait as before.
LEMMA Replied ==
  ASSUME TypeOK, NEW r \in Request, NEW answer \in {"ok", "failed"}, Reply(r, answer),
         r.to = "call" => call.window = r.window,
         NEW w \in Windows, NEW to \in Channels
  PROVE  IF r.window = w /\ r.to = to THEN ~Awaited(to, w)' ELSE Awaited(to, w)' <=> Awaited(to, w)
<1>1. CASE to = "save"
  BY <1>1, ReplyFields, Waiting
<1>2. CASE to = "commit"
  BY <1>2, ReplyFields, Waiting
<1>3. CASE to = "call"
  <2>1. call'.window = call.window /\ call'.answer = IF r.to = "call" THEN answer ELSE call.answer
    BY ReplyFields
  <2> QED
    BY <1>3, <2>1, Waiting
<1> QED
  BY <1>1, <1>2, <1>3 DEF Channels
-----------------------------------------------------------------------------
(* What the handlers do to the generations of a window.                    *)

\* mark_saved advances what is stored and nothing else.
LEMMA MarkSavedFields ==
  ASSUME NEW p \in Persistence, NEW g \in Nat, NEW layout \in BOOLEAN, NEW m,
         m = MarkSaved(p, g, layout)
  PROVE  /\ \A f \in {"generation", "layoutGeneration", "inFlight"} : m[f] = p[f]
         /\ m.persisted = Later(p.persisted, g)
         /\ m.persistedLayout = IF layout THEN Later(p.persistedLayout, g) ELSE p.persistedLayout
<1> DEFINE stored == Later(p.persisted, g)
           shown == IF layout THEN Later(p.persistedLayout, g) ELSE p.persistedLayout
<1>1. m = [p EXCEPT !.persisted = stored, !.persistedLayout = shown]
  BY DEF MarkSaved
<1> HIDE DEF stored, shown
<1>2. m.persisted = stored /\ m.persistedLayout = shown
      /\ \A f \in {"generation", "layoutGeneration", "inFlight"} : m[f] = p[f]
  BY <1>1 DEF Persistence
<1> QED
  BY <1>2 DEF stored, shown

\* What a window knows after it has looked for the answer of its save.
LEMMA PolledFields ==
  ASSUME NEW p \in Persistence, NEW q, q = Polled(p)
  PROVE  /\ q \in Persistence
         /\ \A f \in {"generation", "layoutGeneration"} : q[f] = p[f]
         /\ p.inFlight.answer = "ok" =>
              /\ q.persisted = Later(p.persisted, p.inFlight.generation)
              /\ q.persistedLayout = IF p.inFlight.layout
                   THEN Later(p.persistedLayout, p.inFlight.generation) ELSE p.persistedLayout
         /\ p.inFlight.answer # "ok" =>
              q.persisted = p.persisted /\ q.persistedLayout = p.persistedLayout
         /\ p.inFlight.answer \in {"ok", "failed"} => q.inFlight = NoSave
         /\ p.inFlight.answer \notin {"ok", "failed"} => q = p
<1>1. q \in Persistence
  BY PolledIsPersistence
<1> DEFINE g == p.inFlight.generation
           layout == p.inFlight.layout
           m == MarkSaved(p, g, layout)
<1>2. g \in Nat /\ layout \in BOOLEAN
  BY DEF Persistence, Save
<1>3. CASE p.inFlight.answer = "ok"
  <2>1. q = [m EXCEPT !.inFlight = NoSave]
    BY <1>3 DEF Polled
  <2>2. m \in Persistence
    BY <1>2, PersistenceSteps
  <2>3. /\ \A f \in {"generation", "layoutGeneration", "inFlight"} : m[f] = p[f]
        /\ m.persisted = Later(p.persisted, g)
        /\ m.persistedLayout = IF layout THEN Later(p.persistedLayout, g) ELSE p.persistedLayout
    BY <1>2, MarkSavedFields
  <2> HIDE DEF m
  <2>4. q.inFlight = NoSave /\ \A f \in Generational : q[f] = m[f]
    BY <2>1, <2>2 DEF Persistence, Generational
  <2> QED
    BY <1>1, <1>3, <2>3, <2>4 DEF Generational
<1>4. CASE p.inFlight.answer = "failed"
  <2>1. q = [p EXCEPT !.inFlight = NoSave]
    BY <1>4 DEF Polled
  <2>2. q.inFlight = NoSave /\ \A f \in Generational : q[f] = p[f]
    BY <2>1 DEF Persistence, Generational
  <2> QED
    BY <1>1, <1>4, <2>2 DEF Generational
<1>5. CASE p.inFlight.answer \notin {"ok", "failed"}
  <2>1. q = p
    BY <1>5 DEF Polled
  <2> QED
    BY <1>1, <1>5, <2>1
<1> QED
  BY <1>3, <1>4, <1>5

\* The driver of the saves of a window: it takes the answer of the last one and
\* may send the next.
LEMMA Drives ==
  ASSUME TypeOK, NEW w \in Windows, NEW ready \in BOOLEAN, Drive(w, ready)
  PROVE  /\ Free /\ w \in open /\ UiKeeps
         /\ UNCHANGED <<open, opened, mem, commit, call, edits, entries, acked, crossed>>
         /\ \A v \in Windows : v # w => persist'[v] = persist[v]
         /\ \E q \in Persistence :
              /\ q = Polled(persist[w])
              /\ \A f \in Generational : persist'[w][f] = q[f]
              /\ \/ /\ queue' = queue /\ persist'[w] = q
                 \/ /\ persist[w].inFlight.answer # "failed" /\ q.inFlight = NoSave
                    /\ persist'[w].inFlight = [answer |-> "waiting", generation |-> q.generation,
                                               layout |-> LayoutRequired(q)]
                    /\ queue' = Append(queue, Asked("preferences", w, "save", mem[w],
                                                    LayoutRequired(q)))
<1> DEFINE q == Polled(persist[w])
           sent == [answer |-> "waiting", generation |-> q.generation, layout |-> LayoutRequired(q)]
           request == Asked("preferences", w, "save", mem[w], LayoutRequired(q))
<1>1. q \in Persistence /\ persist \in [Windows -> Persistence]
  BY PolledIsPersistence DEF TypeOK
<1>2. /\ Free /\ w \in open /\ UiKeeps
      /\ UNCHANGED <<open, opened, mem, commit, call, edits, entries, acked, crossed>>
      /\ \/ /\ persist[w].inFlight.answer # "failed" /\ q.inFlight = NoSave
            /\ persist' = [persist EXCEPT ![w] = [q EXCEPT !.inFlight = sent]]
            /\ queue' = Append(queue, request)
         \/ persist' = [persist EXCEPT ![w] = q] /\ queue' = queue
  BY DEF Drive
<1>3. q = Polled(persist[w])
  OBVIOUS
<1> HIDE DEF q
<1>4. CASE /\ persist[w].inFlight.answer # "failed" /\ q.inFlight = NoSave
           /\ persist' = [persist EXCEPT ![w] = [q EXCEPT !.inFlight = sent]]
           /\ queue' = Append(queue, request)
  <2> HIDE DEF sent
  <2>1. persist'[w] = [q EXCEPT !.inFlight = sent]
        /\ \A v \in Windows : v # w => persist'[v] = persist[v]
    BY <1>1, <1>4
  <2>2. persist'[w].inFlight = sent /\ \A f \in Generational : persist'[w][f] = q[f]
    BY <1>1, <2>1 DEF Persistence, Generational
  <2> USE DEF sent
  <2> QED
    BY <1>1, <1>2, <1>3, <1>4, <2>1, <2>2
<1>5. CASE persist' = [persist EXCEPT ![w] = q] /\ queue' = queue
  BY <1>1, <1>2, <1>3, <1>5
<1> QED
  BY <1>2, <1>4, <1>5

\* An edit makes the window dirty, and touches no other.
LEMMA Edited ==
  ASSUME TypeOK, NEW w \in Windows, EditPreference(w) \/ EditLayout(w) \/ RecordUsage(w)
  PROVE  /\ Free /\ w \in open /\ UiKeeps
         /\ UNCHANGED <<open, opened, commit, queue, call, entries, acked, crossed>>
         /\ \A v \in Windows : v # w => persist'[v] = persist[v] /\ mem'[v] = mem[v]
         /\ persist[w].generation \in Nat /\ persist'[w].generation = persist[w].generation + 1
         /\ \A f \in {"persisted", "persistedLayout", "inFlight"} : persist'[w][f] = persist[w][f]
         /\ \/ persist'[w].layoutGeneration = persist'[w].generation
            \/ /\ persist'[w].layoutGeneration = persist[w].layoutGeneration
               /\ mem'[w].layout = mem[w].layout
         /\ mem'[w].catalog = mem[w].catalog /\ Counted(mem[w], mem'[w])
<1>1. /\ Free /\ w \in open /\ UiKeeps
      /\ UNCHANGED <<open, opened, commit, queue, call, entries, acked, crossed>>
  BY DEF EditPreference, EditLayout, RecordUsage
<1>2. /\ mem \in [Windows -> Config] /\ persist \in [Windows -> Persistence]
      /\ mem[w] \in Config /\ persist[w] \in Persistence
  BY DEF TypeOK
<1> DEFINE n == persist[w].generation + 1
           chosen == edits + 1
           used == [mem[w].usage EXCEPT ![w] = @ + 1]
<1>3. /\ MarkDirty(persist[w]) = [persist[w] EXCEPT !.generation = n]
      /\ MarkLayoutDirty(persist[w]) = [persist[w] EXCEPT !.generation = n, !.layoutGeneration = n]
  BY DEF MarkDirty, MarkLayoutDirty
<1>4. /\ mem[w].usage \in [Windows -> Nat] /\ used \in [Windows -> Nat]
      /\ \A v \in Windows : used[v] >= mem[w].usage[v] /\ mem[w].usage[v] >= mem[w].usage[v]
  BY <1>2
<1>5. \/ /\ persist' = [persist EXCEPT ![w] = [persist[w] EXCEPT !.generation = n]]
         /\ \/ mem' = [mem EXCEPT ![w] = [mem[w] EXCEPT !.prefs = chosen]]
            \/ mem' = [mem EXCEPT ![w] = [mem[w] EXCEPT !.usage = used]]
      \/ /\ persist' = [persist EXCEPT ![w] =
              [persist[w] EXCEPT !.generation = n, !.layoutGeneration = n]]
         /\ mem' = [mem EXCEPT ![w] = [mem[w] EXCEPT !.layout = chosen]]
  BY <1>3 DEF EditPreference, EditLayout, RecordUsage
<1>6. persist[w].generation \in Nat
  BY <1>2 DEF Persistence
<1> HIDE DEF n, chosen, used
<1> DEFINE p == [persist[w] EXCEPT !.generation = n]
           q == [persist[w] EXCEPT !.generation = n, !.layoutGeneration = n]
<1>7. /\ p.generation = n /\ p.layoutGeneration = persist[w].layoutGeneration
      /\ q.generation = n /\ q.layoutGeneration = n
      /\ \A f \in {"persisted", "persistedLayout", "inFlight"} :
           p[f] = persist[w][f] /\ q[f] = persist[w][f]
  BY <1>2 DEF Persistence
<1>8. /\ mem'[w].catalog = mem[w].catalog
      /\ mem'[w].usage = mem[w].usage \/ mem'[w].usage = used
  BY <1>2, <1>5
<1>9. /\ \A v \in Windows : v # w => persist'[v] = persist[v] /\ mem'[v] = mem[v]
      /\ (persist'[w] = p /\ mem'[w].layout = mem[w].layout) \/ persist'[w] = q
  BY <1>2, <1>5
<1> HIDE DEF p, q
<1>10. Counted(mem[w], mem'[w])
  BY <1>4, <1>8 DEF Counted
<1>11. n = persist[w].generation + 1
  BY DEF n
<1>12. /\ persist'[w].generation = n
       /\ \A f \in {"persisted", "persistedLayout", "inFlight"} : persist'[w][f] = persist[w][f]
       /\ \/ persist'[w].layoutGeneration = n
          \/ /\ persist'[w].layoutGeneration = persist[w].layoutGeneration
             /\ mem'[w].layout = mem[w].layout
  BY <1>7, <1>9
<1> QED
  BY <1>1, <1>6, <1>8, <1>9, <1>10, <1>11, <1>12

\* The completion of a commit: on success the window takes what was staged,
\* with what it changed meanwhile.
LEMMA Finishes ==
  ASSUME TypeOK, NEW w \in Windows, FinishCommit(w)
  PROVE  /\ Free /\ w \in open /\ UiKeeps /\ commit[w].answer \in {"ok", "failed"}
         /\ UNCHANGED <<open, opened, queue, call, edits, entries, crossed>>
         /\ commit'[w] = NoCommit
         /\ \A v \in Windows : v # w =>
              commit'[v] = commit[v] /\ persist'[v] = persist[v] /\ mem'[v] = mem[v]
         /\ commit[w].answer = "failed" => UNCHANGED <<mem, persist, acked>>
         /\ commit[w].answer = "ok" =>
              /\ acked' = acked \cup (commit[w].staged.catalog \ mem[w].catalog)
              /\ \A f \in {"generation", "layoutGeneration", "inFlight"} :
                   persist'[w][f] = persist[w][f]
              /\ persist'[w].persisted = Later(persist[w].persisted, commit[w].generation)
              /\ persist'[w].persistedLayout = IF commit[w].layout
                   THEN Later(persist[w].persistedLayout, commit[w].generation)
                   ELSE persist[w].persistedLayout
              /\ mem'[w].catalog = commit[w].staged.catalog
              /\ mem'[w].prefs = mem[w].prefs
              /\ mem'[w].usage = MergedUsage(mem[w].usage, commit[w].staged.usage)
              /\ mem'[w].layout = IF persist[w].layoutGeneration > commit[w].generation
                   THEN mem[w].layout ELSE commit[w].staged.layout
<1> DEFINE c == commit[w]
           p == persist[w]
           config == Committed(c, mem[w], p)
           saved == MarkSaved(p, c.generation, c.layout)
<1>1. /\ Free /\ w \in open /\ UiKeeps /\ c.answer \in {"ok", "failed"}
      /\ UNCHANGED <<open, opened, queue, call, edits, entries, crossed>>
      /\ commit' = [commit EXCEPT ![w] = NoCommit]
      /\ IF c.answer = "failed" THEN UNCHANGED <<mem, persist, acked>>
         ELSE /\ mem' = [mem EXCEPT ![w] = config]
              /\ persist' = [persist EXCEPT ![w] = saved]
              /\ acked' = acked \cup (c.staged.catalog \ mem[w].catalog)
  BY DEF FinishCommit
<1>2. /\ c \in Commit /\ p \in Persistence /\ mem[w] \in Config
      /\ mem \in [Windows -> Config] /\ persist \in [Windows -> Persistence]
      /\ commit \in [Windows -> Commit]
  BY DEF TypeOK
<1>3. c.generation \in Nat /\ c.layout \in BOOLEAN /\ c.staged \in Config
  BY <1>2 DEF Commit
<1>4. /\ \A f \in {"generation", "layoutGeneration", "inFlight"} : saved[f] = p[f]
      /\ saved.persisted = Later(p.persisted, c.generation)
      /\ saved.persistedLayout = IF c.layout THEN Later(p.persistedLayout, c.generation)
                                 ELSE p.persistedLayout
  BY <1>2, <1>3, MarkSavedFields
<1>5. /\ config.catalog = c.staged.catalog /\ config.prefs = mem[w].prefs
      /\ config.usage = MergedUsage(mem[w].usage, c.staged.usage)
      /\ config.layout = IF p.layoutGeneration > c.generation THEN mem[w].layout
                         ELSE c.staged.layout
  <2> DEFINE shown == IF p.layoutGeneration > c.generation THEN mem[w].layout ELSE c.staged.layout
             counts == MergedUsage(mem[w].usage, c.staged.usage)
  <2>1. config = [c.staged EXCEPT !.prefs = mem[w].prefs, !.usage = counts, !.layout = shown]
    BY DEF Committed, MergedPreferences
  <2> HIDE DEF shown, counts, config
  <2>2. /\ config.catalog = c.staged.catalog /\ config.prefs = mem[w].prefs
        /\ config.usage = counts /\ config.layout = shown
    BY <1>3, <2>1
  <2> USE DEF shown, counts
  <2> QED
    BY <2>2
<1> HIDE DEF c, p, config, saved
<1>6. CASE c.answer = "failed"
  BY <1>1, <1>2, <1>6 DEF c
<1>7. CASE c.answer = "ok"
  <2>1. mem'[w] = config /\ persist'[w] = saved /\ commit'[w] = NoCommit
        /\ \A v \in Windows : v # w =>
              commit'[v] = commit[v] /\ persist'[v] = persist[v] /\ mem'[v] = mem[v]
    BY <1>1, <1>2, <1>7
  <2> QED
    BY <1>1, <1>4, <1>5, <1>7, <2>1 DEF c, p
<1> QED
  BY <1>1, <1>6, <1>7

\* The worker takes the first request and answers it.
LEMMA HeadAnswered ==
  ASSUME TypeOK, WorkerSaves \/ WorkerReports
  PROVE  /\ queue # <<>> /\ queue' = Tail(queue) /\ queue[1] \in Request
         /\ Head(queue) = queue[1]
         /\ UNCHANGED <<open, opened, mem, report, edits, entries, acked, crossed>>
         /\ \E answer \in {"ok", "failed"} : Reply(queue[1], answer)
<1>1. /\ queue # <<>> /\ queue' = Tail(queue)
      /\ UNCHANGED <<open, opened, mem, report, edits, entries, acked, crossed>>
      /\ \E answer \in {"ok", "failed"} : Reply(Head(queue), answer)
  <2>1. CASE WorkerSaves
    <3>1. PICK ok \in BOOLEAN : Reply(Head(queue), IF ok THEN "ok" ELSE "failed")
      BY <2>1 DEF WorkerSaves
    <3> DEFINE answer == IF ok THEN "ok" ELSE "failed"
    <3>2. answer \in {"ok", "failed"} /\ Reply(Head(queue), answer)
      BY <3>1
    <3> HIDE DEF answer
    <3>3. \E a \in {"ok", "failed"} : Reply(Head(queue), a)
      BY <3>2
    <3> QED
      BY <2>1, <3>3 DEF WorkerSaves
  <2>2. CASE WorkerReports
    <3> DEFINE answer == IF lastError THEN "failed" ELSE "ok"
    <3>1. answer \in {"ok", "failed"} /\ Reply(Head(queue), answer)
      BY <2>2 DEF WorkerReports
    <3> HIDE DEF answer
    <3>2. \E a \in {"ok", "failed"} : Reply(Head(queue), a)
      BY <3>1
    <3> QED
      BY <2>2, <3>2 DEF WorkerReports
  <2> QED
    BY <2>1, <2>2
<1>2. queue[1] \in Request /\ Head(queue) = queue[1]
  BY <1>1, Shrunk DEF TypeOK
<1> QED
  BY <1>1, <1>2

\* The end of a call leaves the user interface with none, or with the next
\* step of a close.
LEMMA CallEnds ==
  ASSUME TypeOK, CallReturns \/ CallFails
  PROVE  /\ call.window \in Windows /\ call' = AfterCall(call.what, call.window)
         /\ call.what \in {"edit", "preferences", "layout", "release"}
         /\ call'.answer # "waiting"
         /\ call.what = "preferences" => call' = Due("layout", call.window)
         /\ call.what = "layout" => call' = Due("release", call.window)
         /\ call.what \in {"edit", "release"} => call' = NoCall
         /\ UNCHANGED <<open, opened, commit, disk, lastSaved, lastError, working, failures,
                        written, edits, entries, crossed>>
<1>1. /\ call.window \in Windows /\ call' = AfterCall(call.what, call.window)
      /\ call.what \in {"edit", "preferences", "layout", "release"}
      /\ UNCHANGED <<open, opened, commit, disk, lastSaved, lastError, working, failures,
                     written, edits, entries, crossed>>
  BY DEF TypeOK, CallReturns, CallFails, Call, UiKeeps, workerVars, windowVars
<1>2. call'.answer # "waiting"
  BY <1>1, CallSteps
<1> QED
  BY <1>1, <1>2 DEF AfterCall

\* Every step keeps the receipts connected.
LEMMA ReceiptsStep ==
  ASSUME TypeOK, Receipts, [Next]_vars
  PROVE  Receipts'
<1> SUFFICES ASSUME NEW v \in Windows, NEW to \in Channels
             PROVE  Receipt(v, to)'
  BY DEF Receipts
<1>1. Receipt(v, to) /\ queue \in Seq(Request)
  BY DEF Receipts, TypeOK
<1>2. CASE WorkerSaves \/ WorkerReports
  <2>1. PICK answer \in {"ok", "failed"} : Reply(queue[1], answer)
    BY <1>2, HeadAnswered
  <2>2. queue # <<>> /\ queue' = Tail(queue) /\ queue[1] \in Request
    BY <1>2, HeadAnswered
  <2>3. 1 \in Indices
    BY <1>1, <2>2, Shrunk
  <2>4. queue[1].to = "call" => call.window = queue[1].window
    <3>1. queue[1].window \in Windows
      BY <2>2 DEF Request
    <3>2. Receipt(queue[1].window, "call")
      BY <3>1 DEF Receipts, Channels
    <3> QED
      BY <2>3, <3>1, <3>2, Waiting DEF Receipt, Carries
  <2>5. IF queue[1].window = v /\ queue[1].to = to THEN ~Awaited(to, v)'
        ELSE Awaited(to, v)' <=> Awaited(to, v)
    BY <2>1, <2>2, <2>4, Replied
  <2> QED
    BY <1>1, <2>2, <2>5, Served DEF Carries
<1>3. ASSUME NEW w \in Windows, Handler(w) PROVE Receipt(v, to)'
  <2>1. CASE OpenWindow(w)
    <3>1. UNCHANGED <<persist, commit, call, queue>>
      BY <2>1 DEF OpenWindow
    <3> QED
      BY <1>1, <3>1, Silence DEF Awaited
  <2>2. CASE EditPreference(w) \/ EditLayout(w) \/ RecordUsage(w)
    <3>1. UNCHANGED <<commit, queue, call>> /\ persist'[v].inFlight = persist[v].inFlight
      BY <2>2, Edited
    <3> QED
      BY <1>1, <3>1, Silence, Waiting DEF Channels
  <2>3. ASSUME NEW ready \in BOOLEAN, Drive(w, ready) PROVE Receipt(v, to)'
    <3>1. UNCHANGED <<commit, call>> /\ (v # w => persist'[v] = persist[v])
      BY <2>3, Drives
    <3>2. PICK q \in Persistence :
            /\ q = Polled(persist[w])
            /\ \/ /\ queue' = queue /\ persist'[w] = q
               \/ /\ persist[w].inFlight.answer # "failed" /\ q.inFlight = NoSave
                  /\ persist'[w].inFlight = [answer |-> "waiting", generation |-> q.generation,
                                             layout |-> LayoutRequired(q)]
                  /\ queue' = Append(queue, Asked("preferences", w, "save", mem[w],
                                                  LayoutRequired(q)))
      BY <2>3, Drives
    <3>3. persist[w] \in Persistence /\ mem[w] \in Config
      BY DEF TypeOK
    <3>4. /\ persist[w].inFlight.answer \in {"ok", "failed"} => q.inFlight = NoSave
          /\ persist[w].inFlight.answer \notin {"ok", "failed"} => q = persist[w]
      BY <3>2, <3>3, PolledFields
    <3>5. CASE queue' = queue /\ persist'[w] = q
      <4>1. persist'[w].inFlight.answer = "waiting" <=> persist[w].inFlight.answer = "waiting"
        BY <3>4, <3>5 DEF NoSave
      <4> QED
        BY <1>1, <3>1, <3>5, <4>1, Silence, Waiting DEF Channels
    <3>6. CASE queue' # queue \/ persist'[w] # q
      <4> DEFINE layout == LayoutRequired(q)
                 r == Asked("preferences", w, "save", mem[w], layout)
      <4>1. layout \in BOOLEAN
        BY DEF LayoutRequired
      <4>2. r \in Request /\ r.window = w /\ r.to = "save"
        BY <3>3, <4>1, NewRequests DEF Asked
      <4>3. /\ queue' = Append(queue, r) /\ persist'[w].inFlight.answer = "waiting"
            /\ persist[w].inFlight.answer # "waiting"
        BY <3>2, <3>4, <3>6 DEF NoSave
      <4> HIDE DEF layout, r
      <4>4. IF r.window = v /\ r.to = to THEN ~Awaited(to, v) /\ Awaited(to, v)'
            ELSE Awaited(to, v)' <=> Awaited(to, v)
        BY <3>1, <4>2, <4>3, Waiting DEF Channels
      <4> QED
        BY <1>1, <4>2, <4>3, <4>4, Sent
    <3> QED
      BY <3>5, <3>6
  <2>4. CASE BeginCommit(w)
    <3> DEFINE config == Staged(w)
               layout == LayoutRequired(persist[w])
               sent == [answer |-> "waiting", staged |-> config,
                        generation |-> persist[w].generation, layout |-> layout]
               r == Asked("full", w, "commit", config, FALSE)
    <3>1. /\ UNCHANGED <<persist, call>> /\ commit[w] = NoCommit
          /\ commit' = [commit EXCEPT ![w] = sent] /\ queue' = Append(queue, r)
      BY <2>4 DEF BeginCommit
    <3>2. r \in Request /\ r.window = w /\ r.to = "commit" /\ sent.answer = "waiting"
      BY StagedIsConfig, NewRequests DEF Asked
    <3>3. commit \in [Windows -> Commit]
      BY DEF TypeOK
    <3> HIDE DEF config, layout, sent, r
    <3>4. IF r.window = v /\ r.to = to THEN ~Awaited(to, v) /\ Awaited(to, v)'
          ELSE Awaited(to, v)' <=> Awaited(to, v)
      BY <3>1, <3>2, <3>3, Waiting DEF Channels, NoCommit
    <3> QED
      BY <1>1, <3>1, <3>2, <3>4, Sent
  <2>5. CASE FinishCommit(w)
    <3>1. /\ UNCHANGED <<queue, call>> /\ persist'[v].inFlight = persist[v].inFlight
          /\ v # w => commit'[v] = commit[v]
          /\ commit'[w] = NoCommit /\ commit[w].answer # "waiting"
      BY <2>5, Finishes
    <3> QED
      BY <1>1, <3>1, Silence, Waiting DEF Channels, NoCommit
  <2>6. CASE CommitTimesOut(w)
    <3>1. /\ UNCHANGED <<persist, call>> /\ commit' = [commit EXCEPT ![w] = NoCommit]
          /\ queue' = Unheard(w, "commit") /\ commit \in [Windows -> Commit]
      BY <2>6 DEF CommitTimesOut, TypeOK
    <3>2. IF w = v /\ "commit" = to THEN ~Awaited(to, v)' ELSE Awaited(to, v)' <=> Awaited(to, v)
      BY <3>1, Waiting DEF Channels, NoCommit
    <3> QED
      BY <1>1, <3>1, <3>2, GivenUp DEF Channels
  <2>7. CASE BeginEdit(w) \/ ClosePreferences(w) \/ CloseLayout(w) \/ CloseRelease(w) \/ BeginClose(w)
    <3>1. /\ UNCHANGED <<persist, commit>>
          /\ call = NoCall \/ \E what \in {"preferences", "layout", "release"} : call = Due(what, w)
      BY <2>7 DEF BeginEdit, ClosePreferences, CloseLayout, CloseRelease, BeginClose, windowVars, Free
    <3>2. call.answer # "waiting"
      BY <3>1 DEF NoCall, Due
    <3>3. \/ queue' = queue /\ \E what \in {"preferences", "layout", "release"} : call' = Due(what, w)
          \/ \E what \in {"edit", "preferences", "layout", "release"},
                kind \in {"preferences", "full", "flush", "shutdown"},
                config \in Config, layout \in BOOLEAN : Calls(what, w, kind, config, layout)
      <4>1. /\ Staged(w) \in Config /\ mem[w] \in Config /\ Blank \in Config
            /\ [disk EXCEPT !.layout = mem[w].layout] \in Config
            /\ LayoutRequired(persist[w]) \in BOOLEAN
        <5>1. disk \in Config /\ mem[w] \in Config
          BY DEF TypeOK
        <5>2. [disk EXCEPT !.layout = mem[w].layout] \in Config
          BY <5>1
        <5>3. LayoutRequired(persist[w]) \in BOOLEAN
          BY DEF LayoutRequired
        <5> QED
          BY <5>1, <5>2, <5>3, StagedIsConfig, BlankIsConfig
      <4> DEFINE shown == [disk EXCEPT !.layout = mem[w].layout]
                 layout == LayoutRequired(persist[w])
                 last == IF open = {w} THEN "shutdown" ELSE "flush"
      <4>2. \/ queue' = queue /\ \E what \in {"preferences", "layout", "release"} : call' = Due(what, w)
            \/ Calls("edit", w, "full", Staged(w), FALSE)
            \/ Calls("preferences", w, "preferences", mem[w], layout)
            \/ Calls("layout", w, "full", shown, FALSE)
            \/ Calls("release", w, last, Blank, FALSE)
        BY <2>7 DEF BeginEdit, ClosePreferences, CloseLayout, CloseRelease, BeginClose
      <4>3. last \in {"flush", "shutdown"}
        OBVIOUS
      <4> HIDE DEF shown, layout, last
      <4> QED
        BY <4>1, <4>2, <4>3 DEF shown, layout
    <3>4. CASE queue' = queue /\ \E what \in {"preferences", "layout", "release"} : call' = Due(what, w)
      <4>1. call'.answer # "waiting"
        BY <3>4 DEF Due
      <4> QED
        BY <1>1, <3>1, <3>2, <3>4, <4>1, Silence, Waiting DEF Channels
    <3>5. ASSUME NEW what \in {"edit", "preferences", "layout", "release"},
                 NEW kind \in {"preferences", "full", "flush", "shutdown"},
                 NEW config \in Config, NEW layout \in BOOLEAN,
                 Calls(what, w, kind, config, layout)
          PROVE  Receipt(v, to)'
      <4> DEFINE r == Asked(kind, w, "call", config, layout)
      <4>1. r \in Request /\ r.window = w /\ r.to = "call"
        BY NewRequests DEF Asked
      <4>2. queue' = Append(queue, r) /\ call'.answer = "waiting" /\ call'.window = w
        BY <3>5 DEF Calls
      <4> HIDE DEF r
      <4>3. IF r.window = v /\ r.to = to THEN ~Awaited(to, v) /\ Awaited(to, v)'
            ELSE Awaited(to, v)' <=> Awaited(to, v)
        BY <3>1, <3>2, <4>1, <4>2, Waiting DEF Channels
      <4> QED
        BY <1>1, <4>1, <4>2, <4>3, Sent
    <3> QED
      BY <3>3, <3>4, <3>5
  <2> QED
    BY <1>3, <2>1, <2>2, <2>3, <2>4, <2>5, <2>6, <2>7 DEF Handler
<1>4. CASE CallReturns
  <2>1. UNCHANGED <<commit, queue>> /\ call'.answer # "waiting" /\ call.answer = "ok"
    BY <1>4, CallEnds DEF CallReturns
  <2>2. persist'[v].inFlight = persist[v].inFlight
    <3> DEFINE w == call.window
               layout == LayoutRequired(persist[w])
               saved == MarkSaved(persist[w], persist[w].generation, layout)
    <3>1. w \in Windows /\ persist \in [Windows -> Persistence] /\ persist[w] \in Persistence
      BY <1>4, CallEnds DEF TypeOK
    <3>2. persist[w].generation \in Nat /\ layout \in BOOLEAN
      BY <3>1 DEF Persistence, LayoutRequired
    <3>3. saved.inFlight = persist[w].inFlight
      BY <3>1, <3>2, MarkSavedFields
    <3>4. persist' = persist \/ persist' = [persist EXCEPT ![w] = saved]
      BY <1>4 DEF CallReturns
    <3> HIDE DEF saved
    <3> QED
      BY <3>1, <3>3, <3>4
  <2> QED
    BY <1>1, <2>1, <2>2, Silence, Waiting DEF Channels
<1>5. CASE CallFails
  <2>1. /\ UNCHANGED <<persist, commit>> /\ call'.answer # "waiting"
        /\ queue' = Unheard(call.window, "call") /\ call.window \in Windows
    BY <1>5, CallEnds DEF CallFails, windowVars
  <2>2. IF call.window = v /\ "call" = to THEN ~Awaited(to, v)'
        ELSE Awaited(to, v)' <=> Awaited(to, v)
    BY <2>1, Waiting DEF Channels
  <2> QED
    BY <1>1, <2>1, <2>2, GivenUp DEF Channels
<1>6. CASE OutsideWrite \/ UNCHANGED vars
  <2>1. UNCHANGED <<persist, commit, call, queue>>
    BY <1>6 DEF OutsideWrite, vars, windowVars
  <2> QED
    BY <1>1, <2>1, Silence DEF Awaited
<1> QED
  BY <1>2, <1>3, <1>4, <1>5, <1>6 DEF Next

\* At the start nobody waits.
LEMMA InitReceipts == Init => Receipts
<1> SUFFICES ASSUME Init, NEW w \in Windows, NEW to \in Channels PROVE Receipt(w, to)
  BY DEF Receipts
<1>1. Indices = {}
  <2>1. Len(queue) = 0
    BY EmptySeq DEF Init
  <2> QED
    BY <2>1 DEF Indices
<1>2. ~Awaited(to, w)
  <2>1. /\ persist[w].inFlight.answer = "idle" /\ commit[w].answer = "idle"
        /\ call.answer = "ok"
    BY DEF Init, FreshPersistence, NoSave, NoCommit, NoCall
  <2> QED
    BY <2>1, Waiting DEF Channels
<1> QED
  BY <1>1, <1>2 DEF Receipt

\* A receipt is connected in the sense of the property: the requests that answer
\* it are one, or none.
LEMMA ReceiptsConnect ==
  ASSUME TypeOK, Receipts
  PROVE  Connected
<1> SUFFICES ASSUME NEW w \in Windows, NEW to \in Channels
             PROVE  LET sent == {i \in DOMAIN queue : queue[i].window = w /\ queue[i].to = to}
                    IN  IF Awaited(to, w) THEN Cardinality(sent) = 1 ELSE sent = {}
  BY DEF Connected, Channels
<1> DEFINE sent == {i \in DOMAIN queue : queue[i].window = w /\ queue[i].to = to}
<1>1. Receipt(w, to) /\ DOMAIN queue = Indices
  BY LenProperties DEF Receipts, TypeOK, Indices
<1>2. CASE Awaited(to, w)
  <2>1. PICK i \in Indices : Carries(i, w, to)
    BY <1>1, <1>2 DEF Receipt
  <2>2. sent = {i}
    BY <1>1, <2>1 DEF Receipt, Carries
  <2>3. Cardinality({i}) = 1
    BY FS_Singleton
  <2> QED
    BY <1>2, <2>2, <2>3
<1>3. CASE ~Awaited(to, w)
  <2>1. sent = {}
    BY <1>1, <1>3 DEF Receipt, Carries
  <2> QED
    BY <1>3, <2>1
<1> QED
  BY <1>2, <1>3

\* However saves, commits and calls of any number of windows interleave, time
\* out and fail: who waits for an answer has exactly one request in the queue,
\* and who has given up has none (SaveReceipt, receive_reply).
THEOREM ReceiptsConnected == Spec => []Connected
<1>1. Init => IInv /\ Receipts
  BY InitIInv, InitReceipts
<1>2. (IInv /\ Receipts) /\ [Next]_vars => (IInv /\ Receipts)'
  BY Inductive, ReceiptsStep DEF IInv
<1>3. IInv /\ Receipts => Connected
  BY ReceiptsConnect DEF IInv
<1> QED
  BY <1>1, <1>2, <1>3, PTL DEF Spec
-----------------------------------------------------------------------------
(* The user interface and its call.                                        *)

\* What a blocking call asks of the worker.
KindOf(what) ==
  IF what \in {"edit", "layout"} THEN {"full"}
  ELSE IF what = "preferences" THEN {"preferences"}
  ELSE IF what = "release" THEN {"flush", "shutdown"}
  ELSE {}

Barrier == {"flush", "shutdown"}

\* A request is of the kind its receiver asks for, and a barrier that nobody
\* hears was reported as a failed release.
Sound(r) ==
  /\ r.window \in opened
  /\ r.to = "save" => r.kind = "preferences"
  /\ r.to = "commit" => r.kind = "full"
  /\ r.to = "call" => r.kind \in KindOf(call.what) /\ (call.what = "edit" => r.config = call.config)
  /\ r.kind \in Barrier => r.to = "call" \/ "release" \in report[r.window]

Requests == \A i \in Indices : Sound(queue[i])

\* A window keeps its lease until the release is asked for; while the user
\* interface waits nothing is sent behind its request, and nothing at all before
\* it has taken the answer.
Turn ==
  /\ call.what = "none" => call = NoCall
  /\ call.what # "none" =>
       /\ call.window \in opened
       /\ call.window \in open <=> ~(call.what = "release" /\ call.answer # "due")
       /\ call.answer \in {"ok", "failed"} => queue = <<>>
  /\ call.answer = "due" => call.what \in {"preferences", "layout", "release"}
  /\ call.answer = "waiting" => queue # <<>> /\ queue[Len(queue)].to = "call"
  /\ open = {} => call.what \in {"none", "release"}

\* Who hears a request that carries a caller's channel.
LEMMA Callers ==
  ASSUME TypeOK, Receipts, NEW i \in Indices, queue[i].to = "call"
  PROVE  /\ call.answer = "waiting" /\ call.window = queue[i].window
         /\ \A j \in Indices : queue[j].to = "call" => j = i
<1>1. \A j \in Indices : queue[j].window \in Windows
  <2>1. queue \in Seq(Request)
    BY DEF TypeOK
  <2>2. \A j \in Indices : queue[j] \in Request
    BY <2>1 DEF Indices
  <2> QED
    BY <2>2 DEF Request
<1>2. \A j \in Indices : queue[j].to = "call" =>
        call.answer = "waiting" /\ call.window = queue[j].window
  BY <1>1, Waiting DEF Receipts, Receipt, Carries, Channels
<1>3. \A j \in Indices : queue[j].to = "call" => Carries(j, call.window, "call")
  BY <1>2 DEF Carries
<1>4. call.window \in Windows
  BY DEF TypeOK, Call
<1> QED
  BY <1>2, <1>3, <1>4 DEF Receipts, Receipt, Channels

\* When the request of the caller is the first one, it is the only one.
LEMMA CallerLast ==
  ASSUME TypeOK, Receipts, Turn, queue # <<>>, queue[1].to = "call"
  PROVE  call.answer = "waiting" /\ call.window = queue[1].window /\ Tail(queue) = <<>>
<1>1. queue \in Seq(Request) /\ Len(queue) \in Nat /\ Len(queue) # 0
  BY EmptySeq DEF TypeOK
<1>2. 1 \in Indices /\ Len(queue) \in Indices
  BY <1>1 DEF Indices
<1>3. call.answer = "waiting" /\ call.window = queue[1].window
  BY <1>2, Callers
<1>4. Len(queue) = 1
  BY <1>2, <1>3, Callers DEF Turn
<1>5. Tail(queue) \in Seq(Request) /\ Len(Tail(queue)) = 0
  BY <1>1, <1>4
<1> QED
  BY <1>3, <1>5, EmptySeq

\* A handler of the user interface has a call that is made: its record, and the
\* request behind the others.
Made(what, w, config, kind, layout) ==
  /\ call'.what = what /\ call'.window = w /\ call'.answer = "waiting" /\ call'.config = config
  /\ \E r \in Request :
       /\ queue' = Append(queue, r)
       /\ r.kind = kind /\ r.window = w /\ r.to = "call" /\ r.config = config /\ r.layout = layout

\* What Calls does, step by step.
LEMMA CallMade ==
  ASSUME NEW what, NEW w \in Windows, NEW config \in Config, NEW layout \in BOOLEAN,
         NEW kind \in {"preferences", "full", "flush", "shutdown"},
         Calls(what, w, kind, config, layout)
  PROVE  Made(what, w, config, kind, layout)
<1> DEFINE r == Asked(kind, w, "call", config, layout)
<1>1. /\ r.kind = kind /\ r.window = w /\ r.to = "call" /\ r.config = config /\ r.layout = layout
  BY DEF Asked
<1>2. r \in Request
  BY NewRequests
<1>3. queue' = Append(queue, r)
  BY DEF Calls
<1>4. call'.what = what /\ call'.window = w /\ call'.answer = "waiting" /\ call'.config = config
  BY DEF Calls
<1> HIDE DEF r
<1> QED
  BY <1>1, <1>2, <1>3, <1>4 DEF Made

\* commit_catalog_change asks for a full save.
LEMMA EditBegins ==
  ASSUME TypeOK, NEW w \in Windows, BeginEdit(w)
  PROVE  /\ Free /\ w \in open /\ UiKeeps
         /\ UNCHANGED <<open, opened, mem, persist, commit, edits, acked>>
         /\ Made("edit", w, Staged(w), "full", FALSE)
<1>1. Staged(w) \in Config
  BY StagedIsConfig
<1>2. Calls("edit", w, "full", Staged(w), FALSE)
  BY DEF BeginEdit
<1>3. Made("edit", w, Staged(w), "full", FALSE)
  BY <1>1, <1>2, CallMade
<1> QED
  BY <1>3 DEF BeginEdit, windowVars

\* The first step of a close is due.
LEMMA CloseBegins ==
  ASSUME NEW w \in Windows, BeginClose(w)
  PROVE  /\ Free /\ w \in open /\ UiKeeps
         /\ UNCHANGED <<open, opened, mem, persist, commit, edits, acked, queue, crossed>>
         /\ call'.what = "preferences" /\ call'.window = w /\ call'.answer = "due"
BY DEF BeginClose, windowVars, Due

\* The last preferences of a window are asked for, unless it is clean.
LEMMA PreferencesAsked ==
  ASSUME TypeOK, NEW w \in Windows, ClosePreferences(w)
  PROVE  /\ UiKeeps /\ UNCHANGED <<open, opened, mem, persist, commit, edits, acked, crossed>>
         /\ call.what = "preferences" /\ call.window = w /\ call.answer = "due"
         /\ \/ /\ ~IsDirty(persist[w]) /\ UNCHANGED queue
               /\ call'.what = "layout" /\ call'.window = w /\ call'.answer = "due"
            \/ Made("preferences", w, mem[w], "preferences", LayoutRequired(persist[w]))
<1>1. /\ UiKeeps /\ UNCHANGED <<open, opened, mem, persist, commit, edits, acked, crossed>>
      /\ call = Due("preferences", w)
      /\ \/ ~IsDirty(persist[w]) /\ call' = Due("layout", w) /\ UNCHANGED queue
         \/ Calls("preferences", w, "preferences", mem[w], LayoutRequired(persist[w]))
  BY DEF ClosePreferences, MustPersist, windowVars
<1>2. mem[w] \in Config
  BY DEF TypeOK
<1>3. LayoutRequired(persist[w]) \in BOOLEAN
  BY DEF LayoutRequired
<1>4. Calls("preferences", w, "preferences", mem[w], LayoutRequired(persist[w]))
        => Made("preferences", w, mem[w], "preferences", LayoutRequired(persist[w]))
  BY <1>2, <1>3, CallMade
<1>5. call.what = "preferences" /\ call.window = w /\ call.answer = "due"
  BY <1>1 DEF Due
<1>6. call' = Due("layout", w) =>
        call'.what = "layout" /\ call'.window = w /\ call'.answer = "due"
  BY DEF Due
<1> QED
  BY <1>1, <1>4, <1>5, <1>6

\* The last layout of a window is asked for with what the file holds, unless the
\* window is too small.
LEMMA LayoutAsked ==
  ASSUME TypeOK, NEW w \in Windows, CloseLayout(w)
  PROVE  /\ UiKeeps /\ UNCHANGED <<open, opened, mem, persist, commit, edits, acked, crossed>>
         /\ call.what = "layout" /\ call.window = w /\ call.answer = "due"
         /\ \/ /\ UNCHANGED queue
               /\ call'.what = "release" /\ call'.window = w /\ call'.answer = "due"
            \/ \E config \in Config :
                 config.catalog = disk.catalog /\ Made("layout", w, config, "full", FALSE)
<1> DEFINE config == [disk EXCEPT !.layout = mem[w].layout]
<1>1. /\ UiKeeps /\ UNCHANGED <<open, opened, mem, persist, commit, edits, acked, crossed>>
      /\ call = Due("layout", w)
      /\ \/ call' = Due("release", w) /\ UNCHANGED queue
         \/ Calls("layout", w, "full", config, FALSE)
  BY DEF CloseLayout, windowVars
<1>2. disk \in Config /\ mem[w] \in Config
  BY DEF TypeOK
<1>3. config \in Config /\ config.catalog = disk.catalog
  BY <1>2
<1>4. call.what = "layout" /\ call.window = w /\ call.answer = "due"
  BY <1>1 DEF Due
<1> HIDE DEF config
<1>5. Calls("layout", w, "full", config, FALSE) => Made("layout", w, config, "full", FALSE)
  BY <1>3, CallMade
<1>6. call' = Due("release", w) =>
        call'.what = "release" /\ call'.window = w /\ call'.answer = "due"
  BY DEF Due
<1> QED
  BY <1>1, <1>3, <1>4, <1>5, <1>6

\* The window gives its lease back, and asks for a flush or a shutdown.
LEMMA ReleaseAsked ==
  ASSUME NEW w \in Windows, CloseRelease(w)
  PROVE  /\ UiKeeps /\ open' = open \ {w}
         /\ UNCHANGED <<opened, mem, persist, commit, edits, acked, crossed>>
         /\ call.what = "release" /\ call.window = w /\ call.answer = "due"
         /\ \E kind \in Barrier : Made("release", w, Blank, kind, FALSE)
<1> DEFINE kind == IF open = {w} THEN "shutdown" ELSE "flush"
<1>1. /\ UiKeeps /\ open' = open \ {w} /\ call = Due("release", w)
      /\ UNCHANGED <<opened, mem, persist, commit, edits, acked, crossed>>
      /\ Calls("release", w, kind, Blank, FALSE)
  BY DEF CloseRelease
<1>2. kind \in Barrier
  BY DEF Barrier
<1>3. call.what = "release" /\ call.window = w /\ call.answer = "due"
  BY <1>1 DEF Due
<1> HIDE DEF kind
<1>4. Made("release", w, Blank, kind, FALSE)
  BY <1>1, <1>2, BlankIsConfig, CallMade DEF Barrier
<1> QED
  BY <1>1, <1>2, <1>3, <1>4

\* Every step keeps the turns of the user interface and of the worker.
LEMMA TurnStep ==
  ASSUME TypeOK, Receipts, Turn, [Next]_vars
  PROVE  Turn'
<1>1. queue \in Seq(Request) /\ Len(queue) \in Nat
  BY DEF TypeOK
<1>2. CASE WorkerSaves \/ WorkerReports
  <2>1. /\ queue # <<>> /\ queue' = Tail(queue) /\ queue[1] \in Request
        /\ open' = open /\ opened' = opened
    BY <1>2, HeadAnswered
  <2>2. PICK answer \in {"ok", "failed"} : Reply(queue[1], answer)
    BY <1>2, HeadAnswered
  <2>3. /\ call'.what = call.what /\ call'.window = call.window
        /\ call'.answer = IF queue[1].to = "call" THEN answer ELSE call.answer
        /\ queue[1].to # "call" => call' = call
    BY <2>1, <2>2, ReplyFields
  <2>4. CASE queue[1].to = "call"
    <3>1. queue' = <<>> /\ call.answer = "waiting"
      BY <2>1, <2>4, CallerLast
    <3>2. call.what # "none"
      BY <3>1 DEF Turn, NoCall
    <3> QED
      BY <2>1, <2>3, <2>4, <3>1, <3>2 DEF Turn
  <2>5. CASE queue[1].to # "call"
    <3>1. ASSUME call.answer = "waiting"
          PROVE  queue' # <<>> /\ queue'[Len(queue')].to = "call"
      <4>1. Len(queue') = Len(queue) - 1 /\ 1 \in Indices
            /\ \A i \in Indices : i # 1 => i - 1 \in Indices' /\ queue'[i - 1] = queue[i]
        BY <1>1, <2>1, Shrunk
      <4>2. queue[Len(queue)].to = "call" /\ Len(queue) # 1
        BY <2>5, <3>1 DEF Turn
      <4>3. Len(queue) \in Indices
        BY <1>1, <4>1 DEF Indices
      <4>4. queue'[Len(queue')] = queue[Len(queue)] /\ Len(queue') \in Indices'
        BY <4>1, <4>2, <4>3
      <4>5. queue' # <<>>
        BY <4>1, <4>2, <1>1, EmptySeq
      <4> QED
        BY <4>2, <4>4, <4>5
    <3>2. call.what # "none" => ~(call.answer \in {"ok", "failed"})
      BY <2>1 DEF Turn
    <3> QED
      BY <2>1, <2>3, <2>5, <3>1, <3>2 DEF Turn
  <2> QED
    BY <2>4, <2>5
<1>3. ASSUME NEW w \in Windows, Handler(w) PROVE Turn'
  <2>1. CASE \/ OpenWindow(w) \/ EditPreference(w) \/ EditLayout(w) \/ RecordUsage(w)
             \/ (\E ready \in BOOLEAN : Drive(w, ready))
             \/ BeginCommit(w) \/ FinishCommit(w) \/ CommitTimesOut(w)
    <3>1. call = NoCall /\ call' = call
      BY <2>1 DEF OpenWindow, EditPreference, EditLayout, RecordUsage, Drive, BeginCommit,
                  FinishCommit, CommitTimesOut, Free
    <3> QED
      BY <3>1 DEF Turn, NoCall
  <2>2. ASSUME NEW what, NEW config, NEW kind, NEW layout, Made(what, w, config, kind, layout)
        PROVE  /\ queue' # <<>> /\ queue'[Len(queue')].to = "call"
               /\ call'.what = what /\ call'.window = w /\ call'.answer = "waiting"
    <3>1. PICK r \in Request : queue' = Append(queue, r) /\ r.to = "call"
      BY <2>2 DEF Made
    <3>2. PICK last \in Nat : last = Len(queue') /\ last = Len(queue) + 1 /\ queue'[last] = r
      BY <1>1, <3>1, Grown
    <3>3. queue' # <<>>
      <4>1. Len(queue') # 0
        BY <1>1, <3>2
      <4> QED
        BY <4>1, EmptySeq
    <3> QED
      BY <2>2, <3>1, <3>2, <3>3 DEF Made
  <2>3. open \subseteq opened
    BY DEF TypeOK
  <2>4. CASE BeginEdit(w)
    <3>1. Free /\ w \in open /\ UNCHANGED <<open, opened>> /\ Made("edit", w, Staged(w), "full", FALSE)
      BY <2>4, EditBegins
    <3>2. /\ queue' # <<>> /\ queue'[Len(queue')].to = "call"
          /\ call'.what = "edit" /\ call'.window = w /\ call'.answer = "waiting"
      BY <2>2, <3>1
    <3> QED
      BY <2>3, <3>1, <3>2 DEF Turn
  <2>5. CASE BeginClose(w)
    BY <2>3, <2>5, CloseBegins DEF Turn
  <2>6. CASE ClosePreferences(w)
    <3>1. /\ UNCHANGED <<open, opened>>
          /\ call.what = "preferences" /\ call.window = w /\ call.answer = "due"
          /\ \/ call'.what = "layout" /\ call'.window = w /\ call'.answer = "due"
             \/ Made("preferences", w, mem[w], "preferences", LayoutRequired(persist[w]))
      BY <2>6, PreferencesAsked
    <3> QED
      BY <2>2, <3>1 DEF Turn
  <2>7. CASE CloseLayout(w)
    <3>1. /\ UNCHANGED <<open, opened>>
          /\ call.what = "layout" /\ call.window = w /\ call.answer = "due"
          /\ \/ call'.what = "release" /\ call'.window = w /\ call'.answer = "due"
             \/ \E config \in Config : Made("layout", w, config, "full", FALSE)
      BY <2>7, LayoutAsked
    <3> QED
      BY <2>2, <3>1 DEF Turn
  <2>8. CASE CloseRelease(w)
    <3>1. /\ UNCHANGED opened /\ open' = open \ {w}
          /\ call.what = "release" /\ call.window = w /\ call.answer = "due"
          /\ \E kind \in Barrier : Made("release", w, Blank, kind, FALSE)
      BY <2>8, ReleaseAsked
    <3> QED
      BY <2>2, <3>1 DEF Turn
  <2> QED
    BY <1>3, <2>1, <2>4, <2>5, <2>6, <2>7, <2>8 DEF Handler
<1>4. CASE CallReturns \/ CallFails
  <2>1. /\ call.what \in {"edit", "preferences", "layout", "release"}
        /\ call'.answer # "waiting" /\ open' = open /\ opened' = opened
        /\ call.what = "preferences" => call' = Due("layout", call.window)
        /\ call.what = "layout" => call' = Due("release", call.window)
        /\ call.what \in {"edit", "release"} => call' = NoCall
    BY <1>4, CallEnds
  <2>2. CASE call.what \in {"preferences", "layout"}
    <3>1. /\ call'.what \in {"layout", "release"} /\ call'.answer = "due"
          /\ call'.window = call.window
      BY <2>1, <2>2 DEF Due
    <3> QED
      BY <2>1, <2>2, <3>1 DEF Turn
  <2>3. CASE call.what \in {"edit", "release"}
    BY <2>1, <2>3 DEF Turn, NoCall
  <2> QED
    BY <2>1, <2>2, <2>3
<1>5. CASE OutsideWrite \/ UNCHANGED vars
  BY <1>5 DEF OutsideWrite, vars, windowVars, Turn
<1> QED
  BY <1>2, <1>3, <1>4, <1>5 DEF Next

\* A request stays sound while the call it belongs to lasts, and reports grow.
LEMMA SoundKept ==
  ASSUME NEW r, NEW s, Sound(r),
         s.kind = r.kind, s.window = r.window, s.config = r.config,
         s.to = r.to \/ s.to = "nobody",
         opened \subseteq opened', report[r.window] \subseteq report'[r.window],
         s.to = "call" => call'.what = call.what /\ call'.config = call.config,
         r.to = "call" /\ s.to # "call" /\ r.kind \in Barrier => "release" \in report'[r.window]
  PROVE  Sound(s)'
BY DEF Sound

\* Every step keeps the requests sound.
LEMMA RequestsStep ==
  ASSUME TypeOK, Receipts, Requests, Turn, [Next]_vars
  PROVE  Requests'
<1> SUFFICES ASSUME NEW i \in Indices', NEW s, s = queue'[i]
             PROVE  Sound(s)'
  BY DEF Requests, Sound
<1>1. queue \in Seq(Request) /\ open \subseteq opened /\ opened \subseteq Windows
      /\ \A v \in Windows : report[v] \in SUBSET {"preferences", "layout", "release"}
  BY DEF TypeOK
<1>2. ASSUME UNCHANGED queue PROVE i \in Indices /\ s = queue[i] /\ Sound(s)
  BY <1>2 DEF Indices, Requests
<1>3. ASSUME UNCHANGED queue, UNCHANGED report, opened \subseteq opened',
             call.answer = "waiting" => call' = call
      PROVE  Sound(s)'
  <2>1. i \in Indices /\ s = queue[i] /\ Sound(s)
    BY <1>2, <1>3
  <2>2. s.to = "call" => call.answer = "waiting"
    BY <2>1, Callers
  <2> QED
    BY <1>3, <2>1, <2>2 DEF Sound
<1>4. ASSUME NEW r \in Request, queue' = Append(queue, r), UNCHANGED report,
             opened' = opened, call.answer = "waiting" => call' = call, Sound(r)'
      PROVE  Sound(s)'
  <2>1. PICK last \in Nat : /\ Indices' = Indices \cup {last} /\ queue'[last] = r
                            /\ \A j \in Indices : queue'[j] = queue[j]
    BY <1>1, <1>4, Grown
  <2>2. CASE i = last
    BY <1>4, <2>1, <2>2
  <2>3. CASE i # last
    <3>1. i \in Indices /\ s = queue[i] /\ Sound(s)
      BY <2>1, <2>3 DEF Requests
    <3>2. s.to = "call" => call.answer = "waiting"
      BY <3>1, Callers
    <3> QED
      BY <1>4, <3>1, <3>2 DEF Sound
  <2> QED
    BY <2>2, <2>3
<1>5. CASE WorkerSaves \/ WorkerReports
  <2>1. /\ queue # <<>> /\ queue' = Tail(queue) /\ queue[1] \in Request
        /\ opened' = opened /\ report' = report
    BY <1>5, HeadAnswered
  <2>2. PICK answer \in {"ok", "failed"} : Reply(queue[1], answer)
    BY <1>5, HeadAnswered
  <2>3. call'.what = call.what /\ call'.config = call.config
    BY <2>1, <2>2, ReplyFields
  <2>4. i + 1 \in Indices /\ s = queue[i + 1]
    BY <1>1, <2>1, Shrunk
  <2>5. Sound(s)
    BY <2>4 DEF Requests
  <2> QED
    BY <2>1, <2>3, <2>5 DEF Sound
<1>6. ASSUME NEW w \in Windows, Handler(w) PROVE Sound(s)'
  <2>1. UNCHANGED report
    BY <1>6 DEF Handler, OpenWindow, EditPreference, EditLayout, RecordUsage, Drive, BeginCommit,
                FinishCommit, CommitTimesOut, BeginEdit, BeginClose, ClosePreferences, CloseLayout,
                CloseRelease, UiKeeps
  <2>2. CASE OpenWindow(w) \/ EditPreference(w) \/ EditLayout(w) \/ RecordUsage(w) \/ FinishCommit(w)
    <3>1. UNCHANGED <<queue, call>> /\ opened \subseteq opened'
      BY <2>2 DEF OpenWindow, EditPreference, EditLayout, RecordUsage, FinishCommit
    <3> QED
      BY <1>3, <2>1, <3>1
  <2>3. ASSUME NEW ready \in BOOLEAN, Drive(w, ready) PROVE Sound(s)'
    <3>1. w \in open /\ UNCHANGED <<call, opened>>
      BY <2>3, Drives
    <3>2. CASE queue' = queue
      BY <1>3, <2>1, <3>1, <3>2
    <3>3. CASE queue' # queue
      <4>1. PICK q \in Persistence :
              queue' = Append(queue, Asked("preferences", w, "save", mem[w], LayoutRequired(q)))
        BY <2>3, <3>3, Drives
      <4>2. mem[w] \in Config /\ LayoutRequired(q) \in BOOLEAN
        BY DEF TypeOK, LayoutRequired
      <4>3. Asked("preferences", w, "save", mem[w], LayoutRequired(q)) \in Request
        BY <4>2, NewRequests
      <4>4. PICK r \in Request : queue' = Append(queue, r) /\ r.window = w /\ r.to = "save"
                                 /\ r.kind = "preferences"
        BY <4>1, <4>3 DEF Asked
      <4>5. Sound(r)'
        BY <1>1, <3>1, <4>4 DEF Sound, Barrier
      <4> QED
        BY <1>4, <2>1, <3>1, <4>4, <4>5
    <3> QED
      BY <3>2, <3>3
  <2>4. CASE BeginCommit(w)
    <3>1. w \in open /\ UNCHANGED <<call, opened>>
          /\ queue' = Append(queue, Asked("full", w, "commit", Staged(w), FALSE))
      BY <2>4 DEF BeginCommit
    <3>2. Asked("full", w, "commit", Staged(w), FALSE) \in Request
      BY StagedIsConfig, NewRequests
    <3>3. PICK r \in Request : queue' = Append(queue, r) /\ r.window = w /\ r.to = "commit"
                               /\ r.kind = "full"
      BY <3>1, <3>2 DEF Asked
    <3>4. Sound(r)'
      BY <1>1, <3>1, <3>3 DEF Sound, Barrier
    <3> QED
      BY <1>4, <2>1, <3>1, <3>3, <3>4
  <2>5. CASE CommitTimesOut(w)
    <3>1. queue' = Unheard(w, "commit") /\ UNCHANGED <<call, opened>>
      BY <2>5 DEF CommitTimesOut
    <3>2. /\ i \in Indices
          /\ s.kind = queue[i].kind /\ s.window = queue[i].window /\ s.config = queue[i].config
          /\ s.to = IF Carries(i, w, "commit") THEN "nobody" ELSE queue[i].to
      BY <1>1, <3>1, Released
    <3>3. Sound(queue[i])
      BY <3>2 DEF Requests
    <3>4. queue[i].to = "call" => s.to = "call"
      BY <3>2 DEF Carries
    <3> QED
      BY <2>1, <3>1, <3>2, <3>3, <3>4, SoundKept
  <2>6. ASSUME NEW what \in {"edit", "preferences", "layout", "release"}, NEW config, NEW layout,
               NEW kind \in KindOf(what), Made(what, w, config, kind, layout),
               call.answer # "waiting", UNCHANGED opened, w \in opened
        PROVE  Sound(s)'
    <3>1. PICK r \in Request :
            /\ queue' = Append(queue, r)
            /\ r.kind = kind /\ r.window = w /\ r.to = "call" /\ r.config = config
      BY <2>6 DEF Made
    <3>2. Sound(r)'
      BY <2>6, <3>1 DEF Sound, Made
    <3> QED
      BY <1>4, <2>1, <2>6, <3>1, <3>2
  <2>7. CASE BeginEdit(w)
    <3>1. Free /\ w \in open /\ UNCHANGED opened /\ Made("edit", w, Staged(w), "full", FALSE)
      BY <2>7, EditBegins
    <3>2. call.answer # "waiting" /\ "full" \in KindOf("edit")
      BY <3>1 DEF Free, NoCall, KindOf
    <3> QED
      BY <1>1, <2>6, <3>1, <3>2
  <2>8. CASE BeginClose(w)
    <3>1. Free /\ UNCHANGED <<queue, opened>>
      BY <2>8, CloseBegins
    <3>2. call.answer # "waiting"
      BY <3>1 DEF Free, NoCall
    <3> QED
      BY <1>3, <2>1, <3>1, <3>2
  <2>9. CASE ClosePreferences(w)
    <3>1. /\ call.what = "preferences" /\ call.window = w /\ call.answer = "due"
          /\ UNCHANGED opened
          /\ UNCHANGED queue
             \/ Made("preferences", w, mem[w], "preferences", LayoutRequired(persist[w]))
      BY <2>9, PreferencesAsked
    <3>2. "preferences" \in KindOf("preferences") /\ w \in opened
      BY <3>1 DEF KindOf, Turn
    <3> QED
      BY <1>3, <2>1, <2>6, <3>1, <3>2
  <2>10. CASE CloseLayout(w)
    <3>1. /\ call.what = "layout" /\ call.window = w /\ call.answer = "due"
          /\ UNCHANGED opened
          /\ UNCHANGED queue \/ \E config \in Config : Made("layout", w, config, "full", FALSE)
      BY <2>10, LayoutAsked
    <3>2. "full" \in KindOf("layout") /\ w \in opened
      BY <3>1 DEF KindOf, Turn
    <3> QED
      BY <1>3, <2>1, <2>6, <3>1, <3>2
  <2>11. CASE CloseRelease(w)
    <3>1. /\ call.what = "release" /\ call.window = w /\ call.answer = "due"
          /\ UNCHANGED opened
          /\ \E kind \in Barrier : Made("release", w, Blank, kind, FALSE)
      BY <2>11, ReleaseAsked
    <3>2. Barrier = KindOf("release") /\ w \in opened
      BY <3>1 DEF KindOf, Barrier, Turn
    <3> QED
      BY <2>6, <3>1, <3>2
  <2> QED
    BY <1>6, <2>2, <2>3, <2>4, <2>5, <2>7, <2>8, <2>9, <2>10, <2>11 DEF Handler
<1>7. CASE CallReturns
  <2>1. UNCHANGED <<queue, report, opened>> /\ call.answer = "ok"
    BY <1>7 DEF CallReturns, UiKeeps
  <2> QED
    BY <1>3, <2>1
<1>8. CASE CallFails
  <2>1. /\ queue' = Unheard(call.window, "call") /\ UNCHANGED opened /\ call.window \in Windows
        /\ call.what \in {"edit", "preferences", "layout", "release"}
        /\ Reported(call.what, call.window)
    BY <1>8, CallEnds DEF CallFails, windowVars
  <2>2. /\ i \in Indices
        /\ s.kind = queue[i].kind /\ s.window = queue[i].window /\ s.config = queue[i].config
        /\ s.to = IF Carries(i, call.window, "call") THEN "nobody" ELSE queue[i].to
    BY <1>1, <2>1, Released
  <2>3. Sound(queue[i])
    BY <2>2 DEF Requests
  <2>4. queue[i].window \in Windows
    BY <1>1, <2>3 DEF Sound
  <2>5. report[queue[i].window] \subseteq report'[queue[i].window]
    <3>1. report \in [Windows -> SUBSET {"preferences", "layout", "release"}]
      BY DEF TypeOK
    <3> QED
      BY <2>1, <2>4, <3>1 DEF Reported
  <2>6. queue[i].to = "call" => queue[i].window = call.window /\ s.to = "nobody"
    BY <2>2, Callers DEF Carries
  <2>7. queue[i].to = "call" /\ queue[i].kind \in Barrier => "release" \in report'[queue[i].window]
    <3>1. SUFFICES ASSUME queue[i].to = "call", queue[i].kind \in Barrier
                   PROVE  "release" \in report'[queue[i].window]
      OBVIOUS
    <3>2. call.what = "release"
      BY <2>1, <2>3, <3>1 DEF Sound, KindOf, Barrier
    <3>3. report \in [Windows -> SUBSET {"preferences", "layout", "release"}]
      BY DEF TypeOK
    <3> QED
      BY <2>1, <2>6, <3>1, <3>2, <3>3 DEF Reported
  <2>8. s.to = queue[i].to \/ s.to = "nobody"
    BY <2>2
  <2>9. s.to # "call"
    BY <2>2, <2>6, <2>8
  <2> QED
    BY <2>1, <2>2, <2>3, <2>5, <2>7, <2>8, <2>9, SoundKept
<1>9. CASE OutsideWrite \/ UNCHANGED vars
  <2>1. UNCHANGED <<queue, report, opened, call>>
    BY <1>9 DEF OutsideWrite, vars, windowVars
  <2> QED
    BY <1>3, <2>1
<1> QED
  BY <1>5, <1>6, <1>7, <1>8, <1>9 DEF Next

\* At the start there is no request and no call.
LEMMA InitTurn == Init => Requests /\ Turn
<1> SUFFICES ASSUME Init PROVE Requests /\ Turn
  OBVIOUS
<1>1. Indices = {}
  <2>1. Len(queue) = 0
    BY EmptySeq DEF Init
  <2> QED
    BY <2>1 DEF Indices
<1>2. call = NoCall /\ open = {First}
  BY DEF Init
<1> QED
  BY <1>1, <1>2 DEF Requests, Turn, NoCall

\* The part of the invariant that is about requests and who waits for them.
QueueInv == IInv /\ Receipts /\ Requests /\ Turn

\* The invariant of the queue, the calls and the receipts.
LEMMA QueueInductive ==
  /\ Init => QueueInv
  /\ QueueInv /\ [Next]_vars => QueueInv'
BY InitIInv, InitReceipts, InitTurn, Inductive, ReceiptsStep, RequestsStep, TurnStep
   DEF QueueInv, IInv
-----------------------------------------------------------------------------
(* Failures.                                                               *)

Silent == \A w \in Windows : report[w] = {}

\* A failure that no close has reported is still known to the worker, or on its
\* way to the release that asked; when the last release has its answer, the
\* worker has nothing more to do and nothing to tell.
Errors ==
  /\ unseen /\ Silent => lastError \/ (call.what = "release" /\ call.answer = "failed")
  /\ open = {} /\ Silent /\ (Free \/ call.answer = "ok") => queue = <<>> /\ ~lastError

\* A save of the worker remembers its failure.
LEMMA SavesErrors ==
  ASSUME QueueInv, Errors, WorkerSaves
  PROVE  Errors'
<1>1. /\ queue # <<>> /\ queue' = Tail(queue) /\ queue[1] \in Request /\ Head(queue) = queue[1]
      /\ UNCHANGED <<open, report>>
  BY HeadAnswered DEF QueueInv, IInv
<1>2. queue \in Seq(Request) /\ 1 \in Indices
  BY <1>1, Shrunk DEF QueueInv, IInv, TypeOK
<1>3. PICK ok \in BOOLEAN : /\ lastError' = (lastError \/ ~ok) /\ unseen' = (unseen \/ ~ok)
                            /\ Reply(queue[1], IF ok THEN "ok" ELSE "failed")
  BY <1>1 DEF WorkerSaves, ErrorAfter
<1>4. PICK answer \in {"ok", "failed"} : Reply(queue[1], answer)
  BY <1>1, HeadAnswered DEF QueueInv, IInv
<1>5. /\ call'.what = call.what
      /\ queue[1].to # "call" => call' = call
  BY <1>1, <1>4, ReplyFields DEF QueueInv, IInv
<1>6. queue[1].kind \in {"preferences", "full"}
  BY <1>1 DEF WorkerSaves
<1>7. ASSUME queue[1].to = "call"
      PROVE  call.answer = "waiting" /\ call.what \in {"edit", "preferences", "layout"}
  <2>1. queue[1].kind \in KindOf(call.what)
    BY <1>2, <1>7 DEF QueueInv, Requests, Sound
  <2>2. call.answer = "waiting"
    BY <1>1, <1>7, CallerLast DEF QueueInv, IInv
  <2> QED
    BY <1>6, <2>1, <2>2 DEF KindOf
<1>8. unseen' /\ Silent' => lastError' \/ (call'.what = "release" /\ call'.answer = "failed")
  <2>1. unseen /\ Silent => lastError \/ (call.what = "release" /\ call.answer = "failed")
    BY DEF Errors
  <2>2. Silent' <=> Silent
    BY <1>1 DEF Silent
  <2> QED
    BY <1>3, <1>5, <1>7, <2>1, <2>2
<1>9. open' = {} /\ Silent' => ~(Free' \/ call'.answer = "ok")
  <2> SUFFICES ASSUME open = {}, Silent, Free' \/ call'.answer = "ok" PROVE FALSE
    BY <1>1 DEF Silent
  <2>1. CASE queue[1].to = "call"
    BY <1>7, <2>1 DEF QueueInv, Turn
  <2>2. CASE queue[1].to # "call"
    BY <1>1, <1>5, <2>2 DEF Errors, Free
  <2> QED
    BY <2>1, <2>2
<1> QED
  BY <1>8, <1>9 DEF Errors

\* A flush or a shutdown tells who asks, or was given up and reported.
LEMMA ReportsErrors ==
  ASSUME QueueInv, Errors, WorkerReports
  PROVE  Errors'
<1>1. /\ queue # <<>> /\ queue' = Tail(queue) /\ queue[1] \in Request /\ Head(queue) = queue[1]
      /\ UNCHANGED <<open, report>>
  BY HeadAnswered DEF QueueInv, IInv
<1>2. queue \in Seq(Request) /\ 1 \in Indices
  BY <1>1, Shrunk DEF QueueInv, IInv, TypeOK
<1>3. /\ lastError' = FALSE /\ unseen' = unseen
      /\ Reply(queue[1], IF lastError THEN "failed" ELSE "ok")
  BY <1>1 DEF WorkerReports
<1>4. queue[1].kind \in Barrier
  BY <1>1 DEF WorkerReports, Barrier
<1>5. SUFFICES ASSUME Silent PROVE Errors'
  BY <1>1 DEF Errors, Silent
<1>6. queue[1].to = "call" /\ queue[1].kind \in KindOf(call.what)
  <2>1. Sound(queue[1]) /\ queue[1].window \in Windows
    BY <1>1, <1>2 DEF QueueInv, Requests, Request
  <2> QED
    BY <1>4, <1>5, <2>1 DEF Sound, Silent
<1>7. call.answer = "waiting" /\ call.what = "release" /\ queue' = <<>>
  <2>1. call.answer = "waiting" /\ queue' = <<>>
    BY <1>1, <1>6, CallerLast DEF QueueInv, IInv
  <2> QED
    BY <1>4, <1>6, <2>1 DEF KindOf, Barrier
<1>8. call'.what = "release" /\ call'.answer = IF lastError THEN "failed" ELSE "ok"
  <2> DEFINE answer == IF lastError THEN "failed" ELSE "ok"
  <2>1. answer \in {"ok", "failed"} /\ Reply(queue[1], answer)
    BY <1>3
  <2> HIDE DEF answer
  <2>2. call'.what = call.what /\ call'.answer = answer
    BY <1>1, <1>6, <2>1, ReplyFields DEF QueueInv, IInv
  <2> QED
    BY <1>7, <2>2 DEF answer
<1>9. unseen => lastError
  BY <1>5, <1>7 DEF Errors
<1> QED
  BY <1>3, <1>7, <1>8, <1>9 DEF Errors

\* Every step keeps what is known of failures.
LEMMA ErrorsStep ==
  ASSUME QueueInv, Errors, [Next]_vars
  PROVE  Errors'
<1>1. CASE WorkerSaves
  BY <1>1, SavesErrors
<1>2. CASE WorkerReports
  BY <1>2, ReportsErrors
<1>3. ASSUME NEW w \in Windows, Handler(w) PROVE Errors'
  <2>1. UNCHANGED <<report, lastError, unseen>>
    BY <1>3 DEF Handler, OpenWindow, EditPreference, EditLayout, RecordUsage, Drive, BeginCommit,
                FinishCommit, CommitTimesOut, BeginEdit, BeginClose, ClosePreferences, CloseLayout,
                CloseRelease, UiKeeps, workerVars
  <2>2. call.answer # "failed" \/ call.what = "none"
    <3>1. call = NoCall \/ \E what \in {"preferences", "layout", "release"} : call = Due(what, w)
      BY <1>3 DEF Handler, OpenWindow, EditPreference, EditLayout, RecordUsage, Drive, BeginCommit,
                FinishCommit, CommitTimesOut, BeginEdit, BeginClose, ClosePreferences, CloseLayout,
                CloseRelease, Free
    <3> QED
      BY <3>1 DEF NoCall, Due
  <2>3. open # {}
    <3>1. CASE \/ OpenWindow(w) \/ EditPreference(w) \/ EditLayout(w) \/ RecordUsage(w)
               \/ (\E ready \in BOOLEAN : Drive(w, ready))
               \/ BeginCommit(w) \/ FinishCommit(w) \/ CommitTimesOut(w) \/ BeginEdit(w)
               \/ BeginClose(w)
      BY <3>1 DEF OpenWindow, EditPreference, EditLayout, RecordUsage, Drive, BeginCommit,
                FinishCommit, CommitTimesOut, BeginEdit, BeginClose
    <3>2. CASE ClosePreferences(w) \/ CloseLayout(w) \/ CloseRelease(w)
      <4>1. \E what \in {"preferences", "layout", "release"} : call = Due(what, w)
        BY <3>2 DEF ClosePreferences, CloseLayout, CloseRelease
      <4>2. call.what # "none" /\ call.answer = "due"
        BY <4>1 DEF Due
      <4> QED
        BY <4>2 DEF QueueInv, Turn
    <3> QED
      BY <1>3, <3>1, <3>2 DEF Handler
  <2>4. open' = {} => call'.answer = "waiting" /\ call'.what = "release"
    <3>1. CASE CloseRelease(w)
      BY <3>1, ReleaseAsked DEF Made
    <3>2. CASE ~CloseRelease(w)
      <4>1. open' = open \/ open' = open \cup {w}
        BY <1>3, <3>2 DEF Handler, OpenWindow, EditPreference, EditLayout, RecordUsage, Drive,
                BeginCommit, FinishCommit, CommitTimesOut, BeginEdit, BeginClose,
                ClosePreferences, CloseLayout, windowVars
      <4> QED
        BY <2>3, <4>1
    <3> QED
      BY <3>1, <3>2
  <2>5. unseen /\ Silent => lastError
    BY <2>2 DEF Errors
  <2> QED
    BY <2>1, <2>4, <2>5 DEF Errors, Silent, Free, NoCall
<1>4. CASE CallReturns
  <2>1. /\ call.answer = "ok" /\ UNCHANGED <<queue, open, report, lastError, unseen>>
    BY <1>4 DEF CallReturns, UiKeeps, workerVars
  <2> QED
    BY <2>1 DEF Errors, Silent
<1>5. CASE CallFails
  <2>1. /\ UNCHANGED <<open, lastError>> /\ call.window \in Windows
        /\ unseen' = (unseen /\ call.what # "release") /\ Reported(call.what, call.window)
        /\ call.what \in {"edit", "preferences", "layout", "release"}
    BY <1>5, CallEnds DEF CallFails, QueueInv, IInv
  <2>2. report \in [Windows -> SUBSET {"preferences", "layout", "release"}]
    BY DEF QueueInv, IInv, TypeOK
  <2>3. CASE call.what = "edit"
    <3>1. open # {} /\ report' = report
      BY <2>1, <2>3 DEF QueueInv, Turn, Reported
    <3> QED
      BY <2>1, <2>3, <3>1 DEF Errors, Silent
  <2>4. CASE call.what # "edit"
    <3>1. call.what \in report'[call.window]
      BY <2>1, <2>2, <2>4 DEF Reported
    <3>2. ~Silent'
      BY <2>1, <3>1 DEF Silent
    <3> QED
      BY <3>2 DEF Errors
  <2> QED
    BY <2>3, <2>4
<1>6. CASE OutsideWrite \/ UNCHANGED vars
  <2>1. UNCHANGED <<queue, open, report, lastError, unseen, call>>
    BY <1>6 DEF OutsideWrite, vars, windowVars, workerVars
  <2> QED
    BY <2>1 DEF Errors, Silent, Free
<1> QED
  BY <1>1, <1>2, <1>3, <1>4, <1>5, <1>6 DEF Next

\* When all windows have closed and no close has reported a failed stage, every
\* write has succeeded: whatever was saved since, a failure reaches the next
\* flush (last_error in worker_loop).
THEOREM FailuresReported == Spec => []FailureReported
<1>1. Init => Errors
  BY EmptySeq DEF Init, Errors, Free, NoCall
<1>2. QueueInv /\ Errors => FailureReported
  BY DEF Errors, FailureReported, Silent, Free, NoCall
<1> QED
  BY <1>1, <1>2, QueueInductive, ErrorsStep, PTL DEF Spec
-----------------------------------------------------------------------------
(* Generations.                                                            *)

PrefsStored(v) == mem[v].prefs \in written.prefs /\ Counted(mem[v], disk)
LayoutStored(v) == mem[v].layout \in written.layout

\* A configuration sent at generation g: it is what v has, unless v has changed
\* it since.
Fits(config, v, g) ==
  /\ g <= persist[v].generation
  /\ g = persist[v].generation => config.prefs = mem[v].prefs /\ Counted(mem[v], config)
  /\ persist[v].layoutGeneration <= g => config.layout = mem[v].layout

\* A save sent at generation g was written: what v has is stored, unless v has
\* changed it since.
Done(g, v, layout) ==
  /\ g <= persist[v].generation
  /\ g = persist[v].generation => PrefsStored(v)
  /\ layout /\ persist[v].layoutGeneration <= g => LayoutStored(v)

\* What a request carries, seen from the window that waits for its answer.
Apt(r) ==
  /\ r.to = "save" =>
       /\ Fits(r.config, r.window, persist[r.window].inFlight.generation)
       /\ r.layout = persist[r.window].inFlight.layout
  /\ r.to = "commit" =>
       /\ r.config = commit[r.window].staged
       /\ Fits(r.config, r.window, commit[r.window].generation)
  /\ r.to = "call" /\ call.what = "preferences" =>
       /\ Fits(r.config, r.window, persist[r.window].generation)
       /\ r.layout = LayoutRequired(persist[r.window])

\* What the generations of a window say is stored is stored.
Advanced(v) ==
  /\ \A f \in Generational : persist[v][f] <= persist[v].generation
  /\ persist[v].persisted >= persist[v].generation => PrefsStored(v)
  /\ persist[v].persistedLayout >= persist[v].layoutGeneration => LayoutStored(v)

\* So does an answer that the window has not taken yet: to its save, to its
\* commit, to its last save.
SaveTold(v) ==
  persist[v].inFlight.answer = "ok" =>
    Done(persist[v].inFlight.generation, v, persist[v].inFlight.layout)

CommitTold(v) ==
  /\ Counted(commit[v].staged, mem[v])
  /\ commit[v].answer = "ok" => Done(commit[v].generation, v, commit[v].layout)
  /\ commit[v].answer # "idle" =>
       /\ commit[v].generation <= persist[v].generation
       /\ persist[v].layoutGeneration <= commit[v].generation =>
            commit[v].staged.layout = mem[v].layout

CallTold(v) ==
  call.what = "preferences" /\ call.window = v /\ call.answer = "ok" =>
    Done(persist[v].generation, v, LayoutRequired(persist[v]))

Told(v) == Advanced(v) /\ SaveTold(v) /\ CommitTold(v) /\ CallTold(v)

\* A window that has not opened yet is fresh.
Fresh(v) == persist[v] = FreshPersistence /\ commit[v] = NoCommit

\* The preferences and the layout in the file have been on disk.
OnDisk == disk.prefs \in written.prefs /\ disk.layout \in written.layout

\* A catalog change leaves preferences, layout and counts as the window has them.
EditKeeps ==
  call.what = "edit" =>
    \A f \in {"prefs", "layout", "usage"} : call.config[f] = mem[call.window][f]

StoreInv ==
  /\ QueueInv /\ OnDisk /\ EditKeeps
  /\ \A v \in Windows : IF v \in opened THEN Told(v) ELSE Fresh(v)
  /\ \A i \in Indices : Apt(queue[i])

\* What is stored stays stored.
World ==
  /\ written.prefs \subseteq written'.prefs /\ written.layout \subseteq written'.layout
  /\ Counted(disk, disk')

\* v keeps its generations, its preferences, its layout and its counts.
Still(v) ==
  /\ \A f \in {"generation", "layoutGeneration"} : persist'[v][f] = persist[v][f]
  /\ \A f \in {"prefs", "layout", "usage"} : mem'[v][f] = mem[v][f]

\* v changes one of them under a new generation.
Touched(v) ==
  /\ persist'[v].generation = persist[v].generation + 1
  /\ \/ persist'[v].layoutGeneration = persist'[v].generation
     \/ /\ persist'[v].layoutGeneration = persist[v].layoutGeneration
        /\ mem'[v].layout = mem[v].layout

\* The world grows with every step.
LEMMA WorldStep ==
  ASSUME IInv, [Next]_vars
  PROVE  World
<1>1. Counted(disk, disk')
  BY Growth
<1>2. written \in [prefs : SUBSET Nat, layout : SUBSET Nat]
  BY DEF IInv, TypeOK
<1>3. \/ written' = written
      \/ written' = [prefs |-> written.prefs \cup {disk'.prefs},
                     layout |-> written.layout \cup {disk'.layout}]
  <2>1. CASE WorkerSaves
    BY <2>1 DEF WorkerSaves
  <2>2. ASSUME NEW w \in Windows, Handler(w) PROVE written' = written
    BY <2>2 DEF Handler, OpenWindow, EditPreference, EditLayout, RecordUsage, Drive, BeginCommit,
                FinishCommit, CommitTimesOut, BeginEdit, BeginClose, ClosePreferences, CloseLayout,
                CloseRelease, UiKeeps, workerVars
  <2>3. CASE WorkerReports \/ CallReturns \/ CallFails \/ OutsideWrite \/ UNCHANGED vars
    BY <2>3 DEF WorkerReports, CallReturns, CallFails, OutsideWrite, vars, workerVars, UiKeeps
  <2> QED
    BY <2>1, <2>2, <2>3 DEF Next
<1> QED
  BY <1>1, <1>2, <1>3 DEF World

\* The numbers of a window.
LEMMA Numbers ==
  ASSUME TypeOK, NEW v \in Windows
  PROVE  /\ \A f \in Generational : persist[v][f] \in Nat
         /\ persist[v].inFlight.generation \in Nat /\ persist[v].inFlight.layout \in BOOLEAN
         /\ commit[v].generation \in Nat /\ commit[v].layout \in BOOLEAN
         /\ commit[v].staged \in Config /\ mem[v] \in Config
         /\ commit[v] \in Commit /\ persist[v] \in Persistence
<1>1. persist[v] \in Persistence /\ commit[v] \in Commit /\ mem[v] \in Config
  BY DEF TypeOK
<1> QED
  BY <1>1 DEF Persistence, Save, Commit, Generational

\* Counts that grow in two steps grow.
LEMMA CountsGrow ==
  ASSUME NEW a \in Config, NEW b \in Config, NEW c \in Config, Counted(a, b), Counted(b, c)
  PROVE  Counted(a, c)
BY DEF Counted

\* What fits still fits when the window stands still or changes.
LEMMA FitsOn ==
  ASSUME TypeOK, NEW v \in Windows, NEW config \in Config, NEW g \in Nat, Fits(config, v, g),
         Still(v) \/ Touched(v)
  PROVE  Fits(config, v, g)'
<1>1. /\ persist[v].generation \in Nat /\ persist[v].layoutGeneration \in Nat
  BY Numbers DEF Generational
<1>2. CASE Still(v)
  BY <1>2 DEF Still, Fits, Counted
<1>3. CASE Touched(v)
  BY <1>1, <1>3 DEF Touched, Fits
<1> QED
  BY <1>2, <1>3

\* What is done stays done.
LEMMA StoredOn ==
  ASSUME TypeOK, TypeOK', World, NEW v \in Windows, Still(v)
  PROVE  /\ PrefsStored(v) => PrefsStored(v)'
         /\ LayoutStored(v) => LayoutStored(v)'
<1>1. disk \in Config /\ disk' \in Config /\ mem[v] \in Config /\ mem'[v] \in Config
  BY DEF TypeOK
<1>2. Counted(mem[v], disk) => Counted(mem'[v], disk')
  BY <1>1 DEF World, Still, Counted
<1> QED
  BY <1>2 DEF World, Still, PrefsStored, LayoutStored

\* A generation that was stored stays stored.
LEMMA DoneOn ==
  ASSUME TypeOK, TypeOK', World, NEW v \in Windows, NEW g \in Nat, NEW layout \in BOOLEAN,
         Done(g, v, layout), Still(v)
  PROVE  Done(g, v, layout)'
BY StoredOn DEF Done, Still

\* What fitted the window and was written is done.
LEMMA DoneNow ==
  ASSUME TypeOK, TypeOK', NEW v \in Windows, NEW config \in Config, NEW g \in Nat,
         NEW layout \in BOOLEAN, Fits(config, v, g), Still(v),
         disk'.prefs \in written'.prefs, disk'.layout \in written'.layout,
         disk'.prefs = config.prefs, layout => disk'.layout = config.layout,
         Counted(config, disk')
  PROVE  Done(g, v, layout)'
<1>1. disk' \in Config /\ mem[v] \in Config /\ mem'[v] \in Config
  BY DEF TypeOK
<1>2. g = persist[v].generation => Counted(mem'[v], disk')
  BY <1>1 DEF Fits, Still, Counted
<1> QED
  BY <1>2 DEF Fits, Still, Done, PrefsStored, LayoutStored

\* Generations advance by what is done.
LEMMA AdvancedOn ==
  ASSUME TypeOK, TypeOK', World, NEW v \in Windows, Advanced(v), Still(v),
         \/ \A f \in Generational : persist'[v][f] = persist[v][f]
         \/ \E g \in Nat, layout \in BOOLEAN :
              /\ Done(g, v, layout)
              /\ persist'[v].persisted = Later(persist[v].persisted, g)
              /\ persist'[v].persistedLayout = IF layout THEN Later(persist[v].persistedLayout, g)
                                               ELSE persist[v].persistedLayout
  PROVE  Advanced(v)'
<1>1. /\ \A f \in Generational : persist[v][f] \in Nat
      /\ PrefsStored(v) => PrefsStored(v)'
      /\ LayoutStored(v) => LayoutStored(v)'
  BY Numbers, StoredOn
<1>2. CASE \A f \in Generational : persist'[v][f] = persist[v][f]
  BY <1>1, <1>2 DEF Advanced, Generational
<1>3. ASSUME NEW g \in Nat, NEW layout \in BOOLEAN, Done(g, v, layout),
             persist'[v].persisted = Later(persist[v].persisted, g),
             persist'[v].persistedLayout = IF layout THEN Later(persist[v].persistedLayout, g)
                                           ELSE persist[v].persistedLayout
      PROVE  Advanced(v)'
  <2>1. /\ persist'[v].generation = persist[v].generation
        /\ persist'[v].layoutGeneration = persist[v].layoutGeneration
    BY DEF Still
  <2>2. \A f \in Generational : persist'[v][f] <= persist'[v].generation
    BY <1>1, <1>3, <2>1 DEF Advanced, Generational, Done, Later
  <2>3. persist'[v].persisted >= persist'[v].generation => PrefsStored(v)'
    BY <1>1, <1>3, <2>1 DEF Advanced, Generational, Done, Later
  <2>4. persist'[v].persistedLayout >= persist'[v].layoutGeneration => LayoutStored(v)'
    BY <1>1, <1>3, <2>1 DEF Advanced, Generational, Done, Later
  <2> QED
    BY <2>2, <2>3, <2>4 DEF Advanced
<1> QED
  BY <1>2, <1>3

\* An answer that lies there is as true as before.
LEMMA SaveToldOn ==
  ASSUME TypeOK, TypeOK', World, NEW v \in Windows, SaveTold(v), Still(v),
         \A f \in {"answer", "generation", "layout"} : persist'[v].inFlight[f] = persist[v].inFlight[f]
  PROVE  SaveTold(v)'
<1> SUFFICES ASSUME persist'[v].inFlight.answer = "ok" PROVE SaveTold(v)'
  BY DEF SaveTold
<1>1. PICK n \in Nat, b \in BOOLEAN :
        n = persist[v].inFlight.generation /\ b = persist[v].inFlight.layout
  BY Numbers
<1>2. Done(n, v, b)
  BY <1>1 DEF SaveTold
<1>3. Done(n, v, b)'
  BY <1>2, DoneOn
<1>4. persist'[v].inFlight.generation = n /\ persist'[v].inFlight.layout = b
  BY <1>1
<1> QED
  BY <1>3, <1>4 DEF SaveTold, Done

\* A window that stands still keeps what its full commit has told it,
LEMMA CommitToldOn ==
  ASSUME TypeOK, TypeOK', World, NEW v \in Windows, CommitTold(v), Still(v),
         \A f \in {"answer", "staged", "generation", "layout"} : commit'[v][f] = commit[v][f]
  PROVE  CommitTold(v)'
<1>1. PICK n \in Nat, b \in BOOLEAN : n = commit[v].generation /\ b = commit[v].layout
  BY Numbers
<1>2. commit'[v].answer = "ok" => Done(n, v, b)'
  BY <1>1, DoneOn DEF CommitTold
<1>3. commit'[v].generation = n /\ commit'[v].layout = b
      /\ commit'[v].staged = commit[v].staged /\ commit'[v].answer = commit[v].answer
  BY <1>1
<1>4. commit'[v].answer = "ok" => Done(commit[v].generation, v, commit[v].layout)'
  BY <1>2, <1>3 DEF Done
<1>5. Counted(commit'[v].staged, mem'[v])
  BY <1>3 DEF CommitTold, Still, Counted
<1> QED
  BY <1>3, <1>4, <1>5 DEF CommitTold, Still, Counted

\* and what its blocking call has.
LEMMA CallToldOn ==
  ASSUME TypeOK, TypeOK', World, NEW v \in Windows, CallTold(v), Still(v),
         persist'[v].persistedLayout = persist[v].persistedLayout,
         call' = call \/ call'.what # "preferences" \/ call'.answer # "ok" \/ call'.window # v
  PROVE  CallTold(v)'
<1> SUFFICES ASSUME call' = call, call.what = "preferences" /\ call.window = v /\ call.answer = "ok"
             PROVE  CallTold(v)'
  BY DEF CallTold
<1>1. PICK n \in Nat, b \in BOOLEAN :
        n = persist[v].generation /\ b = LayoutRequired(persist[v])
  <2>1. LayoutRequired(persist[v]) \in BOOLEAN /\ persist[v].generation \in Nat
    BY Numbers DEF LayoutRequired, Generational
  <2> QED
    BY <2>1
<1>2. Done(n, v, b)
  BY <1>1 DEF CallTold
<1>3. Done(n, v, b)'
  BY <1>2, DoneOn
<1>4. persist'[v].generation = n /\ LayoutRequired(persist'[v]) = b
  BY <1>1 DEF Still, LayoutRequired
<1> QED
  BY <1>3, <1>4 DEF CallTold, Done

\* A window that no step is about.
LEMMA ToldOn ==
  ASSUME TypeOK, TypeOK', World, NEW v \in Windows, Told(v), Still(v),
         \A f \in Generational : persist'[v][f] = persist[v][f],
         \A f \in {"answer", "generation", "layout"} :
           persist'[v].inFlight[f] = persist[v].inFlight[f],
         \A f \in {"answer", "staged", "generation", "layout"} : commit'[v][f] = commit[v][f],
         call' = call \/ call'.what # "preferences" \/ call'.answer # "ok" \/ call'.window # v
  PROVE  Told(v)'
<1>1. Advanced(v)'
  BY AdvancedOn DEF Told
<1>2. SaveTold(v)'
  BY SaveToldOn DEF Told
<1>3. CommitTold(v)'
  BY CommitToldOn DEF Told
<1>4. CallTold(v)'
  BY CallToldOn DEF Told, Generational
<1> QED
  BY <1>1, <1>2, <1>3, <1>4 DEF Told

\* A window that has not opened stays as it is.
LEMMA FreshStep ==
  ASSUME StoreInv, [Next]_vars, NEW v \in Windows, v \notin opened, v \notin opened'
  PROVE  Fresh(v)'
<1>1. /\ persist \in [Windows -> Persistence] /\ commit \in [Windows -> Commit]
      /\ open \subseteq opened /\ Fresh(v)
  BY DEF StoreInv, QueueInv, IInv, TypeOK
<1> SUFFICES persist'[v] = persist[v] /\ commit'[v] = commit[v]
  BY <1>1 DEF Fresh
<1>2. CASE WorkerSaves \/ WorkerReports
  <2>1. PICK answer \in {"ok", "failed"} : Reply(queue[1], answer)
    BY <1>2, HeadAnswered DEF StoreInv, QueueInv, IInv
  <2>2. queue # <<>> /\ queue' = Tail(queue)
    BY <1>2, HeadAnswered DEF StoreInv, QueueInv, IInv
  <2>3. 1 \in Indices
    BY <2>2, Shrunk DEF StoreInv, QueueInv, IInv, TypeOK
  <2>4. queue[1].window # v
    BY <2>3 DEF StoreInv, QueueInv, Requests, Sound
  <2> QED
    BY <1>1, <2>1, <2>4 DEF Reply
<1>3. ASSUME NEW w \in Windows, Handler(w) PROVE persist'[v] = persist[v] /\ commit'[v] = commit[v]
  <2>1. CASE OpenWindow(w)
    BY <2>1 DEF OpenWindow
  <2>2. CASE EditPreference(w) \/ EditLayout(w) \/ RecordUsage(w)
    BY <1>1, <2>2, Edited DEF StoreInv, QueueInv, IInv
  <2>3. CASE \E ready \in BOOLEAN : Drive(w, ready)
    BY <1>1, <2>3, Drives DEF StoreInv, QueueInv, IInv
  <2>4. CASE BeginCommit(w) \/ CommitTimesOut(w)
    BY <1>1, <2>4 DEF BeginCommit, CommitTimesOut
  <2>5. CASE FinishCommit(w)
    BY <1>1, <2>5, Finishes DEF StoreInv, QueueInv, IInv
  <2>6. CASE BeginEdit(w) \/ BeginClose(w) \/ ClosePreferences(w) \/ CloseLayout(w) \/ CloseRelease(w)
    BY <2>6 DEF BeginEdit, BeginClose, ClosePreferences, CloseLayout, CloseRelease, windowVars
  <2> QED
    BY <1>3, <2>1, <2>2, <2>3, <2>4, <2>5, <2>6 DEF Handler
<1>4. CASE CallReturns
  <2>1. call.window # v
    BY <1>4 DEF CallReturns, StoreInv, QueueInv, Turn
  <2> QED
    BY <1>1, <1>4, <2>1 DEF CallReturns
<1>5. CASE CallFails \/ OutsideWrite \/ UNCHANGED vars
  BY <1>5 DEF CallFails, OutsideWrite, vars, windowVars
<1> QED
  BY <1>2, <1>3, <1>4, <1>5 DEF Next

\* What a successful save leaves in the file.
LEMMA WrittenFields ==
  ASSUME TypeOK, NEW r \in Request
  PROVE  /\ Written(r).prefs = r.config.prefs
         /\ r.kind # "preferences" \/ r.layout => Written(r).layout = r.config.layout
         /\ Counted(r.config, Written(r)) /\ Counted(disk, Written(r))
         /\ r.kind # "preferences" => Written(r).catalog = r.config.catalog
         /\ r.kind = "preferences" => Written(r).catalog = disk.catalog
<1>1. r.config \in Config /\ r.layout \in BOOLEAN /\ disk \in Config
  BY DEF Request, TypeOK
<1>2. CASE r.kind = "preferences"
  <2> DEFINE counts == MergedUsage(r.config.usage, disk.usage)
             shown == IF r.layout THEN r.config.layout ELSE disk.layout
  <2>1. Written(r) = MergedPreferences(disk, r.config, r.layout)
    BY <1>2 DEF Written
  <2>2. Written(r) = [disk EXCEPT !.prefs = r.config.prefs, !.usage = counts, !.layout = shown]
    BY <2>1 DEF MergedPreferences
  <2> HIDE DEF counts, shown
  <2>3. /\ Written(r).prefs = r.config.prefs /\ Written(r).layout = shown
        /\ Written(r).catalog = disk.catalog
    BY <1>1, <2>2
  <2>4. r.layout => shown = r.config.layout
    BY DEF shown
  <2>5. Counted(r.config, Written(r)) /\ Counted(disk, Written(r))
    BY <1>1, <2>1, ConfigMerges
  <2> QED
    BY <1>2, <2>3, <2>4, <2>5
<1>3. CASE r.kind # "preferences"
  <2> DEFINE counts == MergedUsage(r.config.usage, disk.usage)
  <2>1. Written(r) = MergedFull(r.config, disk)
    BY <1>3 DEF Written
  <2>2. Written(r) = [r.config EXCEPT !.usage = counts]
    BY <2>1 DEF MergedFull
  <2> HIDE DEF counts
  <2>3. /\ Written(r).prefs = r.config.prefs /\ Written(r).layout = r.config.layout
        /\ Written(r).catalog = r.config.catalog
    BY <1>1, <2>2
  <2>4. Counted(r.config, Written(r)) /\ Counted(disk, Written(r))
    BY <1>1, <2>1, ConfigMerges
  <2> QED
    BY <1>3, <2>3, <2>4
<1> QED
  BY <1>2, <1>3

\* A save by the worker: its request, and the file.
LEMMA Saves ==
  ASSUME TypeOK, WorkerSaves
  PROVE  \E ok \in BOOLEAN :
           /\ Reply(queue[1], IF ok THEN "ok" ELSE "failed")
           /\ disk' = IF ok THEN Written(queue[1]) ELSE disk
           /\ disk'.prefs \in written'.prefs /\ disk'.layout \in written'.layout
           /\ queue[1].kind = "full" /\ ok => ~Refused(Written(queue[1]))
           /\ queue[1].kind \in {"preferences", "full"}
<1>1. Head(queue) = queue[1]
  BY HeadAnswered
<1>2. PICK stored \in BOOLEAN, ok \in BOOLEAN :
        /\ ok = (stored /\ ~(queue[1].kind = "full" /\ Refused(Written(queue[1]))))
        /\ Reply(queue[1], IF ok THEN "ok" ELSE "failed")
        /\ disk' = IF ok THEN Written(queue[1]) ELSE disk
        /\ written' = [prefs |-> written.prefs \cup {disk'.prefs},
                       layout |-> written.layout \cup {disk'.layout}]
  <2>1. ASSUME NEW stored \in BOOLEAN
        PROVE  (stored /\ ~(queue[1].kind = "full" /\ Refused(Written(queue[1])))) \in BOOLEAN
    OBVIOUS
  <2> QED
    BY <1>1, <2>1, Zenon DEF WorkerSaves
<1>3. disk'.prefs \in written'.prefs /\ disk'.layout \in written'.layout
  BY <1>2
<1>4. queue[1].kind = "full" /\ ok => ~Refused(Written(queue[1]))
  BY <1>2, Zenon
<1>5. queue[1].kind \in {"preferences", "full"}
  BY <1>1 DEF WorkerSaves
<1>6. Reply(queue[1], IF ok THEN "ok" ELSE "failed") /\ disk' = IF ok THEN Written(queue[1]) ELSE disk
  BY <1>2
<1> QED
  BY <1>3, <1>4, <1>5, <1>6, Zenon

\* A request that the worker has written is done for the window that sent it.
LEMMA SavedNow ==
  ASSUME StoreInv, TypeOK', WorkerSaves, NEW v \in Windows, NEW r \in Request,
         Still(v), NEW g \in Nat, NEW layout \in BOOLEAN, Fits(r.config, v, g),
         disk' = Written(r), disk'.prefs \in written'.prefs, disk'.layout \in written'.layout,
         layout => r.kind = "full" \/ r.layout
  PROVE  Done(g, v, layout)'
<1>1. TypeOK /\ r.config \in Config
  BY DEF StoreInv, QueueInv, IInv, Request
<1>2. /\ disk'.prefs = r.config.prefs /\ Counted(r.config, disk')
      /\ layout => disk'.layout = r.config.layout
  BY <1>1, WrittenFields
<1> QED
  BY <1>1, <1>2, DoneNow

\* A save by the worker: who waits for it is told what is true.
LEMMA SavesTold ==
  ASSUME StoreInv, TypeOK', World, WorkerSaves, NEW v \in opened
  PROVE  Told(v)'
<1>1. /\ TypeOK /\ v \in Windows /\ Told(v)
      /\ queue # <<>> /\ queue' = Tail(queue) /\ UNCHANGED mem
  BY HeadAnswered DEF StoreInv, QueueInv, IInv, TypeOK
<1>2. PICK r \in Request : r = queue[1]
  BY <1>1, HeadAnswered
<1>3. PICK ok \in BOOLEAN :
        /\ Reply(r, IF ok THEN "ok" ELSE "failed")
        /\ disk' = IF ok THEN Written(r) ELSE disk
        /\ disk'.prefs \in written'.prefs /\ disk'.layout \in written'.layout
        /\ r.kind \in {"preferences", "full"}
  BY <1>1, <1>2, Saves
<1>4. PICK answer \in {"ok", "failed"} : answer = (IF ok THEN "ok" ELSE "failed") /\ Reply(r, answer)
  BY <1>3
<1>5. /\ \A f \in Generational : persist'[v][f] = persist[v][f]
      /\ \A f \in {"generation", "layout"} : persist'[v].inFlight[f] = persist[v].inFlight[f]
      /\ persist'[v].inFlight.answer =
           IF r.to = "save" /\ r.window = v THEN answer ELSE persist[v].inFlight.answer
      /\ \A f \in {"staged", "generation", "layout"} : commit'[v][f] = commit[v][f]
      /\ commit'[v].answer = IF r.to = "commit" /\ r.window = v THEN answer ELSE commit[v].answer
      /\ call'.what = call.what /\ call'.window = call.window
      /\ call'.answer = IF r.to = "call" THEN answer ELSE call.answer
      /\ r.to # "call" => call' = call
  BY <1>1, <1>4, ReplyFields
<1>6. 1 \in Indices /\ Sound(r) /\ Apt(r)
  <2>1. 1 \in Indices
    BY <1>1, Shrunk DEF TypeOK
  <2> QED
    BY <1>2, <2>1 DEF StoreInv, QueueInv, Requests
<1>7. Still(v)
  BY <1>1, <1>5 DEF Still, Generational
<1>8. Advanced(v)'
  BY <1>1, <1>5, <1>7, AdvancedOn DEF Told
<1>9. SaveTold(v)'
  <2>1. CASE r.to = "save" /\ r.window = v /\ ok
    <3>1. PICK n \in Nat, b \in BOOLEAN :
            n = persist[v].inFlight.generation /\ b = persist[v].inFlight.layout
      BY <1>1, Numbers
    <3>2. Fits(r.config, v, n) /\ b = r.layout
      BY <1>6, <2>1, <3>1 DEF Apt
    <3>3. Done(n, v, b)'
      BY <1>1, <1>3, <1>7, <2>1, <3>2, SavedNow
    <3>4. persist'[v].inFlight.generation = n /\ persist'[v].inFlight.layout = b
      BY <1>5, <3>1
    <3> QED
      BY <3>3, <3>4 DEF SaveTold, Done
  <2>2. CASE r.to = "save" /\ r.window = v /\ ~ok
    BY <1>4, <1>5, <2>2 DEF SaveTold
  <2>3. CASE ~(r.to = "save" /\ r.window = v)
    BY <1>1, <1>5, <1>7, <2>3, SaveToldOn DEF Told
  <2> QED
    BY <2>1, <2>2, <2>3
<1>10. CommitTold(v)'
  <2>1. CASE r.to = "commit" /\ r.window = v
    <3>1. PICK n \in Nat, b \in BOOLEAN : n = commit[v].generation /\ b = commit[v].layout
      BY <1>1, Numbers
    <3>2. Fits(r.config, v, n) /\ r.kind = "full" /\ r.config = commit[v].staged
      BY <1>6, <2>1, <3>1 DEF Apt, Sound
    <3>3. ok => Done(n, v, b)'
      BY <1>1, <1>3, <1>7, <3>2, SavedNow
    <3>4. commit'[v].generation = n /\ commit'[v].layout = b /\ commit'[v].staged = commit[v].staged
      BY <1>5, <3>1
    <3>5. commit'[v].answer = "ok" => Done(commit[v].generation, v, commit[v].layout)'
      BY <1>4, <1>5, <2>1, <3>3, <3>4 DEF Done
    <3>6. /\ n <= persist[v].generation
          /\ persist[v].layoutGeneration <= n => commit[v].staged.layout = mem[v].layout
      BY <3>2 DEF Fits
    <3>7. Counted(commit'[v].staged, mem'[v])
      BY <1>1, <3>4 DEF Told, CommitTold
    <3>8. /\ commit'[v].generation <= persist'[v].generation
          /\ persist'[v].layoutGeneration <= commit'[v].generation =>
               commit'[v].staged.layout = mem'[v].layout
      BY <1>1, <1>5, <3>1, <3>4, <3>6 DEF Generational
    <3> QED
      BY <3>5, <3>7, <3>8 DEF CommitTold
  <2>2. CASE ~(r.to = "commit" /\ r.window = v)
    BY <1>1, <1>5, <1>7, <2>2, CommitToldOn DEF Told
  <2> QED
    BY <2>1, <2>2
<1>11. CallTold(v)'
  <2>1. CASE r.to = "call" /\ call.what = "preferences" /\ call.window = v /\ ok
    <3>1. r.window = v
      BY <1>1, <1>2, <1>6, <2>1, Callers DEF StoreInv, QueueInv
    <3>2. PICK n \in Nat, b \in BOOLEAN :
            n = persist[v].generation /\ b = LayoutRequired(persist[v])
      <4>1. persist[v].generation \in Nat /\ LayoutRequired(persist[v]) \in BOOLEAN
        BY <1>1, Numbers DEF Generational, LayoutRequired
      <4> QED
        BY <4>1
    <3>3. Fits(r.config, v, n) /\ b = r.layout
      BY <1>6, <2>1, <3>1, <3>2 DEF Apt
    <3>4. Done(n, v, b)'
      BY <1>1, <1>3, <1>7, <2>1, <3>3, SavedNow
    <3>5. persist'[v].generation = n /\ LayoutRequired(persist'[v]) = b
      BY <1>5, <3>2 DEF Generational, LayoutRequired
    <3> QED
      BY <3>4, <3>5 DEF CallTold, Done
  <2>2. CASE ~(r.to = "call" /\ call.what = "preferences" /\ call.window = v /\ ok)
    <3>1. call' = call \/ call'.what # "preferences" \/ call'.answer # "ok" \/ call'.window # v
      BY <1>4, <1>5, <2>2
    <3> QED
      BY <1>1, <1>5, <1>7, <3>1, CallToldOn DEF Told, Generational
  <2> QED
    BY <2>1, <2>2
<1> QED
  BY <1>8, <1>9, <1>10, <1>11 DEF Told

\* A barrier answers neither a save nor a commit nor the last save of a close.
LEMMA ReportsTold ==
  ASSUME StoreInv, TypeOK', World, WorkerReports, NEW v \in opened
  PROVE  Told(v)'
<1>1. /\ TypeOK /\ v \in Windows /\ Told(v) /\ Turn
      /\ queue # <<>> /\ queue' = Tail(queue) /\ UNCHANGED mem /\ Head(queue) = queue[1]
  BY HeadAnswered DEF StoreInv, QueueInv, IInv, TypeOK
<1>2. PICK r \in Request : r = queue[1]
  BY <1>1, HeadAnswered
<1>3. PICK answer \in {"ok", "failed"} : Reply(r, answer)
  BY <1>1, <1>2, HeadAnswered
<1>4. 1 \in Indices /\ Sound(r)
  <2>1. 1 \in Indices
    BY <1>1, Shrunk DEF TypeOK
  <2> QED
    BY <1>2, <2>1 DEF StoreInv, QueueInv, Requests
<1>5. r.kind \in Barrier
  BY <1>1, <1>2 DEF WorkerReports, Barrier
<1>6. r.to # "save" /\ r.to # "commit" /\ (r.to = "call" => call.what # "preferences")
  BY <1>4, <1>5 DEF Sound, Barrier, KindOf
<1>7. /\ \A f \in Generational : persist'[v][f] = persist[v][f]
      /\ \A f \in {"generation", "layout"} : persist'[v].inFlight[f] = persist[v].inFlight[f]
      /\ persist'[v].inFlight.answer = persist[v].inFlight.answer
      /\ \A f \in {"staged", "generation", "layout"} : commit'[v][f] = commit[v][f]
      /\ commit'[v].answer = commit[v].answer
      /\ call'.what = call.what
      /\ r.to # "call" => call' = call
  BY <1>1, <1>3, <1>6, ReplyFields
<1>8. Still(v)
  BY <1>1, <1>7 DEF Still, Generational
<1>9. call' = call \/ call'.what # "preferences"
  BY <1>6, <1>7
<1>10. /\ \A f \in {"answer", "generation", "layout"} :
            persist'[v].inFlight[f] = persist[v].inFlight[f]
       /\ \A f \in {"answer", "staged", "generation", "layout"} : commit'[v][f] = commit[v][f]
  BY <1>7
<1> QED
  BY <1>1, <1>7, <1>8, <1>9, <1>10, ToldOn

\* A step that leaves a window and its call alone.
LEMMA Alone ==
  ASSUME StoreInv, TypeOK', World, NEW v \in opened,
         persist'[v] = persist[v], commit'[v] = commit[v], mem'[v] = mem[v],
         call' = call \/ call'.what # "preferences" \/ call'.answer # "ok" \/ call'.window # v
  PROVE  Told(v)'
<1>1. TypeOK /\ v \in Windows /\ Told(v)
  BY DEF StoreInv, QueueInv, IInv, TypeOK
<1>2. Still(v)
  BY DEF Still
<1> QED
  BY <1>1, <1>2, ToldOn

\* A new window has what is on disk.
LEMMA OpensTold ==
  ASSUME StoreInv, TypeOK', World, NEW w \in Windows, OpenWindow(w), NEW v \in opened'
  PROVE  Told(v)'
<1>1. /\ UNCHANGED <<persist, commit, call, disk, written>> /\ w \notin opened
      /\ opened' = opened \cup {w} /\ mem' = [mem EXCEPT ![w] = disk]
  BY DEF OpenWindow, UiKeeps, workerVars
<1>2. TypeOK /\ mem \in [Windows -> Config] /\ opened \subseteq Windows /\ disk \in Config
  BY DEF StoreInv, QueueInv, IInv, TypeOK
<1>3. CASE v # w
  <2>1. mem'[v] = mem[v] /\ v \in opened
    BY <1>1, <1>2, <1>3
  <2> QED
    BY <1>1, <2>1, Alone
<1>4. CASE v = w
  <2>1. Fresh(w) /\ mem'[w] = disk
    BY <1>1, <1>2 DEF StoreInv
  <2>2. /\ persist'[w] = FreshPersistence /\ commit'[w] = NoCommit
    BY <1>1, <2>1 DEF Fresh
  <2>3. PrefsStored(w)' /\ LayoutStored(w)'
    BY <1>1, <1>2, <2>1 DEF StoreInv, OnDisk, PrefsStored, LayoutStored, Counted
  <2>4. Advanced(w)' /\ SaveTold(w)'
    BY <2>2, <2>3 DEF Advanced, SaveTold, FreshPersistence, NoSave, Generational
  <2>5. CommitTold(w)'
    BY <1>2, <2>1, <2>2 DEF CommitTold, NoCommit, Blank, Counted
  <2>6. CallTold(w)'
    BY <1>1 DEF CallTold, OpenWindow, Free, NoCall
  <2> QED
    BY <1>4, <2>4, <2>5, <2>6 DEF Told
<1> QED
  BY <1>3, <1>4

\* A change by the user makes all answers old.
LEMMA EditsTold ==
  ASSUME StoreInv, TypeOK', World, NEW w \in Windows,
         EditPreference(w) \/ EditLayout(w) \/ RecordUsage(w), NEW v \in opened
  PROVE  Told(v)'
<1>1. TypeOK /\ v \in Windows /\ Told(v)
  BY DEF StoreInv, QueueInv, IInv, TypeOK
<1>2. /\ Free /\ UNCHANGED <<commit, call>>
      /\ v # w => persist'[v] = persist[v] /\ mem'[v] = mem[v]
      /\ persist'[w].generation = persist[w].generation + 1
      /\ \A f \in {"persisted", "persistedLayout", "inFlight"} : persist'[w][f] = persist[w][f]
      /\ \/ persist'[w].layoutGeneration = persist'[w].generation
         \/ /\ persist'[w].layoutGeneration = persist[w].layoutGeneration
            /\ mem'[w].layout = mem[w].layout
      /\ Counted(mem[w], mem'[w])
  BY <1>1, Edited
<1>3. CASE v # w
  BY <1>2, <1>3, Alone
<1>4. CASE v = w
  <2>1. /\ \A f \in Generational : persist[v][f] \in Nat
        /\ persist[v].inFlight.generation \in Nat /\ commit[v].generation \in Nat
        /\ commit[v].staged \in Config /\ mem[v] \in Config /\ mem'[v] \in Config
    BY <1>1, Numbers DEF TypeOK
  <2>2. \A f \in Generational : persist[v][f] <= persist[v].generation
    BY <1>1 DEF Told, Advanced
  <2>3. \A f \in Generational : persist'[v][f] <= persist'[v].generation
    BY <1>2, <1>4, <2>1, <2>2 DEF Generational
  <2>4. /\ ~(persist'[v].persisted >= persist'[v].generation)
        /\ persist'[v].layoutGeneration = persist'[v].generation =>
             ~(persist'[v].persistedLayout >= persist'[v].layoutGeneration)
    BY <1>2, <1>4, <2>1, <2>2 DEF Generational
  <2>5. mem'[v].layout = mem[v].layout /\ LayoutStored(v) => LayoutStored(v)'
    BY DEF LayoutStored, World
  <2>6. Advanced(v)'
    BY <1>1, <1>2, <1>4, <2>3, <2>4, <2>5 DEF Advanced, Told
  <2>7. SaveTold(v)'
    BY <1>1, <1>2, <1>4, <2>1, <2>5 DEF Told, SaveTold, Done, Generational
  <2>8. CommitTold(v)'
    <3>1. Counted(commit[v].staged, mem'[v])
      BY <1>1, <1>2, <1>4, <2>1, CountsGrow DEF Told, CommitTold
    <3>2. commit[v].answer # "idle" =>
            /\ commit[v].generation <= persist'[v].generation
            /\ commit[v].generation # persist'[v].generation
            /\ persist'[v].layoutGeneration <= commit[v].generation =>
                 /\ commit[v].staged.layout = mem'[v].layout
                 /\ mem'[v].layout = mem[v].layout
                 /\ persist[v].layoutGeneration <= commit[v].generation
      BY <1>1, <1>2, <1>4, <2>1 DEF Told, CommitTold, Generational
    <3>3. commit[v].answer = "ok" => Done(commit[v].generation, v, commit[v].layout)'
      BY <1>1, <1>2, <2>5, <3>2 DEF Told, CommitTold, Done
    <3> QED
      BY <1>2, <3>1, <3>2, <3>3 DEF CommitTold, Done
  <2>9. CallTold(v)'
    BY <1>2 DEF CallTold, Free, NoCall
  <2> QED
    BY <2>6, <2>7, <2>8, <2>9 DEF Told
<1> QED
  BY <1>3, <1>4

\* A window that takes the answer of its save advances by what is done.
LEMMA DrivesTold ==
  ASSUME StoreInv, TypeOK', World, NEW w \in Windows, NEW ready \in BOOLEAN, Drive(w, ready),
         NEW v \in opened
  PROVE  Told(v)'
<1>1. TypeOK /\ v \in Windows /\ Told(v)
  BY DEF StoreInv, QueueInv, IInv, TypeOK
<1>2. /\ Free /\ UNCHANGED <<mem, commit, call>> /\ (v # w => persist'[v] = persist[v])
  BY <1>1, Drives
<1>3. CASE v # w
  BY <1>2, <1>3, Alone
<1>4. CASE v = w
  <2>1. PICK q \in Persistence :
          /\ q = Polled(persist[w])
          /\ \A f \in Generational : persist'[w][f] = q[f]
          /\ \/ /\ queue' = queue /\ persist'[w] = q
             \/ /\ persist[w].inFlight.answer # "failed" /\ q.inFlight = NoSave
                /\ persist'[w].inFlight = [answer |-> "waiting", generation |-> q.generation,
                                           layout |-> LayoutRequired(q)]
    BY <1>1, Drives
  <2>2. persist[w] \in Persistence
    BY <1>1, Numbers
  <2>3. /\ \A f \in {"generation", "layoutGeneration"} : q[f] = persist[w][f]
        /\ persist[w].inFlight.answer = "ok" =>
             /\ q.persisted = Later(persist[w].persisted, persist[w].inFlight.generation)
             /\ q.persistedLayout = IF persist[w].inFlight.layout
                  THEN Later(persist[w].persistedLayout, persist[w].inFlight.generation)
                  ELSE persist[w].persistedLayout
        /\ persist[w].inFlight.answer # "ok" =>
             q.persisted = persist[w].persisted /\ q.persistedLayout = persist[w].persistedLayout
        /\ persist[w].inFlight.answer \in {"ok", "failed"} => q.inFlight = NoSave
        /\ persist[w].inFlight.answer \notin {"ok", "failed"} => q = persist[w]
    BY <2>1, <2>2, PolledFields
  <2>4. Still(w)
    BY <1>2, <2>1, <2>3 DEF Still, Generational
  <2>5. Advanced(w)'
    <3>1. CASE persist[w].inFlight.answer = "ok"
      <4>1. PICK n \in Nat, b \in BOOLEAN :
              n = persist[w].inFlight.generation /\ b = persist[w].inFlight.layout
        BY <1>1, Numbers
      <4>2. Done(n, w, b)
        BY <1>1, <1>4, <3>1, <4>1 DEF Told, SaveTold
      <4>3. /\ persist'[w].persisted = Later(persist[w].persisted, n)
            /\ persist'[w].persistedLayout = IF b THEN Later(persist[w].persistedLayout, n)
                                             ELSE persist[w].persistedLayout
        BY <2>1, <2>3, <3>1, <4>1 DEF Generational
      <4> QED
        BY <1>1, <1>4, <2>4, <4>2, <4>3, AdvancedOn DEF Told
    <3>2. CASE persist[w].inFlight.answer # "ok"
      <4>1. \A f \in Generational : persist'[w][f] = persist[w][f]
        BY <2>1, <2>3, <3>2 DEF Generational
      <4> QED
        BY <1>1, <1>4, <2>4, <4>1, AdvancedOn DEF Told
    <3> QED
      BY <3>1, <3>2
  <2>6. persist'[w].inFlight.answer # "ok"
    BY <2>1, <2>3 DEF NoSave
  <2>7. CommitTold(w)'
    BY <1>1, <1>2, <1>4, <2>4, CommitToldOn DEF Told
  <2>8. CallTold(w)'
    BY <1>2 DEF CallTold, Free, NoCall
  <2> QED
    BY <1>4, <2>5, <2>6, <2>7, <2>8 DEF Told, SaveTold
<1> QED
  BY <1>3, <1>4

\* What a commit stages is what the window has, and an entry more.
LEMMA StagedFields ==
  ASSUME TypeOK, NEW w \in Windows
  PROVE  /\ Staged(w) \in Config
         /\ \A f \in {"prefs", "layout", "usage"} : Staged(w)[f] = mem[w][f]
         /\ mem[w].catalog \subseteq Staged(w).catalog
<1>1. mem[w] \in Config /\ entries + 1 \in Nat
  BY DEF TypeOK
<1> DEFINE catalog == mem[w].catalog \cup {entries + 1}
<1>2. Staged(w) = [mem[w] EXCEPT !.catalog = catalog]
  BY DEF Staged
<1>3. mem[w].catalog \subseteq catalog
  OBVIOUS
<1> HIDE DEF catalog
<1>4. /\ Staged(w).catalog = catalog
      /\ \A f \in {"prefs", "layout", "usage"} : Staged(w)[f] = mem[w][f]
  BY <1>1, <1>2
<1> QED
  BY <1>3, <1>4, StagedIsConfig

\* A window that begins, completes or gives up a commit.
LEMMA CommitsTold ==
  ASSUME StoreInv, TypeOK', World, NEW w \in Windows, BeginCommit(w) \/ CommitTimesOut(w),
         NEW v \in opened
  PROVE  Told(v)'
<1>1. TypeOK /\ v \in Windows /\ Told(v) /\ commit \in [Windows -> Commit]
  BY DEF StoreInv, QueueInv, IInv, TypeOK
<1> DEFINE sent == [answer |-> "waiting", staged |-> Staged(w),
                    generation |-> persist[w].generation, layout |-> LayoutRequired(persist[w])]
<1>2. /\ Free /\ UNCHANGED <<mem, persist, call>>
      /\ \/ commit' = [commit EXCEPT ![w] = sent]
         \/ commit' = [commit EXCEPT ![w] = NoCommit]
  BY DEF BeginCommit, CommitTimesOut
<1>3. CASE v # w
  <2>1. commit'[v] = commit[v]
    BY <1>1, <1>2, <1>3
  <2> QED
    BY <1>2, <2>1, Alone
<1>4. CASE v = w
  <2>1. Still(w)
    BY <1>2 DEF Still
  <2>2. Advanced(w)' /\ SaveTold(w)'
    BY <1>1, <1>2, <1>4, <2>1, AdvancedOn, SaveToldOn DEF Told
  <2>3. CallTold(w)'
    BY <1>2 DEF CallTold, Free, NoCall
  <2>4. commit'[w].answer # "ok"
    BY <1>1, <1>2 DEF NoCommit
  <2>5. CommitTold(w)'
    <3>1. CASE commit' = [commit EXCEPT ![w] = sent]
      <4>1. commit'[w].staged = Staged(w) /\ commit'[w].generation = persist[w].generation
        BY <1>1, <3>1
      <4>2. mem[w] \in Config /\ persist[w].generation \in Nat
        BY <1>1, Numbers DEF Generational
      <4>3. Counted(commit'[w].staged, mem'[w]) /\ commit'[w].staged.layout = mem'[w].layout
        BY <1>1, <1>2, <4>1, <4>2, StagedFields DEF Counted
      <4> QED
        BY <1>2, <2>4, <4>1, <4>2, <4>3 DEF CommitTold
    <3>2. CASE commit' = [commit EXCEPT ![w] = NoCommit]
      <4>1. commit'[w].staged = Blank /\ commit'[w].answer = "idle"
        BY <1>1, <3>2 DEF NoCommit
      <4>2. mem[w] \in Config
        BY <1>1, Numbers
      <4>3. Counted(Blank, mem[w])
        BY <4>2 DEF Blank, Counted
      <4> QED
        BY <1>2, <4>1, <4>3 DEF CommitTold
    <3> QED
      BY <1>2, <3>1, <3>2
  <2> QED
    BY <1>4, <2>2, <2>3, <2>5 DEF Told
<1> QED
  BY <1>3, <1>4

\* The preferences, the layout and the counts of a window are the same when its
\* commit completes as they were before.
LEMMA FinishKeeps ==
  ASSUME StoreInv, NEW w \in Windows, FinishCommit(w)
  PROVE  Still(w) /\ w \in opened
<1>1. TypeOK /\ w \in opened
  BY DEF FinishCommit, StoreInv, QueueInv, IInv, TypeOK
<1>2. Told(w) /\ commit[w].answer \in {"ok", "failed"}
  BY <1>1, Finishes DEF StoreInv
<1>3. CASE commit[w].answer = "failed"
  BY <1>1, <1>3, Finishes DEF Still
<1>4. CASE commit[w].answer = "ok"
  <2>1. /\ \A f \in {"generation", "layoutGeneration"} : persist'[w][f] = persist[w][f]
        /\ mem'[w].prefs = mem[w].prefs
        /\ mem'[w].usage = MergedUsage(mem[w].usage, commit[w].staged.usage)
        /\ mem'[w].layout = IF persist[w].layoutGeneration > commit[w].generation
             THEN mem[w].layout ELSE commit[w].staged.layout
    BY <1>1, <1>4, Finishes
  <2>2. /\ persist[w].layoutGeneration \in Nat /\ commit[w].generation \in Nat
        /\ mem[w].usage \in [Windows -> Nat] /\ commit[w].staged.usage \in [Windows -> Nat]
    BY <1>1, Numbers DEF Generational
  <2>3. mem'[w].layout = mem[w].layout
    BY <1>2, <1>4, <2>1, <2>2 DEF Told, CommitTold
  <2>4. \A u \in Windows : mem[w].usage[u] >= commit[w].staged.usage[u]
    BY <1>2 DEF Told, CommitTold, Counted
  <2>5. mem'[w].usage = mem[w].usage
    BY <2>1, <2>2, <2>4 DEF MergedUsage
  <2> QED
    BY <1>1, <2>1, <2>3, <2>5 DEF Still
<1> QED
  BY <1>2, <1>3, <1>4

\* A window that takes the answer of its commit advances by what is done.
LEMMA FinishTold ==
  ASSUME StoreInv, TypeOK', World, NEW w \in Windows, FinishCommit(w), NEW v \in opened
  PROVE  Told(v)'
<1>1. TypeOK /\ v \in Windows /\ Told(v)
  BY DEF StoreInv, QueueInv, IInv, TypeOK
<1>2. /\ Free /\ UNCHANGED call /\ commit'[w] = NoCommit /\ commit[w].answer \in {"ok", "failed"}
      /\ v # w => commit'[v] = commit[v] /\ persist'[v] = persist[v] /\ mem'[v] = mem[v]
  BY <1>1, Finishes
<1>3. CASE v # w
  BY <1>2, <1>3, Alone
<1>4. CASE v = w
  <2>1. Still(w)
    BY FinishKeeps
  <2>2. Advanced(w)' /\ persist'[w].inFlight = persist[w].inFlight
    <3>1. CASE commit[w].answer = "failed"
      <4>1. persist' = persist
        BY <1>1, <3>1, Finishes
      <4> QED
        BY <1>1, <1>4, <2>1, <4>1, AdvancedOn DEF Told
    <3>2. CASE commit[w].answer = "ok"
      <4>1. PICK n \in Nat, b \in BOOLEAN : n = commit[w].generation /\ b = commit[w].layout
        BY <1>1, Numbers
      <4>2. Done(n, w, b)
        BY <1>1, <1>4, <3>2, <4>1 DEF Told, CommitTold
      <4>3. /\ persist'[w].persisted = Later(persist[w].persisted, n)
            /\ persist'[w].persistedLayout = IF b THEN Later(persist[w].persistedLayout, n)
                                             ELSE persist[w].persistedLayout
            /\ persist'[w].inFlight = persist[w].inFlight
        BY <1>1, <3>2, <4>1, Finishes
      <4> QED
        BY <1>1, <1>4, <2>1, <4>2, <4>3, AdvancedOn DEF Told
    <3> QED
      BY <1>2, <3>1, <3>2
  <2>3. SaveTold(w)'
    BY <1>1, <1>4, <2>1, <2>2, SaveToldOn DEF Told
  <2>4. CommitTold(w)'
    <3>1. mem'[w] \in Config
      BY DEF TypeOK
    <3>2. Counted(Blank, mem'[w])
      BY <3>1 DEF Blank, Counted
    <3> QED
      BY <1>2, <3>2 DEF CommitTold, NoCommit
  <2>5. CallTold(w)'
    BY <1>2 DEF CallTold, Free, NoCall
  <2> QED
    BY <1>4, <2>2, <2>3, <2>4, <2>5 DEF Told
<1> QED
  BY <1>3, <1>4

\* The steps of blocking calls up to the answer tell a window nothing.
LEMMA AsksTold ==
  ASSUME StoreInv, TypeOK', World, NEW w \in Windows, NEW v \in opened,
         BeginEdit(w) \/ BeginClose(w) \/ ClosePreferences(w) \/ CloseLayout(w) \/ CloseRelease(w)
  PROVE  Told(v)'
<1>1. TypeOK
  BY DEF StoreInv, QueueInv, IInv
<1>2. UNCHANGED <<mem, persist, commit>> /\ call'.answer # "ok"
  <2>1. CASE BeginEdit(w)
    BY <1>1, <2>1, EditBegins DEF Made
  <2>2. CASE BeginClose(w)
    BY <2>2, CloseBegins
  <2>3. CASE ClosePreferences(w)
    BY <1>1, <2>3, PreferencesAsked DEF Made
  <2>4. CASE CloseLayout(w)
    BY <1>1, <2>4, LayoutAsked DEF Made
  <2>5. CASE CloseRelease(w)
    BY <2>5, ReleaseAsked DEF Made
  <2> QED
    BY <2>1, <2>2, <2>3, <2>4, <2>5
<1> QED
  BY <1>2, Alone

\* What the end of a call does to its window.
LEMMA Returns ==
  ASSUME TypeOK, CallReturns
  PROVE  /\ call.window \in Windows /\ call.answer = "ok" /\ UNCHANGED queue
         /\ \A v \in Windows :
              v # call.window => persist'[v] = persist[v] /\ mem'[v] = mem[v]
         /\ call.what = "edit" =>
              /\ persist' = persist /\ mem'[call.window] = call.config
              /\ acked' = acked \cup (call.config.catalog \ mem[call.window].catalog)
         /\ call.what # "edit" => mem' = mem /\ acked' = acked
         /\ call.what = "preferences" =>
              /\ \A f \in {"generation", "layoutGeneration", "inFlight"} :
                   persist'[call.window][f] = persist[call.window][f]
              /\ persist'[call.window].persisted =
                   Later(persist[call.window].persisted, persist[call.window].generation)
              /\ persist'[call.window].persistedLayout =
                   IF LayoutRequired(persist[call.window])
                   THEN Later(persist[call.window].persistedLayout, persist[call.window].generation)
                   ELSE persist[call.window].persistedLayout
         /\ call.what # "preferences" => persist' = persist
<1> DEFINE w == call.window
           p == persist[w]
           saved == MarkSaved(p, p.generation, LayoutRequired(p))
<1>1. w \in Windows
  BY CallEnds
<1>2. /\ call.answer = "ok" /\ UNCHANGED queue
      /\ mem' = IF call.what = "edit" THEN [mem EXCEPT ![w] = call.config] ELSE mem
      /\ acked' = IF call.what = "edit" THEN acked \cup (call.config.catalog \ mem[w].catalog)
                  ELSE acked
      /\ persist' = IF call.what = "preferences" THEN [persist EXCEPT ![w] = saved] ELSE persist
  BY DEF CallReturns
<1>3. /\ mem \in [Windows -> Config] /\ persist \in [Windows -> Persistence]
  BY DEF TypeOK
<1>4. p \in Persistence /\ p.generation \in Nat /\ LayoutRequired(p) \in BOOLEAN
  BY <1>1, <1>3, Numbers DEF Generational, LayoutRequired
<1>5. /\ \A f \in {"generation", "layoutGeneration", "inFlight"} : saved[f] = p[f]
      /\ saved.persisted = Later(p.persisted, p.generation)
      /\ saved.persistedLayout = IF LayoutRequired(p) THEN Later(p.persistedLayout, p.generation)
                                 ELSE p.persistedLayout
  BY <1>4, MarkSavedFields
<1> HIDE DEF w, p, saved
<1>6. /\ \A v \in Windows : v # w => persist'[v] = persist[v] /\ mem'[v] = mem[v]
      /\ call.what = "edit" => mem'[w] = call.config
      /\ call.what = "preferences" => persist'[w] = saved
  BY <1>1, <1>2, <1>3
<1> QED
  BY <1>1, <1>2, <1>5, <1>6 DEF w, p

\* Its generations, its preferences, its layout and its counts are as before.
LEMMA ReturnKeeps ==
  ASSUME StoreInv, CallReturns
  PROVE  Still(call.window)
<1>1. TypeOK /\ EditKeeps
  BY DEF StoreInv, QueueInv, IInv
<1>2. CASE call.what = "edit"
  <2>1. persist' = persist /\ mem'[call.window] = call.config
    BY <1>1, <1>2, Returns
  <2>2. \A f \in {"prefs", "layout", "usage"} : call.config[f] = mem[call.window][f]
    BY <1>1, <1>2 DEF EditKeeps
  <2> QED
    BY <2>1, <2>2 DEF Still
<1>3. CASE call.what = "preferences"
  BY <1>1, <1>3, Returns DEF Still
<1>4. CASE call.what \notin {"edit", "preferences"}
  BY <1>1, <1>4, Returns DEF Still
<1> QED
  BY <1>2, <1>3, <1>4

\* The last save of a close advances its window by what is done.
LEMMA ReturnsTold ==
  ASSUME StoreInv, TypeOK', World, CallReturns, NEW v \in opened
  PROVE  Told(v)'
<1>1. TypeOK /\ v \in Windows /\ Told(v)
  BY DEF StoreInv, QueueInv, IInv, TypeOK
<1> DEFINE w == call.window
<1>2. /\ w \in Windows /\ call.answer = "ok" /\ UNCHANGED commit
      /\ call'.what # "preferences" \/ call'.answer # "ok"
  BY <1>1, CallEnds DEF CallReturns, Due, NoCall
<1>3. CASE v # w
  <2>1. persist'[v] = persist[v] /\ mem'[v] = mem[v]
    BY <1>1, <1>3, Returns
  <2> QED
    BY <1>2, <2>1, Alone
<1>4. CASE v = w
  <2>1. Still(v)
    BY <1>4, ReturnKeeps
  <2>2. Advanced(v)' /\ persist'[v].inFlight = persist[v].inFlight
    <3>1. CASE call.what # "preferences"
      <4>1. persist' = persist
        BY <1>1, <3>1, Returns
      <4> QED
        BY <1>1, <2>1, <4>1, AdvancedOn DEF Told
    <3>2. CASE call.what = "preferences"
      <4>1. PICK n \in Nat, b \in BOOLEAN :
              n = persist[v].generation /\ b = LayoutRequired(persist[v])
        <5>1. persist[v].generation \in Nat /\ LayoutRequired(persist[v]) \in BOOLEAN
          BY <1>1, Numbers DEF Generational, LayoutRequired
        <5> QED
          BY <5>1
      <4>2. Done(n, v, b)
        BY <1>1, <1>2, <1>4, <3>2, <4>1 DEF Told, CallTold
      <4>3. /\ persist'[v].persisted = Later(persist[v].persisted, n)
            /\ persist'[v].persistedLayout = IF b THEN Later(persist[v].persistedLayout, n)
                                             ELSE persist[v].persistedLayout
            /\ persist'[v].inFlight = persist[v].inFlight
        BY <1>1, <1>4, <3>2, <4>1, Returns
      <4> QED
        BY <1>1, <2>1, <4>2, <4>3, AdvancedOn DEF Told
    <3> QED
      BY <3>1, <3>2
  <2>3. SaveTold(v)'
    BY <1>1, <2>1, <2>2, SaveToldOn DEF Told
  <2>4. CommitTold(v)'
    BY <1>1, <1>2, <2>1, CommitToldOn DEF Told
  <2>5. CallTold(v)'
    BY <1>2 DEF CallTold
  <2> QED
    BY <2>2, <2>3, <2>4, <2>5 DEF Told
<1> QED
  BY <1>3, <1>4

\* Every step tells every window the truth.
LEMMA ToldStep ==
  ASSUME StoreInv, [Next]_vars
  PROVE  \A v \in Windows : IF v \in opened' THEN Told(v)' ELSE Fresh(v)'
<1>1. IInv /\ TypeOK /\ TypeOK' /\ World
  <2>1. IInv /\ IInv'
    BY QueueInductive DEF StoreInv, QueueInv
  <2> QED
    BY <2>1, WorldStep DEF IInv
<1>2. opened \subseteq opened'
  <2>1. CASE WorkerSaves \/ WorkerReports
    BY <1>1, <2>1, HeadAnswered
  <2>2. ASSUME NEW w \in Windows, Handler(w) PROVE opened \subseteq opened'
    BY <2>2 DEF Handler, OpenWindow, EditPreference, EditLayout, RecordUsage, Drive, BeginCommit,
                FinishCommit, CommitTimesOut, BeginEdit, BeginClose, ClosePreferences, CloseLayout,
                CloseRelease, windowVars
  <2>3. CASE CallReturns \/ CallFails \/ OutsideWrite \/ UNCHANGED vars
    BY <2>3 DEF CallReturns, CallFails, OutsideWrite, vars, windowVars
  <2> QED
    BY <2>1, <2>2, <2>3 DEF Next
<1>3. ASSUME NEW v \in opened' PROVE Told(v)'
  <2>1. CASE v \notin opened
    <3>1. PICK w \in Windows : OpenWindow(w)
      <4>1. CASE WorkerSaves \/ WorkerReports
        BY <1>1, <2>1, <4>1, HeadAnswered
      <4>2. ASSUME NEW w \in Windows, Handler(w), ~OpenWindow(w) PROVE FALSE
        BY <2>1, <4>2 DEF Handler, EditPreference, EditLayout, RecordUsage, Drive, BeginCommit,
                FinishCommit, CommitTimesOut, BeginEdit, BeginClose, ClosePreferences, CloseLayout,
                CloseRelease, windowVars
      <4>3. CASE CallReturns \/ CallFails \/ OutsideWrite \/ UNCHANGED vars
        BY <2>1, <4>3 DEF CallReturns, CallFails, OutsideWrite, vars, windowVars
      <4> QED
        BY <4>1, <4>2, <4>3 DEF Next
    <3> QED
      BY <1>1, <3>1, OpensTold
  <2>2. CASE v \in opened
    <3>1. CASE WorkerSaves
      BY <1>1, <2>2, <3>1, SavesTold
    <3>2. CASE WorkerReports
      BY <1>1, <2>2, <3>2, ReportsTold
    <3>3. ASSUME NEW w \in Windows, Handler(w) PROVE Told(v)'
      <4>1. CASE OpenWindow(w)
        BY <1>1, <4>1, OpensTold
      <4>2. CASE EditPreference(w) \/ EditLayout(w) \/ RecordUsage(w)
        BY <1>1, <2>2, <4>2, EditsTold
      <4>3. CASE \E ready \in BOOLEAN : Drive(w, ready)
        BY <1>1, <2>2, <4>3, DrivesTold
      <4>4. CASE BeginCommit(w) \/ CommitTimesOut(w)
        BY <1>1, <2>2, <4>4, CommitsTold
      <4>5. CASE FinishCommit(w)
        BY <1>1, <2>2, <4>5, FinishTold
      <4>6. CASE \/ BeginEdit(w) \/ BeginClose(w) \/ ClosePreferences(w) \/ CloseLayout(w)
                 \/ CloseRelease(w)
        BY <1>1, <2>2, <4>6, AsksTold
      <4> QED
        BY <3>3, <4>1, <4>2, <4>3, <4>4, <4>5, <4>6 DEF Handler
    <3>4. CASE CallReturns
      BY <1>1, <2>2, <3>4, ReturnsTold
    <3>5. CASE CallFails
      <4>1. call'.answer # "ok" \/ call'.what = "none"
        BY <1>1, <3>5, CallEnds DEF CallFails, windowVars, Due, NoCall
      <4>2. UNCHANGED <<persist, commit, mem>>
        BY <3>5 DEF CallFails, windowVars
      <4> QED
        BY <1>1, <2>2, <4>1, <4>2, Alone
    <3>6. CASE OutsideWrite \/ UNCHANGED vars
      <4>1. UNCHANGED <<persist, commit, mem, call>>
        BY <3>6 DEF OutsideWrite, vars, windowVars
      <4> QED
        BY <1>1, <2>2, <4>1, Alone
    <3> QED
      BY <3>1, <3>2, <3>3, <3>4, <3>5, <3>6 DEF Next
  <2> QED
    BY <2>1, <2>2
<1>4. ASSUME NEW v \in Windows, v \notin opened' PROVE Fresh(v)'
  BY <1>2, <1>4, FreshStep
<1> QED
  BY <1>3, <1>4

\* Every step leaves the generations and the configuration of a window as they
\* are, or changes them under a new generation.
LEMMA ViewStep ==
  ASSUME StoreInv, [Next]_vars, NEW v \in opened
  PROVE  Still(v) \/ Touched(v)
<1>1. TypeOK /\ v \in Windows
  BY DEF StoreInv, QueueInv, IInv, TypeOK
<1>2. CASE WorkerSaves \/ WorkerReports
  <2>1. queue[1] \in Request /\ UNCHANGED mem
    BY <1>1, <1>2, HeadAnswered
  <2>2. PICK answer \in {"ok", "failed"} : Reply(queue[1], answer)
    BY <1>1, <1>2, HeadAnswered
  <2> QED
    BY <1>1, <2>1, <2>2, ReplyFields DEF Still, Generational
<1>3. ASSUME NEW w \in Windows, Handler(w) PROVE Still(v) \/ Touched(v)
  <2>1. CASE OpenWindow(w)
    <3>1. mem \in [Windows -> Config]
      BY <1>1 DEF TypeOK
    <3> QED
      BY <1>1, <2>1, <3>1 DEF OpenWindow, Still
  <2>2. CASE EditPreference(w) \/ EditLayout(w) \/ RecordUsage(w)
    BY <1>1, <2>2, Edited DEF Still, Touched
  <2>3. ASSUME NEW ready \in BOOLEAN, Drive(w, ready) PROVE Still(v)
    <3>1. UNCHANGED mem /\ (v # w => persist'[v] = persist[v])
      BY <1>1, <2>3, Drives
    <3>2. PICK q \in Persistence :
            q = Polled(persist[w]) /\ \A f \in Generational : persist'[w][f] = q[f]
      BY <1>1, <2>3, Drives
    <3>3. persist[w] \in Persistence
      BY <1>1, Numbers
    <3>4. \A f \in {"generation", "layoutGeneration"} : q[f] = persist[w][f]
      BY <3>2, <3>3, PolledFields
    <3> QED
      BY <3>1, <3>2, <3>4 DEF Still, Generational
  <2>4. CASE FinishCommit(w)
    <3>1. v # w => persist'[v] = persist[v] /\ mem'[v] = mem[v]
      BY <1>1, <2>4, Finishes
    <3> QED
      BY <2>4, <3>1, FinishKeeps DEF Still
  <2>5. CASE ~(\/ OpenWindow(w) \/ EditPreference(w) \/ EditLayout(w) \/ RecordUsage(w)
               \/ (\E ready \in BOOLEAN : Drive(w, ready)) \/ FinishCommit(w))
    BY <1>3, <2>5 DEF Handler, BeginCommit, CommitTimesOut, BeginEdit, BeginClose,
                      ClosePreferences, CloseLayout, CloseRelease, windowVars, Still
  <2> QED
    BY <2>1, <2>2, <2>3, <2>4, <2>5
<1>4. CASE CallReturns
  <2>1. v # call.window => persist'[v] = persist[v] /\ mem'[v] = mem[v]
    BY <1>1, <1>4, Returns
  <2> QED
    BY <1>4, <2>1, ReturnKeeps DEF Still
<1>5. CASE CallFails \/ OutsideWrite \/ UNCHANGED vars
  BY <1>5 DEF CallFails, OutsideWrite, vars, windowVars, Still
<1> QED
  BY <1>2, <1>3, <1>4, <1>5 DEF Next

\* While a window waits for its save, what it has sent stays the same.
LEMMA SaveHeld ==
  ASSUME StoreInv, [Next]_vars, NEW v \in Windows, Awaited("save", v)
  PROVE  \A f \in {"generation", "layout"} : persist'[v].inFlight[f] = persist[v].inFlight[f]
<1>1. TypeOK /\ persist[v].inFlight.answer = "waiting"
  BY Waiting DEF StoreInv, QueueInv, IInv, TypeOK
<1>2. CASE WorkerSaves \/ WorkerReports
  <2>1. queue[1] \in Request
    BY <1>1, <1>2, HeadAnswered
  <2>2. PICK answer \in {"ok", "failed"} : Reply(queue[1], answer)
    BY <1>1, <1>2, HeadAnswered
  <2> QED
    BY <1>1, <2>1, <2>2, ReplyFields
<1>3. ASSUME NEW w \in Windows, Handler(w)
      PROVE  persist'[v].inFlight = persist[v].inFlight
  <2>1. CASE EditPreference(w) \/ EditLayout(w) \/ RecordUsage(w)
    BY <1>1, <2>1, Edited
  <2>2. ASSUME NEW ready \in BOOLEAN, Drive(w, ready)
        PROVE  persist'[v].inFlight = persist[v].inFlight
    <3>1. v # w => persist'[v] = persist[v]
      BY <1>1, <2>2, Drives
    <3>2. PICK q \in Persistence :
            q = Polled(persist[w]) /\ (persist'[w] = q \/ q.inFlight = NoSave)
      BY <1>1, <2>2, Drives
    <3>3. persist[w] \in Persistence
      BY <1>1, Numbers
    <3>4. v = w => q = persist[w]
      BY <1>1, <3>2, <3>3, PolledFields
    <3> QED
      BY <1>1, <3>1, <3>2, <3>4 DEF NoSave
  <2>3. CASE FinishCommit(w)
    <3>1. v # w => persist'[v] = persist[v]
      BY <1>1, <2>3, Finishes
    <3>2. persist'[w].inFlight = persist[w].inFlight
      BY <1>1, <2>3, Finishes
    <3> QED
      BY <3>1, <3>2
  <2>4. CASE ~(\/ EditPreference(w) \/ EditLayout(w) \/ RecordUsage(w)
               \/ (\E ready \in BOOLEAN : Drive(w, ready)) \/ FinishCommit(w))
    BY <1>3, <2>4 DEF Handler, OpenWindow, BeginCommit, CommitTimesOut, BeginEdit, BeginClose,
                      ClosePreferences, CloseLayout, CloseRelease, windowVars
  <2> QED
    BY <2>1, <2>2, <2>3, <2>4
<1>4. CASE CallReturns
  <2>1. v # call.window => persist'[v] = persist[v]
    BY <1>1, <1>4, Returns
  <2>2. persist'[call.window].inFlight = persist[call.window].inFlight
    BY <1>1, <1>4, Returns
  <2> QED
    BY <2>1, <2>2
<1>5. CASE CallFails \/ OutsideWrite \/ UNCHANGED vars
  BY <1>5 DEF CallFails, OutsideWrite, vars, windowVars
<1> QED
  BY <1>2, <1>3, <1>4, <1>5 DEF Next

\* While a window goes on waiting for its commit, what it has staged stays the
\* same.
LEMMA CommitHeld ==
  ASSUME StoreInv, [Next]_vars, NEW v \in Windows, Awaited("commit", v), Awaited("commit", v)'
  PROVE  \A f \in {"staged", "generation"} : commit'[v][f] = commit[v][f]
<1>1. /\ TypeOK /\ commit[v].answer = "waiting" /\ commit \in [Windows -> Commit]
      /\ commit'[v].answer = "waiting"
  BY Waiting DEF StoreInv, QueueInv, IInv, TypeOK
<1>2. CASE WorkerSaves \/ WorkerReports
  <2>1. queue[1] \in Request
    BY <1>1, <1>2, HeadAnswered
  <2>2. PICK answer \in {"ok", "failed"} : Reply(queue[1], answer)
    BY <1>1, <1>2, HeadAnswered
  <2> QED
    BY <1>1, <2>1, <2>2, ReplyFields
<1>3. ASSUME NEW w \in Windows, Handler(w) PROVE commit'[v] = commit[v]
  <2>1. CASE BeginCommit(w)
    <3>1. w # v
      BY <1>1, <2>1 DEF BeginCommit, NoCommit
    <3> QED
      BY <1>1, <2>1, <3>1 DEF BeginCommit
  <2>2. CASE FinishCommit(w)
    BY <1>1, <2>2, Finishes
  <2>3. CASE CommitTimesOut(w)
    <3>1. w # v
      BY <1>1, <2>3 DEF CommitTimesOut, NoCommit
    <3> QED
      BY <1>1, <2>3, <3>1 DEF CommitTimesOut
  <2>4. CASE ~(BeginCommit(w) \/ FinishCommit(w) \/ CommitTimesOut(w))
    BY <1>3, <2>4 DEF Handler, OpenWindow, EditPreference, EditLayout, RecordUsage, Drive,
                      BeginEdit, BeginClose, ClosePreferences, CloseLayout, CloseRelease, windowVars
  <2> QED
    BY <2>1, <2>2, <2>3, <2>4
<1>4. CASE CallReturns \/ CallFails \/ OutsideWrite \/ UNCHANGED vars
  BY <1>4 DEF CallReturns, CallFails, OutsideWrite, vars, windowVars
<1> QED
  BY <1>2, <1>3, <1>4 DEF Next

\* While the user interface waits, no window changes its generations.
LEMMA CallHeld ==
  ASSUME StoreInv, [Next]_vars, NEW v \in Windows, call.answer = "waiting"
  PROVE  \A f \in Generational : persist'[v][f] = persist[v][f]
<1>1. TypeOK
  BY DEF StoreInv, QueueInv, IInv
<1>2. CASE WorkerSaves \/ WorkerReports
  <2>1. queue[1] \in Request
    BY <1>1, <1>2, HeadAnswered
  <2>2. PICK answer \in {"ok", "failed"} : Reply(queue[1], answer)
    BY <1>1, <1>2, HeadAnswered
  <2> QED
    BY <1>1, <2>1, <2>2, ReplyFields
<1>3. ASSUME NEW w \in Windows, Handler(w) PROVE FALSE
  <2>1. call = NoCall \/ \E what \in {"preferences", "layout", "release"} : call = Due(what, w)
    BY <1>3 DEF Handler, OpenWindow, EditPreference, EditLayout, RecordUsage, Drive, BeginCommit,
                FinishCommit, CommitTimesOut, BeginEdit, BeginClose, ClosePreferences, CloseLayout,
                CloseRelease, Free
  <2> QED
    BY <2>1 DEF NoCall, Due
<1>4. CASE CallReturns
  BY <1>4 DEF CallReturns
<1>5. CASE CallFails \/ OutsideWrite \/ UNCHANGED vars
  BY <1>5 DEF CallFails, OutsideWrite, vars, windowVars
<1> QED
  BY <1>2, <1>3, <1>4, <1>5 DEF Next

\* A request that waits in the queue fits its window as before.
LEMMA AptOld ==
  ASSUME StoreInv, [Next]_vars, NEW j \in Indices, NEW i \in Indices',
         NEW s \in Request, s = queue'[i],
         s.window = queue[j].window, s.config = queue[j].config, s.layout = queue[j].layout,
         s.to = queue[j].to \/ s.to = "nobody",
         s.to = "call" /\ call'.what = "preferences" => call.what = "preferences"
  PROVE  Apt(s)'
<1> SUFFICES ASSUME s.to = queue[j].to, s.to \in Channels PROVE Apt(s)'
  BY DEF Apt, Channels
<1> DEFINE v == s.window
<1>1. /\ TypeOK /\ Apt(queue[j]) /\ v \in Windows /\ s.config \in Config
      /\ Receipts /\ Sound(queue[j])
  BY DEF StoreInv, QueueInv, IInv, Request, Requests
<1>2. v \in opened
  BY <1>1 DEF Sound
<1>3. Still(v) \/ Touched(v)
  BY <1>2, ViewStep
<1>4. Carries(j, v, s.to)
  BY DEF Carries
<1>5. Awaited(s.to, v) /\ Awaited(s.to, v)'
  <2>1. Receipts'
    BY QueueInductive DEF StoreInv, QueueInv
  <2>2. Carries(i, v, s.to)'
    BY DEF Carries
  <2> QED
    BY <1>1, <1>4, <2>1, <2>2 DEF Receipts, Receipt
<1>6. CASE s.to = "save"
  <2>1. PICK n \in Nat : n = persist[v].inFlight.generation
    BY <1>1, Numbers
  <2>2. Fits(s.config, v, n) /\ s.layout = persist[v].inFlight.layout
    BY <1>1, <1>6, <2>1 DEF Apt
  <2>3. Fits(s.config, v, n)'
    BY <1>1, <1>3, <2>2, FitsOn
  <2>4. persist'[v].inFlight.generation = n /\ persist'[v].inFlight.layout = s.layout
    BY <1>1, <1>5, <1>6, <2>1, <2>2, SaveHeld
  <2> QED
    BY <1>6, <2>3, <2>4 DEF Apt, Fits
<1>7. CASE s.to = "commit"
  <2>1. PICK n \in Nat : n = commit[v].generation
    BY <1>1, Numbers
  <2>2. Fits(s.config, v, n) /\ s.config = commit[v].staged
    BY <1>1, <1>7, <2>1 DEF Apt
  <2>3. Fits(s.config, v, n)'
    BY <1>1, <1>3, <2>2, FitsOn
  <2>4. commit'[v].generation = n /\ commit'[v].staged = s.config
    BY <1>1, <1>5, <1>7, <2>1, <2>2, CommitHeld
  <2> QED
    BY <1>7, <2>3, <2>4 DEF Apt, Fits
<1>8. CASE s.to = "call"
  <2> SUFFICES ASSUME call'.what = "preferences" PROVE Apt(s)'
    BY <1>8 DEF Apt
  <2>1. PICK n \in Nat : n = persist[v].generation
    BY <1>1, Numbers DEF Generational
  <2>2. Fits(s.config, v, n) /\ s.layout = LayoutRequired(persist[v])
    BY <1>1, <1>8, <2>1 DEF Apt
  <2>3. Fits(s.config, v, n)'
    BY <1>1, <1>3, <2>2, FitsOn
  <2>4. call.answer = "waiting"
    BY <1>1, <1>5, <1>8, Waiting
  <2>5. persist'[v].generation = n /\ LayoutRequired(persist'[v]) = s.layout
    BY <1>1, <2>1, <2>2, <2>4, CallHeld DEF Generational, LayoutRequired
  <2> QED
    BY <1>8, <2>3, <2>5 DEF Apt, Fits
<1> QED
  BY <1>6, <1>7, <1>8 DEF Channels

\* What a window sends fits it.
LEMMA FitsItself ==
  ASSUME TypeOK', NEW w \in Windows, NEW config \in Config,
         \A f \in {"prefs", "layout", "usage"} : config[f] = mem'[w][f]
  PROVE  \A n : n = persist'[w].generation => Fits(config, w, n)'
<1>1. /\ mem'[w] \in Config /\ persist'[w] \in Persistence
  BY DEF TypeOK
<1>2. /\ persist'[w].generation \in Nat
  BY <1>1 DEF Persistence
<1>3. Counted(mem'[w], config)
  BY <1>1 DEF Counted
<1> QED
  BY <1>2, <1>3 DEF Fits, Counted

\* Every step keeps the requests fitting.
LEMMA AptStep ==
  ASSUME StoreInv, [Next]_vars
  PROVE  \A i \in Indices' : Apt(queue[i])'
<1>1. TypeOK /\ TypeOK' /\ queue \in Seq(Request) /\ queue' \in Seq(Request)
  <2>1. IInv /\ IInv'
    BY QueueInductive DEF StoreInv, QueueInv
  <2> QED
    BY <2>1 DEF IInv, TypeOK
<1> SUFFICES ASSUME NEW i \in Indices', NEW s \in Request, s = queue'[i]
             PROVE  Apt(s)'
  <2>1. \A i \in Indices' : queue'[i] \in Request
    BY <1>1 DEF Indices
  <2> QED
    BY <2>1 DEF Apt
<1>2. ASSUME UNCHANGED queue,
             s.to = "call" /\ call'.what = "preferences" => call.what = "preferences"
      PROVE  Apt(s)'
  <2>1. i \in Indices /\ s = queue[i]
    BY <1>2 DEF Indices
  <2> QED
    BY <1>2, <2>1, AptOld
<1>3. ASSUME NEW r \in Request, queue' = Append(queue, r), Apt(r)', call.answer # "waiting"
      PROVE  Apt(s)'
  <2>1. PICK last \in Nat : /\ Indices' = Indices \cup {last} /\ queue'[last] = r
                            /\ \A j \in Indices : queue'[j] = queue[j]
    BY <1>1, <1>3, Grown
  <2>2. CASE i = last
    BY <1>3, <2>1, <2>2
  <2>3. CASE i # last
    <3>1. i \in Indices /\ s = queue[i] /\ s.window \in Windows
      BY <2>1, <2>3 DEF Request
    <3>2. s.to # "call"
      BY <1>1, <1>3, <3>1, Callers DEF StoreInv, QueueInv
    <3> QED
      BY <1>3, <3>1, <3>2, AptOld
  <2> QED
    BY <2>2, <2>3
<1>4. s.window \in Windows
  BY DEF Request
<1>5. CASE WorkerSaves \/ WorkerReports
  <2>1. /\ queue # <<>> /\ queue' = Tail(queue) /\ queue[1] \in Request
    BY <1>1, <1>5, HeadAnswered
  <2>2. PICK answer \in {"ok", "failed"} : Reply(queue[1], answer)
    BY <1>1, <1>5, HeadAnswered
  <2>3. call'.what = call.what
    BY <1>1, <2>1, <2>2, ReplyFields
  <2>4. i + 1 \in Indices /\ s = queue[i + 1]
    BY <1>1, <2>1, Shrunk
  <2> QED
    BY <2>3, <2>4, AptOld
<1>6. ASSUME NEW w \in Windows, Handler(w) PROVE Apt(s)'
  <2>1. CASE OpenWindow(w) \/ EditPreference(w) \/ EditLayout(w) \/ RecordUsage(w) \/ FinishCommit(w)
    <3>1. UNCHANGED <<queue, call>>
      BY <2>1 DEF OpenWindow, EditPreference, EditLayout, RecordUsage, FinishCommit
    <3> QED
      BY <1>2, <3>1
  <2>2. ASSUME NEW ready \in BOOLEAN, Drive(w, ready) PROVE Apt(s)'
    <3>1. /\ Free /\ UNCHANGED <<call, mem>>
      BY <1>1, <2>2, Drives
    <3>2. CASE queue' = queue
      BY <1>2, <3>1, <3>2
    <3>3. CASE queue' # queue
      <4>1. PICK q \in Persistence :
              /\ \A f \in Generational : persist'[w][f] = q[f]
              /\ persist'[w].inFlight = [answer |-> "waiting", generation |-> q.generation,
                                         layout |-> LayoutRequired(q)]
              /\ queue' = Append(queue, Asked("preferences", w, "save", mem[w], LayoutRequired(q)))
        BY <1>1, <2>2, <3>3, Drives
      <4>2. mem[w] \in Config /\ LayoutRequired(q) \in BOOLEAN
        BY <1>1, Numbers DEF LayoutRequired
      <4>3. Asked("preferences", w, "save", mem[w], LayoutRequired(q)) \in Request
        BY <4>2, NewRequests
      <4>4. PICK r \in Request :
              /\ queue' = Append(queue, r) /\ r.window = w /\ r.to = "save"
              /\ r.config = mem[w] /\ r.layout = LayoutRequired(q)
        BY <4>1, <4>3 DEF Asked
      <4>5. PICK n : n = persist'[w].generation
        OBVIOUS
      <4>6. persist'[w].inFlight.generation = n /\ r.layout = persist'[w].inFlight.layout
        BY <4>1, <4>4, <4>5 DEF Generational
      <4>7. Fits(r.config, w, n)'
        <5>1. r.config \in Config /\ r.config = mem'[w]
          BY <3>1, <4>2, <4>4
        <5> QED
          BY <1>1, <4>5, <5>1, FitsItself
      <4>8. Apt(r)'
        BY <4>4, <4>6, <4>7 DEF Apt, Fits
      <4>9. call.answer # "waiting"
        BY <3>1 DEF Free, NoCall
      <4> QED
        BY <1>3, <4>4, <4>8, <4>9
    <3> QED
      BY <3>2, <3>3
  <2>3. CASE BeginCommit(w)
    <3> DEFINE sent == [answer |-> "waiting", staged |-> Staged(w),
                        generation |-> persist[w].generation,
                        layout |-> LayoutRequired(persist[w])]
    <3>1. /\ Free /\ UNCHANGED <<call, mem, persist>> /\ commit' = [commit EXCEPT ![w] = sent]
          /\ queue' = Append(queue, Asked("full", w, "commit", Staged(w), FALSE))
      BY <2>3 DEF BeginCommit
    <3>2. /\ Staged(w) \in Config
          /\ \A f \in {"prefs", "layout", "usage"} : Staged(w)[f] = mem[w][f]
      BY <1>1, StagedFields
    <3>3. Asked("full", w, "commit", Staged(w), FALSE) \in Request
      BY <3>2, NewRequests
    <3>4. PICK r \in Request :
            /\ queue' = Append(queue, r) /\ r.window = w /\ r.to = "commit"
            /\ r.config = Staged(w)
      BY <3>1, <3>3 DEF Asked
    <3>5. PICK n : n = persist'[w].generation
      OBVIOUS
    <3>6. commit'[w].generation = n /\ commit'[w].staged = r.config
      <4>1. commit \in [Windows -> Commit]
        BY <1>1 DEF TypeOK
      <4> QED
        BY <3>1, <3>4, <3>5, <4>1
    <3>7. Fits(r.config, w, n)'
      <4>1. r.config \in Config /\ \A f \in {"prefs", "layout", "usage"} : r.config[f] = mem'[w][f]
        BY <3>1, <3>2, <3>4
      <4> QED
        BY <1>1, <3>5, <4>1, FitsItself
    <3>8. Apt(r)'
      BY <3>4, <3>6, <3>7 DEF Apt, Fits
    <3>9. call.answer # "waiting"
      BY <3>1 DEF Free, NoCall
    <3> QED
      BY <1>3, <3>4, <3>8, <3>9
  <2>4. CASE CommitTimesOut(w)
    <3>1. queue' = Unheard(w, "commit") /\ UNCHANGED call
      BY <2>4 DEF CommitTimesOut
    <3>2. /\ i \in Indices
          /\ s.window = queue[i].window /\ s.config = queue[i].config
          /\ s.layout = queue[i].layout
          /\ s.to = IF Carries(i, w, "commit") THEN "nobody" ELSE queue[i].to
      BY <1>1, <3>1, Released
    <3>3. s.to = queue[i].to \/ s.to = "nobody"
      BY <3>2
    <3> QED
      BY <3>1, <3>2, <3>3, AptOld
  <2>5. ASSUME NEW what, NEW config, NEW kind, NEW layout, Made(what, w, config, kind, layout),
               what = "preferences" => config = mem'[w] /\ layout = LayoutRequired(persist'[w]),
               call.answer # "waiting"
        PROVE  Apt(s)'
    <3>1. PICK r \in Request :
            /\ queue' = Append(queue, r)
            /\ r.window = w /\ r.to = "call" /\ r.config = config /\ r.layout = layout
      BY <2>5 DEF Made
    <3>2. ASSUME call'.what = "preferences" PROVE Apt(r)'
      <4>1. what = "preferences"
        BY <2>5, <3>2 DEF Made
      <4>2. PICK n : n = persist'[w].generation
        OBVIOUS
      <4>3. Fits(r.config, w, n)'
        <5>1. r.config \in Config /\ r.config = mem'[w]
          BY <2>5, <3>1, <4>1 DEF Request
        <5> QED
          BY <1>1, <4>2, <5>1, FitsItself
      <4> QED
        BY <2>5, <3>1, <4>1, <4>2, <4>3 DEF Apt, Fits
    <3>3. Apt(r)'
      BY <3>1, <3>2 DEF Apt
    <3> QED
      BY <1>3, <2>5, <3>1, <3>3
  <2>6. CASE BeginEdit(w)
    <3>1. Free /\ Made("edit", w, Staged(w), "full", FALSE)
      BY <1>1, <2>6, EditBegins
    <3> QED
      BY <2>5, <3>1 DEF Free, NoCall
  <2>7. CASE BeginClose(w)
    <3>1. Free /\ UNCHANGED queue
      BY <2>7, CloseBegins
    <3>2. s.to # "call"
      <4>1. i \in Indices /\ s = queue[i] /\ call.answer # "waiting"
        BY <3>1 DEF Indices, Free, NoCall
      <4> QED
        BY <1>1, <4>1, Callers DEF StoreInv, QueueInv
    <3> QED
      BY <1>2, <3>1, <3>2
  <2>8. CASE ClosePreferences(w)
    <3>1. /\ UNCHANGED <<mem, persist>> /\ call.answer = "due"
          /\ \/ UNCHANGED queue /\ call'.what = "layout"
             \/ Made("preferences", w, mem[w], "preferences", LayoutRequired(persist[w]))
      BY <1>1, <2>8, PreferencesAsked
    <3>2. CASE UNCHANGED queue /\ call'.what = "layout"
      BY <1>2, <3>2
    <3>3. CASE Made("preferences", w, mem[w], "preferences", LayoutRequired(persist[w]))
      <4>1. PICK config, layout : config = mem[w] /\ layout = LayoutRequired(persist[w])
        OBVIOUS
      <4>2. config = mem'[w] /\ layout = LayoutRequired(persist'[w])
        BY <3>1, <4>1
      <4>3. Made("preferences", w, config, "preferences", layout)
        BY <3>3, <4>1
      <4> QED
        BY <2>5, <3>1, <4>2, <4>3
    <3> QED
      BY <3>1, <3>2, <3>3
  <2>9. CASE CloseLayout(w)
    <3>1. /\ call.answer = "due"
          /\ \/ UNCHANGED queue /\ call'.what = "release"
             \/ \E config \in Config : Made("layout", w, config, "full", FALSE)
      BY <1>1, <2>9, LayoutAsked
    <3> QED
      BY <1>2, <2>5, <3>1
  <2>10. CASE CloseRelease(w)
    <3>1. call.answer = "due" /\ \E kind \in Barrier : Made("release", w, Blank, kind, FALSE)
      BY <2>10, ReleaseAsked
    <3> QED
      BY <2>5, <3>1
  <2> QED
    BY <1>6, <2>1, <2>2, <2>3, <2>4, <2>6, <2>7, <2>8, <2>9, <2>10 DEF Handler
<1>7. CASE CallReturns
  <2>1. UNCHANGED queue /\ call.answer = "ok"
    BY <1>1, <1>7, Returns
  <2>2. i \in Indices /\ s = queue[i]
    BY <2>1 DEF Indices
  <2>3. s.to # "call"
    BY <1>1, <2>1, <2>2, Callers DEF StoreInv, QueueInv
  <2> QED
    BY <1>2, <2>1, <2>3
<1>8. CASE CallFails
  <2>1. queue' = Unheard(call.window, "call") /\ call.window \in Windows
    BY <1>1, <1>8, CallEnds DEF CallFails
  <2>2. /\ i \in Indices
        /\ s.window = queue[i].window /\ s.config = queue[i].config /\ s.layout = queue[i].layout
        /\ s.to = IF Carries(i, call.window, "call") THEN "nobody" ELSE queue[i].to
    BY <1>1, <2>1, Released
  <2>3. s.to = queue[i].to \/ s.to = "nobody"
    BY <2>2
  <2>4. s.to # "call"
    BY <1>1, <2>2, Callers DEF StoreInv, QueueInv, Carries
  <2> QED
    BY <2>2, <2>3, <2>4, AptOld
<1>9. CASE OutsideWrite \/ UNCHANGED vars
  <2>1. UNCHANGED <<queue, call>>
    BY <1>9 DEF OutsideWrite, vars, windowVars
  <2> QED
    BY <1>2, <2>1
<1> QED
  BY <1>5, <1>6, <1>7, <1>8, <1>9 DEF Next

\* While the user interface waits for a catalog change nothing else changes what
\* the window has.
LEMMA EditKeepsStep ==
  ASSUME StoreInv, [Next]_vars
  PROVE  EditKeeps'
<1> SUFFICES ASSUME call'.what = "edit"
             PROVE  \A f \in {"prefs", "layout", "usage"} : call'.config[f] = mem'[call'.window][f]
  BY DEF EditKeeps
<1>1. TypeOK /\ EditKeeps
  BY DEF StoreInv, QueueInv, IInv
<1>2. ASSUME call'.what = call.what, call'.window = call.window, call'.config = call.config,
             UNCHANGED mem
      PROVE  \A f \in {"prefs", "layout", "usage"} : call'.config[f] = mem'[call'.window][f]
  BY <1>1, <1>2 DEF EditKeeps
<1>3. CASE WorkerSaves \/ WorkerReports
  <2>1. queue[1] \in Request /\ UNCHANGED mem
    BY <1>1, <1>3, HeadAnswered
  <2>2. PICK answer \in {"ok", "failed"} : Reply(queue[1], answer)
    BY <1>1, <1>3, HeadAnswered
  <2>3. \A f \in {"what", "window", "config"} : call'[f] = call[f]
    BY <1>1, <2>1, <2>2, ReplyFields
  <2> QED
    BY <1>2, <2>1, <2>3
<1>4. ASSUME NEW w \in Windows, Handler(w)
      PROVE  \A f \in {"prefs", "layout", "usage"} : call'.config[f] = mem'[call'.window][f]
  <2>1. CASE BeginEdit(w)
    <3>1. UNCHANGED mem /\ Made("edit", w, Staged(w), "full", FALSE)
      BY <1>1, <2>1, EditBegins
    <3>2. PICK config : config = Staged(w)
      OBVIOUS
    <3>3. call'.window = w /\ call'.config = config
      BY <3>1, <3>2 DEF Made
    <3>4. \A f \in {"prefs", "layout", "usage"} : config[f] = mem[w][f]
      BY <1>1, <3>2, StagedFields
    <3> QED
      BY <3>1, <3>3, <3>4
  <2>2. ASSUME ~BeginEdit(w) PROVE FALSE
    <3>1. CASE \/ OpenWindow(w) \/ EditPreference(w) \/ EditLayout(w) \/ RecordUsage(w)
               \/ (\E ready \in BOOLEAN : Drive(w, ready))
               \/ BeginCommit(w) \/ FinishCommit(w) \/ CommitTimesOut(w)
      <4>1. call = NoCall /\ call' = call
        BY <3>1 DEF OpenWindow, EditPreference, EditLayout, RecordUsage, Drive, BeginCommit,
                    FinishCommit, CommitTimesOut, Free
      <4> QED
        BY <4>1 DEF NoCall
    <3>2. CASE BeginClose(w)
      BY <3>2, CloseBegins
    <3>3. CASE ClosePreferences(w)
      <4>1. call'.what \in {"layout", "preferences"}
        BY <1>1, <3>3, PreferencesAsked DEF Made
      <4> QED
        BY <4>1
    <3>4. CASE CloseLayout(w)
      <4>1. call'.what \in {"layout", "release"}
        BY <1>1, <3>4, LayoutAsked DEF Made
      <4> QED
        BY <4>1
    <3>5. CASE CloseRelease(w)
      BY <3>5, ReleaseAsked DEF Made
    <3> QED
      BY <1>4, <2>2, <3>1, <3>2, <3>3, <3>4, <3>5 DEF Handler
  <2> QED
    BY <2>1, <2>2
<1>5. CASE CallReturns \/ CallFails
  <2>1. call'.what \in {"layout", "release", "none"}
    BY <1>1, <1>5, CallEnds DEF Due, NoCall
  <2> QED
    BY <2>1
<1>6. CASE OutsideWrite \/ UNCHANGED vars
  BY <1>2, <1>6 DEF OutsideWrite, vars, windowVars
<1> QED
  BY <1>3, <1>4, <1>5, <1>6 DEF Next

\* What is in the file has been recorded.
LEMMA OnDiskStep ==
  ASSUME StoreInv, [Next]_vars
  PROVE  OnDisk'
<1>1. TypeOK /\ OnDisk
  BY DEF StoreInv, QueueInv, IInv
<1>2. CASE WorkerSaves
  BY <1>1, <1>2, Saves DEF OnDisk
<1>3. ASSUME NEW w \in Windows, Handler(w) PROVE UNCHANGED <<disk, written>>
  BY <1>3 DEF Handler, OpenWindow, EditPreference, EditLayout, RecordUsage, Drive, BeginCommit,
              FinishCommit, CommitTimesOut, BeginEdit, BeginClose, ClosePreferences, CloseLayout,
              CloseRelease, UiKeeps, workerVars
<1>4. CASE OutsideWrite
  <2>1. disk \in Config
    BY <1>1 DEF TypeOK
  <2>2. disk'.prefs = disk.prefs /\ disk'.layout = disk.layout
    BY <1>4, <2>1 DEF OutsideWrite
  <2> QED
    BY <1>1, <1>4, <2>2 DEF OutsideWrite, OnDisk
<1>5. CASE WorkerReports \/ CallReturns \/ CallFails \/ UNCHANGED vars
  BY <1>1, <1>5 DEF OnDisk, WorkerReports, CallReturns, CallFails, vars, workerVars, UiKeeps
<1> QED
  BY <1>1, <1>2, <1>3, <1>4, <1>5 DEF Next, OnDisk

\* At the start every window is fresh, and the first one is clean and stored.
LEMMA InitStoreInv == Init => StoreInv
<1> SUFFICES ASSUME Init PROVE StoreInv
  OBVIOUS
<1>1. QueueInv
  BY QueueInductive
<1>2. OnDisk /\ EditKeeps
  BY DEF Init, OnDisk, EditKeeps, Blank, NoCall
<1>3. ASSUME NEW v \in Windows PROVE Fresh(v) /\ Told(v)
  <2>1. Fresh(v)
    BY DEF Init, Fresh
  <2>2. mem[v] = Blank /\ disk = Blank /\ written = [prefs |-> {0}, layout |-> {0}]
        /\ call = NoCall
    BY DEF Init
  <2>3. Blank.prefs = 0 /\ Blank.layout = 0 /\ \A u \in Windows : Blank.usage[u] = 0
    BY DEF Blank
  <2>4. PrefsStored(v) /\ LayoutStored(v)
    BY <2>2, <2>3 DEF PrefsStored, LayoutStored, Counted
  <2>5. /\ \A f \in Generational : persist[v][f] = 0
        /\ persist[v].inFlight.answer = "idle"
        /\ commit[v].answer = "idle" /\ commit[v].staged = Blank
    BY <2>1 DEF Fresh, FreshPersistence, NoSave, NoCommit, Generational
  <2>6. Advanced(v)
    BY <2>4, <2>5 DEF Advanced, Generational
  <2>7. SaveTold(v) /\ CallTold(v)
    BY <2>2, <2>5 DEF SaveTold, CallTold, NoCall
  <2>8. CommitTold(v)
    BY <2>2, <2>3, <2>5 DEF CommitTold, Counted
  <2> QED
    BY <2>1, <2>6, <2>7, <2>8 DEF Told
<1>4. Indices = {}
  <2>1. Len(queue) = 0
    BY EmptySeq DEF Init
  <2> QED
    BY <2>1 DEF Indices
<1> QED
  BY <1>1, <1>2, <1>3, <1>4 DEF StoreInv

\* The generations of every window tell the truth in every reachable state.
LEMMA StoreInductive ==
  /\ Init => StoreInv
  /\ StoreInv /\ [Next]_vars => StoreInv'
<1> SUFFICES ASSUME StoreInv, [Next]_vars PROVE StoreInv'
  BY InitStoreInv
<1>1. QueueInv'
  BY QueueInductive DEF StoreInv
<1> QED
  BY <1>1, OnDiskStep, EditKeepsStep, ToldStep, AptStep DEF StoreInv

\* A window whose generations say so is stored.
LEMMA CleanMeansStored ==
  ASSUME TypeOK, NEW v \in Windows, Told(v), ~IsDirty(persist[v])
  PROVE  Stored(v)
<1>1. \A f \in Generational : persist[v][f] \in Nat
  BY Numbers
<1>2. /\ persist[v].persisted >= persist[v].generation
      /\ persist[v].persistedLayout >= persist[v].layoutGeneration
  BY <1>1 DEF IsDirty, LayoutRequired, Generational
<1> QED
  BY <1>2 DEF Told, Advanced, PrefsStored, LayoutStored, Stored, Counted

\* A window that is clean by its generations has its preferences, its layout and
\* its counts stored, whatever it changed while saves, commits and catalog
\* changes were under way, failed or were given up (mark_saved, poll_result,
\* commit_staged_config_async).
THEOREM CleanWindowsStored == Spec => []CleanIsStored
<1>1. StoreInv => CleanIsStored
  BY CleanMeansStored DEF StoreInv, QueueInv, IInv, TypeOK, CleanIsStored
<1> QED
  BY <1>1, StoreInductive, PTL DEF Spec
-----------------------------------------------------------------------------
(* A clean close.                                                          *)

\* w has closed, and its release has been answered or given up.
Gone(w) == w \notin open /\ ~(call.what = "release" /\ call.window = w)

\* Nothing is left to be saved once the preferences are done, and nothing is
\* under way once the release is.
Settled(w) ==
  w \notin open \/ (call.what \in {"layout", "release"} /\ call.window = w) =>
    ~IsDirty(persist[w])
Cleared(w) == Gone(w) => \A i \in Indices : queue[i].window # w

Left == \A w \in opened : report[w] = {} => Settled(w) /\ Cleared(w)

CloseInv == StoreInv /\ Left

\* Only a window with a lease sends.
LEMMA Senders ==
  ASSUME StoreInv, [Next]_vars, NEW i \in Indices'
  PROVE  queue'[i].window \in open \/ \E j \in Indices : queue[j].window = queue'[i].window
<1>1. TypeOK /\ queue \in Seq(Request) /\ Turn
  BY DEF StoreInv, QueueInv, IInv, TypeOK
<1>2. ASSUME UNCHANGED queue PROVE \E j \in Indices : queue[j].window = queue'[i].window
  BY <1>2 DEF Indices
<1>3. ASSUME NEW r \in Request, queue' = Append(queue, r), r.window \in open
      PROVE  queue'[i].window \in open \/ \E j \in Indices : queue[j].window = queue'[i].window
  BY <1>1, <1>3, Grown
<1>4. ASSUME NEW w \in Windows, NEW to, queue' = Unheard(w, to)
      PROVE  \E j \in Indices : queue[j].window = queue'[i].window
  BY <1>1, <1>4, Released
<1>5. CASE WorkerSaves \/ WorkerReports
  BY <1>1, <1>5, HeadAnswered, Shrunk
<1>6. ASSUME NEW w \in Windows, Handler(w)
      PROVE  queue'[i].window \in open \/ \E j \in Indices : queue[j].window = queue'[i].window
  <2>1. CASE OpenWindow(w) \/ EditPreference(w) \/ EditLayout(w) \/ RecordUsage(w)
             \/ FinishCommit(w) \/ BeginClose(w)
    BY <1>2, <2>1 DEF OpenWindow, EditPreference, EditLayout, RecordUsage, FinishCommit, BeginClose
  <2>2. ASSUME NEW ready \in BOOLEAN, Drive(w, ready)
        PROVE  queue'[i].window \in open \/ \E j \in Indices : queue[j].window = queue'[i].window
    <3>1. PICK q \in Persistence :
            /\ w \in open
            /\ \/ queue' = queue
               \/ queue' = Append(queue, Asked("preferences", w, "save", mem[w], LayoutRequired(q)))
      BY <1>1, <2>2, Drives
    <3>2. mem[w] \in Config /\ LayoutRequired(q) \in BOOLEAN
      BY <1>1, Numbers DEF LayoutRequired
    <3>3. Asked("preferences", w, "save", mem[w], LayoutRequired(q)) \in Request
      BY <3>2, NewRequests
    <3>4. Asked("preferences", w, "save", mem[w], LayoutRequired(q)).window = w
      BY DEF Asked
    <3> QED
      BY <1>2, <1>3, <3>1, <3>3, <3>4
  <2>3. CASE BeginCommit(w)
    <3>1. /\ w \in open
          /\ queue' = Append(queue, Asked("full", w, "commit", Staged(w), FALSE))
      BY <2>3 DEF BeginCommit
    <3>2. Staged(w) \in Config
      BY <1>1, StagedIsConfig
    <3>3. Asked("full", w, "commit", Staged(w), FALSE) \in Request
      BY <3>2, NewRequests
    <3>4. Asked("full", w, "commit", Staged(w), FALSE).window = w
      BY DEF Asked
    <3> QED
      BY <1>3, <3>1, <3>3, <3>4
  <2>4. CASE CommitTimesOut(w)
    BY <1>4, <2>4 DEF CommitTimesOut
  <2>5. ASSUME NEW what, NEW config, NEW kind, NEW layout, Made(what, w, config, kind, layout),
               w \in open
        PROVE  queue'[i].window \in open \/ \E j \in Indices : queue[j].window = queue'[i].window
    BY <1>3, <2>5 DEF Made
  <2>6. CASE BeginEdit(w)
    BY <1>1, <2>5, <2>6, EditBegins
  <2>7. CASE ClosePreferences(w)
    <3>1. w \in open
      BY <1>1, <2>7, PreferencesAsked DEF Turn
    <3> QED
      BY <1>1, <1>2, <2>5, <2>7, <3>1, PreferencesAsked
  <2>8. CASE CloseLayout(w)
    <3>1. w \in open
      BY <1>1, <2>8, LayoutAsked DEF Turn
    <3> QED
      BY <1>1, <1>2, <2>5, <2>8, <3>1, LayoutAsked
  <2>9. CASE CloseRelease(w)
    <3>1. w \in open
      BY <1>1, <2>9, ReleaseAsked DEF Turn
    <3> QED
      BY <2>5, <2>9, <3>1, ReleaseAsked
  <2> QED
    BY <1>6, <2>1, <2>2, <2>3, <2>4, <2>6, <2>7, <2>8, <2>9 DEF Handler
<1>7. CASE CallReturns
  BY <1>1, <1>2, <1>7, Returns
<1>8. CASE CallFails
  <2>1. call.window \in Windows
    BY <1>1, <1>8, CallEnds
  <2> QED
    BY <1>4, <1>8, <2>1 DEF CallFails
<1>9. CASE OutsideWrite \/ UNCHANGED vars
  BY <1>2, <1>9 DEF OutsideWrite, vars
<1> QED
  BY <1>5, <1>6, <1>7, <1>8, <1>9 DEF Next

\* A window is cleared when its release is over: the queue is empty when the
\* answer is there, and a release that is given up is reported.
LEMMA ClearedStep ==
  ASSUME CloseInv, [Next]_vars, NEW w \in opened, report[w] = {}, report'[w] = {}
  PROVE  Cleared(w)'
<1> SUFFICES ASSUME Gone(w)', NEW i \in Indices' PROVE queue'[i].window # w
  BY DEF Cleared
<1>1. TypeOK /\ Turn /\ StoreInv /\ Cleared(w) /\ open \subseteq opened /\ w \in Windows
  BY DEF CloseInv, Left, StoreInv, QueueInv, IInv, TypeOK
<1>2. CASE Gone(w)
  BY <1>1, <1>2, Senders DEF Gone, Cleared
<1>3. ASSUME ~Gone(w), open' = open, call'.what = call.what, call'.window = call.window
      PROVE  FALSE
  BY <1>3 DEF Gone
<1>4. CASE WorkerSaves \/ WorkerReports
  <2>1. queue[1] \in Request /\ open' = open
    BY <1>1, <1>4, HeadAnswered
  <2>2. PICK answer \in {"ok", "failed"} : Reply(queue[1], answer)
    BY <1>1, <1>4, HeadAnswered
  <2>3. \A f \in {"what", "window", "config"} : call'[f] = call[f]
    BY <1>1, <2>1, <2>2, ReplyFields
  <2> QED
    BY <1>2, <1>3, <2>1, <2>3
<1>5. ASSUME NEW v \in Windows, Handler(v), ~Gone(w) PROVE FALSE
  <2>1. CASE \/ OpenWindow(v) \/ EditPreference(v) \/ EditLayout(v) \/ RecordUsage(v)
             \/ (\E ready \in BOOLEAN : Drive(v, ready))
             \/ BeginCommit(v) \/ FinishCommit(v) \/ CommitTimesOut(v)
    <3>1. call = NoCall /\ call' = call /\ open \subseteq open'
      BY <2>1 DEF OpenWindow, EditPreference, EditLayout, RecordUsage, Drive, BeginCommit,
                  FinishCommit, CommitTimesOut, Free
    <3> QED
      BY <1>5, <3>1 DEF NoCall, Gone
  <2>2. CASE BeginEdit(v)
    <3>1. UNCHANGED open /\ call'.what = "edit"
      BY <1>1, <2>2, EditBegins DEF Made
    <3>2. call = NoCall
      BY <1>1, <2>2, EditBegins DEF Free
    <3> QED
      BY <1>5, <3>1, <3>2 DEF Gone, NoCall
  <2>3. CASE BeginClose(v)
    BY <1>5, <2>3, CloseBegins DEF Gone, Free, NoCall
  <2>4. CASE ClosePreferences(v)
    BY <1>1, <1>5, <2>4, PreferencesAsked DEF Gone
  <2>5. CASE CloseLayout(v)
    BY <1>1, <1>5, <2>5, LayoutAsked DEF Gone
  <2>6. CASE CloseRelease(v)
    <3>1. /\ call.what = "release" /\ call.window = v /\ open' = open \ {v}
          /\ call'.what = "release" /\ call'.window = v
      BY <2>6, ReleaseAsked DEF Made
    <3> QED
      BY <1>5, <3>1 DEF Gone
  <2> QED
    BY <1>5, <2>1, <2>2, <2>3, <2>4, <2>5, <2>6 DEF Handler
<1>6. ASSUME CallReturns, ~Gone(w) PROVE queue'[i].window # w
  <2>1. call.answer = "ok" /\ UNCHANGED <<queue, open>>
    BY <1>1, <1>6, Returns, CallEnds
  <2>2. call.what = "release"
    BY <1>1, <1>6, <2>1, CallEnds DEF Gone
  <2>3. queue' = <<>>
    BY <1>1, <2>1, <2>2 DEF Turn
  <2>4. Indices' = {}
    <3>1. Len(queue') = 0
      BY <2>3, EmptySeq
    <3> QED
      BY <3>1 DEF Indices
  <2> QED
    BY <2>4
<1>7. ASSUME CallFails, ~Gone(w) PROVE FALSE
  <2>1. open' = open
    BY <1>1, <1>7, CallEnds
  <2>2. call.what = "release" /\ call.window = w
    BY <1>7, <2>1 DEF Gone
  <2>3. report \in [Windows -> SUBSET {"preferences", "layout", "release"}]
    BY <1>1 DEF TypeOK
  <2>4. report'[w] = report[w] \cup {"release"}
    BY <1>1, <1>7, <2>2, <2>3 DEF CallFails, Reported
  <2> QED
    BY <2>4
<1>8. CASE OutsideWrite \/ UNCHANGED vars
  BY <1>2, <1>3, <1>8 DEF OutsideWrite, vars, windowVars
<1> QED
  BY <1>2, <1>4, <1>5, <1>6, <1>7, <1>8 DEF Next

\* What decides whether a window is dirty.
LEMMA DirtyNow ==
  ASSUME NEW w \in Windows, \A f \in Generational : persist'[w][f] = persist[w][f]
  PROVE  IsDirty(persist'[w]) <=> IsDirty(persist[w])
BY DEF IsDirty, LayoutRequired, Generational

\* A window is settled when its preferences are done: it was clean, or they are
\* saved, or their failure is reported; after that nothing changes it.
LEMMA SettledStep ==
  ASSUME CloseInv, [Next]_vars, NEW w \in opened, report[w] = {}, report'[w] = {}
  PROVE  Settled(w)'
<1> SUFFICES ASSUME \/ w \notin open'
                    \/ call'.what \in {"layout", "release"} /\ call'.window = w
             PROVE  ~IsDirty(persist'[w])
  BY DEF Settled
<1>1. TypeOK /\ Turn /\ Settled(w) /\ w \in Windows
  BY DEF CloseInv, Left, StoreInv, QueueInv, IInv, TypeOK
<1>2. ASSUME \/ w \notin open
             \/ call.what \in {"layout", "release"} /\ call.window = w,
             \A f \in Generational : persist'[w][f] = persist[w][f]
      PROVE  ~IsDirty(persist'[w])
  BY <1>1, <1>2, DirtyNow DEF Settled
<1>3. CASE WorkerSaves \/ WorkerReports
  <2>1. queue[1] \in Request /\ open' = open
    BY <1>1, <1>3, HeadAnswered
  <2>2. PICK answer \in {"ok", "failed"} : Reply(queue[1], answer)
    BY <1>1, <1>3, HeadAnswered
  <2>3. /\ \A f \in {"what", "window", "config"} : call'[f] = call[f]
        /\ \A f \in Generational : persist'[w][f] = persist[w][f]
    BY <1>1, <2>1, <2>2, ReplyFields
  <2> QED
    BY <1>2, <2>1, <2>3
<1>4. ASSUME NEW v \in Windows, Handler(v) PROVE ~IsDirty(persist'[w])
  <2>1. CASE \/ OpenWindow(v) \/ EditPreference(v) \/ EditLayout(v) \/ RecordUsage(v)
             \/ (\E ready \in BOOLEAN : Drive(v, ready))
             \/ BeginCommit(v) \/ FinishCommit(v) \/ CommitTimesOut(v)
    <3>1. call = NoCall /\ call' = call /\ open \subseteq open'
      BY <2>1 DEF OpenWindow, EditPreference, EditLayout, RecordUsage, Drive, BeginCommit,
                  FinishCommit, CommitTimesOut, Free
    <3>2. w \notin open
      BY <3>1 DEF NoCall
    <3>3. persist'[w] = persist[w]
      <4>1. CASE OpenWindow(v) \/ BeginCommit(v) \/ CommitTimesOut(v)
        BY <4>1 DEF OpenWindow, BeginCommit, CommitTimesOut
      <4>2. CASE EditPreference(v) \/ EditLayout(v) \/ RecordUsage(v)
        BY <1>1, <3>2, <4>2, Edited
      <4>3. CASE \E ready \in BOOLEAN : Drive(v, ready)
        BY <1>1, <3>2, <4>3, Drives
      <4>4. CASE FinishCommit(v)
        BY <1>1, <3>2, <4>4, Finishes
      <4> QED
        BY <2>1, <4>1, <4>2, <4>3, <4>4
    <3> QED
      BY <1>2, <3>2, <3>3
  <2>2. CASE BeginEdit(v)
    <3>1. UNCHANGED <<open, persist>> /\ call'.what = "edit"
      BY <1>1, <2>2, EditBegins DEF Made
    <3> QED
      BY <1>2, <3>1
  <2>3. CASE BeginClose(v)
    BY <1>2, <2>3, CloseBegins
  <2>4. CASE ClosePreferences(v)
    <3>1. /\ UNCHANGED <<open, persist>>
          /\ \/ ~IsDirty(persist[v]) /\ call'.what = "layout" /\ call'.window = v
             \/ call'.what = "preferences"
      BY <1>1, <2>4, PreferencesAsked DEF Made
    <3> QED
      BY <1>2, <3>1
  <2>5. CASE CloseLayout(v)
    <3>1. /\ UNCHANGED <<open, persist>> /\ call.what = "layout" /\ call.window = v
          /\ call'.window = v
      BY <1>1, <2>5, LayoutAsked DEF Made
    <3> QED
      BY <1>2, <3>1
  <2>6. CASE CloseRelease(v)
    <3>1. /\ open' = open \ {v} /\ UNCHANGED persist
          /\ call.what = "release" /\ call.window = v /\ call'.window = v
      BY <2>6, ReleaseAsked DEF Made
    <3> QED
      BY <1>2, <3>1
  <2> QED
    BY <1>4, <2>1, <2>2, <2>3, <2>4, <2>5, <2>6 DEF Handler
<1>5. CASE CallReturns
  <2>1. /\ open' = open /\ call.window \in Windows
        /\ call.what \in {"edit", "preferences", "layout", "release"}
        /\ call.what = "preferences" => call' = Due("layout", call.window)
        /\ call.what = "layout" => call' = Due("release", call.window)
        /\ call.what \in {"edit", "release"} => call' = NoCall
    BY <1>1, <1>5, CallEnds
  <2>2. CASE call.what = "preferences"
    <3> DEFINE p == persist[call.window]
               layout == LayoutRequired(p)
    <3>1. CASE w = call.window
      <4>1. /\ persist \in [Windows -> Persistence]
            /\ persist' = [persist EXCEPT ![call.window] = MarkSaved(p, p.generation, layout)]
        BY <1>1, <1>5, <2>2 DEF CallReturns, TypeOK
      <4>2. p \in Persistence /\ layout \in BOOLEAN
        BY <2>1, <4>1 DEF LayoutRequired
      <4>3. \A f \in Generational : p[f] \in Nat
        BY <1>1, <2>1, Numbers
      <4>4. p.layoutGeneration <= p.generation
        BY <1>1, <3>1 DEF CloseInv, StoreInv, Told, Advanced, Generational
      <4>5. persist'[w] = MarkSaved(p, p.generation, layout)
        <5> HIDE DEF p, layout
        <5> QED
          BY <2>1, <3>1, <4>1
      <4>6. /\ persist'[w].generation = p.generation
            /\ persist'[w].layoutGeneration = p.layoutGeneration
            /\ persist'[w].persisted = Later(p.persisted, p.generation)
            /\ persist'[w].persistedLayout = IF layout THEN Later(p.persistedLayout, p.generation)
                                             ELSE p.persistedLayout
        <5> HIDE DEF p, layout
        <5> QED
          BY <4>2, <4>5 DEF MarkSaved, Persistence
      <4> QED
        BY <4>3, <4>4, <4>6 DEF IsDirty, LayoutRequired, Later, Generational
    <3>2. CASE w # call.window
      <4>1. persist'[w] = persist[w]
        BY <1>1, <1>5, <3>2, Returns
      <4>2. w \notin open
        BY <2>1, <2>2, <3>2 DEF Due
      <4> QED
        BY <1>2, <4>1, <4>2
    <3> QED
      BY <3>1, <3>2
  <2>3. CASE call.what \in {"edit", "layout", "release"}
    <3>1. persist' = persist
      BY <1>5, <2>3 DEF CallReturns
    <3>2. \/ w \notin open
          \/ call.what \in {"layout", "release"} /\ call.window = w
      BY <2>1, <2>3 DEF Due, NoCall
    <3> QED
      BY <1>2, <3>1, <3>2
  <2> QED
    BY <2>1, <2>2, <2>3
<1>6. CASE CallFails
  <2>1. /\ open' = open /\ call.window \in Windows /\ persist' = persist
        /\ call.what \in {"edit", "preferences", "layout", "release"}
        /\ call.what = "preferences" => call' = Due("layout", call.window)
        /\ call.what = "layout" => call' = Due("release", call.window)
        /\ call.what \in {"edit", "release"} => call' = NoCall
    BY <1>1, <1>6, CallEnds DEF CallFails, windowVars
  <2>2. report \in [Windows -> SUBSET {"preferences", "layout", "release"}]
    BY <1>1 DEF TypeOK
  <2>3. call.what # "edit" => w # call.window
    BY <1>1, <1>6, <2>1, <2>2 DEF CallFails, Reported
  <2>4. w \notin open
    BY <2>1, <2>3 DEF Due, NoCall
  <2> QED
    BY <1>2, <2>1, <2>4
<1>7. CASE OutsideWrite \/ UNCHANGED vars
  BY <1>2, <1>7 DEF OutsideWrite, vars, windowVars
<1> QED
  BY <1>3, <1>4, <1>5, <1>6, <1>7 DEF Next

\* A stage that has failed stays in the report.
LEMMA ReportGrows ==
  ASSUME TypeOK, [Next]_vars, NEW w \in Windows
  PROVE  report[w] \subseteq report'[w]
<1>1. report \in [Windows -> SUBSET {"preferences", "layout", "release"}]
  BY DEF TypeOK
<1>2. CASE CallFails
  BY <1>1, <1>2 DEF CallFails, Reported
<1>3. ASSUME NEW v \in Windows, Handler(v) PROVE UNCHANGED report
  BY <1>3 DEF Handler, OpenWindow, EditPreference, EditLayout, RecordUsage, Drive, BeginCommit,
              FinishCommit, CommitTimesOut, BeginEdit, BeginClose, ClosePreferences, CloseLayout,
              CloseRelease, UiKeeps
<1>4. CASE WorkerSaves \/ WorkerReports \/ CallReturns \/ OutsideWrite \/ UNCHANGED vars
  BY <1>4 DEF WorkerSaves, WorkerReports, CallReturns, OutsideWrite, vars, UiKeeps
<1> QED
  BY <1>2, <1>3, <1>4 DEF Next

\* A window that opens has everything ahead of it, and no request is its own.
LEMMA OpensLeft ==
  ASSUME CloseInv, [Next]_vars, NEW w \in opened', w \notin opened
  PROVE  Settled(w)' /\ Cleared(w)'
<1>1. TypeOK /\ open \subseteq opened
  BY DEF CloseInv, StoreInv, QueueInv, IInv, TypeOK
<1>2. CASE WorkerSaves \/ WorkerReports
  BY <1>1, <1>2, HeadAnswered
<1>3. ASSUME NEW v \in Windows, Handler(v) PROVE OpenWindow(v)
  <2>1. CASE EditPreference(v) \/ EditLayout(v) \/ RecordUsage(v)
    BY <1>1, <2>1, Edited
  <2>2. CASE \E ready \in BOOLEAN : Drive(v, ready)
    BY <1>1, <2>2, Drives
  <2>3. CASE ~(\/ OpenWindow(v) \/ EditPreference(v) \/ EditLayout(v) \/ RecordUsage(v)
               \/ (\E ready \in BOOLEAN : Drive(v, ready)))
    BY <1>3, <2>3 DEF Handler, BeginCommit, FinishCommit, CommitTimesOut, BeginEdit, BeginClose,
                      ClosePreferences, CloseLayout, CloseRelease, windowVars
  <2> QED
    BY <2>1, <2>2, <2>3
<1>4. ASSUME NEW v \in Windows, OpenWindow(v) PROVE Settled(w)' /\ Cleared(w)'
  <2>1. w \in open' /\ call' = NoCall
    BY <1>4 DEF OpenWindow, Free
  <2> QED
    BY <2>1 DEF Settled, Cleared, Gone, NoCall
<1>5. CASE CallReturns \/ CallFails
  BY <1>1, <1>5, CallEnds
<1>6. CASE OutsideWrite \/ UNCHANGED vars
  BY <1>6 DEF OutsideWrite, vars, windowVars
<1> QED
  BY <1>2, <1>3, <1>4, <1>5, <1>6 DEF Next

\* What a clean close has left behind, in every reachable state.
LEMMA CloseInductive ==
  /\ Init => CloseInv
  /\ CloseInv /\ [Next]_vars => CloseInv'
<1>1. ASSUME Init PROVE CloseInv
  <2>1. StoreInv
    BY <1>1, StoreInductive
  <2>2. opened = {First} /\ open = {First} /\ call = NoCall
    BY <1>1 DEF Init
  <2>3. Left
    BY <2>2 DEF Left, Settled, Cleared, Gone, NoCall
  <2> QED
    BY <2>1, <2>3 DEF CloseInv
<1>2. ASSUME CloseInv, [Next]_vars PROVE CloseInv'
  <2>1. StoreInv' /\ TypeOK /\ TypeOK'
    <3>1. StoreInv /\ StoreInv'
      BY <1>2, StoreInductive DEF CloseInv
    <3> QED
      BY <3>1 DEF StoreInv, QueueInv, IInv
  <2>2. ASSUME NEW w \in opened', report'[w] = {} PROVE Settled(w)' /\ Cleared(w)'
    <3>1. CASE w \in opened
      <4>1. report[w] = {}
        BY <1>2, <2>1, <2>2, <3>1, ReportGrows DEF TypeOK
      <4> QED
        BY <1>2, <2>2, <3>1, <4>1, SettledStep, ClearedStep
    <3>2. CASE w \notin opened
      BY <1>2, <2>2, <3>2, OpensLeft
    <3> QED
      BY <3>1, <3>2
  <2> QED
    BY <2>1, <2>2 DEF CloseInv, Left
<1> QED
  BY <1>1, <1>2

\* A window that is closed, its release over, and has reported no failed stage
\* has stored what it had and has no request under way
\* (finalize_main_window_close, Flush in worker_loop).
THEOREM CleanCloseComplete == Spec => []CleanCloseLeavesNothing
<1>1. CloseInv => CleanCloseLeavesNothing
  <2> SUFFICES ASSUME CloseInv, NEW w \in opened \ open, report[w] = {},
                      ~(call.what = "release" /\ call.window = w)
               PROVE  Stored(w) /\ \A i \in DOMAIN queue : queue[i].window # w
    BY DEF CleanCloseLeavesNothing
  <2>1. /\ TypeOK /\ w \in Windows /\ Told(w) /\ Settled(w) /\ Cleared(w)
        /\ DOMAIN queue = Indices
    BY LenProperties DEF CloseInv, Left, StoreInv, QueueInv, IInv, TypeOK, Indices
  <2>2. ~IsDirty(persist[w])
    BY <2>1 DEF Settled
  <2>3. Stored(w)
    BY <2>1, <2>2, CleanMeansStored
  <2> QED
    BY <2>1, <2>3 DEF Cleared, Gone
<1> QED
  BY <1>1, CloseInductive, PTL DEF Spec
-----------------------------------------------------------------------------
(* The catalog of a sole window.                                           *)

Sole == opened = {First} /\ ~crossed
Closing(w) == call.what \in {"preferences", "layout", "release"} /\ call.window = w

\* What the user was told is in the file, in the window, and in every full save
\* under way.
Keeps ==
  /\ acked \subseteq disk.catalog /\ acked \subseteq mem[First].catalog
  /\ \A i \in Indices : queue[i].kind = "full" => acked \subseteq queue[i].config.catalog

Stages == commit[First].answer # "idle" => mem[First].catalog \subseteq commit[First].staged.catalog

\* No full save stands behind a commit.
Followed ==
  \A i, j \in Indices : Carries(i, First, "commit") /\ i < j => queue[j].kind # "full"

\* Nor one behind a commit that is stored and not completed.
Undisturbed ==
  First \in open /\ ~Closing(First) =>
    /\ Followed
    /\ commit[First].answer = "ok" =>
         /\ commit[First].staged.catalog \subseteq disk.catalog
         /\ \A i \in Indices : queue[i].kind # "full"

Adds ==
  call.what = "edit" =>
    /\ commit[First].answer = "idle" /\ mem[First].catalog \subseteq call.config.catalog
    /\ call.answer = "ok" => call.config.catalog \subseteq disk.catalog

CatalogKept == Keeps /\ Stages /\ Undisturbed /\ Adds

CatalogInv == StoreInv /\ (Sole => CatalogKept)

\* First is a window, and the sole one.
LEMMA SoleFacts ==
  ASSUME StoreInv, Sole
  PROVE  /\ TypeOK /\ Turn /\ Receipts /\ queue \in Seq(Request) /\ First \in Windows
         /\ \A w \in open : w = First
         /\ call.what # "none" => call.window = First
         /\ commit[First].answer # "waiting" => \A i \in Indices : ~Carries(i, First, "commit")
         /\ \A i \in Indices : Sound(queue[i]) /\ Apt(queue[i]) /\ queue[i].window = First
<1>1. /\ TypeOK /\ Turn /\ Receipts /\ queue \in Seq(Request) /\ First \in Windows
      /\ \A i \in Indices : Sound(queue[i]) /\ Apt(queue[i])
  BY RepositoryAssumption DEF StoreInv, QueueInv, IInv, TypeOK, Requests
<1>2. \A w \in open : w = First
  BY <1>1 DEF TypeOK, Sole
<1>3. call.what # "none" => call.window = First
  BY <1>1 DEF Turn, Sole
<1>4. \A i \in Indices : queue[i].window = First
  BY <1>1 DEF Sound, Sole
<1>5. commit[First].answer # "waiting" => \A i \in Indices : ~Carries(i, First, "commit")
  BY <1>1, Waiting DEF Receipts, Receipt, Channels
<1> QED
  BY <1>1, <1>2, <1>3, <1>4, <1>5

\* Steps that leave the catalogs, the queue, the commit and the call alone; the
\* file may gain entries.
LEMMA CatalogStays ==
  ASSUME CatalogKept, UNCHANGED <<queue, call, open, acked>>, commit'[First] = commit[First],
         mem'[First].catalog = mem[First].catalog, disk.catalog \subseteq disk'.catalog
  PROVE  CatalogKept'
<1>1. Keeps'
  BY DEF CatalogKept, Keeps, Indices
<1>2. Stages' /\ Adds'
  BY DEF CatalogKept, Stages, Adds
<1>3. Undisturbed'
  BY DEF CatalogKept, Undisturbed, Followed, Closing, Indices, Carries
<1> QED
  BY <1>1, <1>2, <1>3 DEF CatalogKept

\* A full save sent without a commit before it, or another one behind it.
LEMMA Behind ==
  ASSUME queue \in Seq(Request), NEW r \in Request, queue' = Append(queue, r), Followed,
         r.kind # "full" \/ \A i \in Indices : ~Carries(i, First, "commit")
  PROVE  Followed'
<1>1. PICK last \in Nat :
        /\ last = Len(queue) + 1 /\ Indices' = Indices \cup {last}
        /\ \A i \in Indices : queue'[i] = queue[i]
        /\ queue'[last] = r
  BY Grown
<1>2. Len(queue) \in Nat /\ \A i \in Indices : i \in Nat /\ i < last
  BY <1>1 DEF Indices
<1>3. \A i \in Indices : Carries(i, First, "commit")' <=> Carries(i, First, "commit")
  BY <1>1 DEF Carries
<1> SUFFICES ASSUME NEW i \in Indices', NEW j \in Indices', Carries(i, First, "commit")', i < j
             PROVE  queue'[j].kind # "full"
  BY DEF Followed
<1>4. i \in Indices
  BY <1>1, <1>2
<1>5. CASE j \in Indices
  BY <1>1, <1>3, <1>4, <1>5 DEF Followed
<1>6. CASE j = last
  BY <1>1, <1>3, <1>4, <1>6
<1> QED
  BY <1>1, <1>5, <1>6

\* What is sent keeps what the user was told.
LEMMA SendKeeps ==
  ASSUME queue \in Seq(Request), NEW r \in Request, queue' = Append(queue, r), Keeps,
         UNCHANGED <<acked, disk>>, mem'[First].catalog = mem[First].catalog,
         r.kind = "full" => acked \subseteq r.config.catalog
  PROVE  Keeps'
<1>1. PICK last \in Nat :
        /\ Indices' = Indices \cup {last}
        /\ \A i \in Indices : queue'[i] = queue[i]
        /\ queue'[last] = r
  BY Grown
<1> QED
  BY <1>1 DEF Keeps

\* A save by the worker keeps what the user was told.
LEMMA SavesCatalog ==
  ASSUME StoreInv, Sole, CatalogKept, WorkerSaves
  PROVE  CatalogKept'
<1>1. /\ TypeOK /\ Turn /\ First \in Windows
      /\ queue # <<>> /\ queue' = Tail(queue) /\ UNCHANGED <<mem, acked, open>>
  BY SoleFacts, HeadAnswered
<1>2. PICK r \in Request : r = queue[1]
  BY <1>1, HeadAnswered
<1>3. PICK ok \in BOOLEAN :
        /\ Reply(r, IF ok THEN "ok" ELSE "failed")
        /\ disk' = IF ok THEN Written(r) ELSE disk
        /\ r.kind \in {"preferences", "full"}
  BY <1>1, <1>2, Saves
<1>4. PICK answer \in {"ok", "failed"} : answer = (IF ok THEN "ok" ELSE "failed") /\ Reply(r, answer)
  BY <1>3
<1>5. 1 \in Indices /\ Sound(r) /\ Apt(r) /\ r.window = First
  <2>1. 1 \in Indices
    BY <1>1, SoleFacts, Shrunk
  <2> QED
    BY <1>2, <2>1, SoleFacts
<1>6. /\ commit'[First].staged = commit[First].staged
      /\ commit'[First].answer = IF r.to = "commit" THEN answer ELSE commit[First].answer
      /\ call'.what = call.what /\ call'.window = call.window /\ call'.config = call.config
      /\ call'.answer = IF r.to = "call" THEN answer ELSE call.answer
  BY <1>1, <1>4, <1>5, ReplyFields
<1>7. disk'.catalog = IF ok /\ r.kind = "full" THEN r.config.catalog ELSE disk.catalog
  BY <1>1, <1>3, WrittenFields
<1>8. \A i \in Indices' : i + 1 \in Indices /\ 1 < i + 1 /\ i \in Nat /\ queue'[i] = queue[i + 1]
  <2>1. \A i \in Indices' : i + 1 \in Indices /\ queue'[i] = queue[i + 1]
    BY <1>1, SoleFacts, Shrunk
  <2>2. \A i \in Indices' : i \in Nat /\ 1 < i + 1
    BY DEF Indices
  <2> QED
    BY <2>1, <2>2
<1>9. r.to = "commit" => commit[First].answer = "waiting"
  BY <1>2, <1>5, SoleFacts DEF Carries
<1>10. Keeps'
  BY <1>1, <1>2, <1>5, <1>7, <1>8 DEF CatalogKept, Keeps
<1>11. Stages'
  BY <1>1, <1>6, <1>9 DEF CatalogKept, Stages
<1>12. Undisturbed'
  <2> SUFFICES ASSUME First \in open, ~Closing(First)
               PROVE  /\ Followed'
                      /\ commit'[First].answer = "ok" =>
                           /\ commit'[First].staged.catalog \subseteq disk'.catalog
                           /\ \A i \in Indices' : queue'[i].kind # "full"
    BY <1>1, <1>6 DEF Undisturbed, Closing
  <2>1. Followed
    BY DEF CatalogKept, Undisturbed
  <2>2. Followed'
    <3>1. \A i, j \in Indices' : i < j => i + 1 < j + 1
      BY <1>8
    <3> QED
      BY <1>8, <2>1, <3>1 DEF Followed, Carries
  <2>3. CASE r.to = "commit"
    <3>1. commit'[First].answer = "ok" => ok
      BY <1>4, <1>6, <2>3
    <3>2. r.kind = "full" /\ r.config = commit[First].staged
      BY <1>5, <2>3 DEF Sound, Apt
    <3>3. Carries(1, First, "commit")
      BY <1>2, <1>5, <2>3 DEF Carries
    <3>4. \A i \in Indices' : queue'[i].kind # "full"
      BY <1>5, <1>8, <2>1, <3>3 DEF Followed
    <3> QED
      BY <1>6, <1>7, <2>2, <3>1, <3>2, <3>4
  <2>4. CASE r.to # "commit"
    <3> SUFFICES ASSUME commit[First].answer = "ok"
                 PROVE  /\ commit'[First].staged.catalog \subseteq disk'.catalog
                        /\ \A i \in Indices' : queue'[i].kind # "full"
      BY <1>6, <2>2, <2>4
    <3>1. /\ commit[First].staged.catalog \subseteq disk.catalog
          /\ \A i \in Indices : queue[i].kind # "full"
      BY DEF CatalogKept, Undisturbed
    <3> QED
      BY <1>2, <1>5, <1>6, <1>7, <1>8, <3>1
  <2> QED
    BY <2>3, <2>4
<1>13. Adds'
  <2> SUFFICES ASSUME call.what = "edit"
               PROVE  /\ commit'[First].answer = "idle" /\ mem[First].catalog \subseteq call.config.catalog
                      /\ call'.answer = "ok" => call.config.catalog \subseteq disk'.catalog
    BY <1>1, <1>6 DEF Adds
  <2>1. commit[First].answer = "idle" /\ mem[First].catalog \subseteq call.config.catalog
    BY DEF CatalogKept, Adds
  <2>2. commit'[First].answer = "idle"
    BY <1>6, <1>9, <2>1
  <2>3. ASSUME call'.answer = "ok" PROVE r.to = "call"
    BY <1>1, <1>6, <2>3 DEF Turn
  <2>4. ASSUME call'.answer = "ok" PROVE call.config.catalog \subseteq disk'.catalog
    <3>1. ok /\ r.kind = "full" /\ r.config = call.config
      BY <1>4, <1>5, <1>6, <2>3, <2>4 DEF Sound, KindOf
    <3> QED
      BY <1>7, <3>1
  <2> QED
    BY <2>1, <2>2, <2>4
<1> QED
  BY <1>10, <1>11, <1>12, <1>13 DEF CatalogKept

\* An answer to a flush or a shutdown is neither a commit nor a change stored.
LEMMA ReportsCatalog ==
  ASSUME StoreInv, Sole, CatalogKept, WorkerReports
  PROVE  CatalogKept'
<1>1. /\ TypeOK /\ Turn /\ First \in Windows
      /\ queue # <<>> /\ queue' = Tail(queue) /\ UNCHANGED <<mem, acked, open, disk>>
  BY SoleFacts, HeadAnswered DEF WorkerReports
<1>2. PICK r \in Request : r = queue[1] /\ r.kind \in Barrier
  BY <1>1, HeadAnswered DEF WorkerReports, Barrier
<1>3. PICK answer \in {"ok", "failed"} : Reply(r, answer)
  BY <1>1, <1>2, HeadAnswered
<1>4. 1 \in Indices /\ Sound(r)
  <2>1. 1 \in Indices
    BY <1>1, SoleFacts, Shrunk
  <2> QED
    BY <1>2, <2>1, SoleFacts
<1>5. r.to # "commit" /\ (r.to = "call" => call.what # "edit")
  BY <1>2, <1>4 DEF Sound, KindOf, Barrier
<1>6. /\ commit'[First].staged = commit[First].staged
      /\ commit'[First].answer = commit[First].answer
      /\ call'.what = call.what /\ call'.window = call.window /\ call'.config = call.config
      /\ r.to # "call" => call' = call
  BY <1>1, <1>3, <1>5, ReplyFields
<1>7. \A i \in Indices' : i + 1 \in Indices /\ i \in Nat /\ queue'[i] = queue[i + 1]
  <2>1. \A i \in Indices' : i + 1 \in Indices /\ queue'[i] = queue[i + 1]
    BY <1>1, SoleFacts, Shrunk
  <2>2. \A i \in Indices' : i \in Nat
    BY DEF Indices
  <2> QED
    BY <2>1, <2>2
<1>8. Keeps'
  BY <1>1, <1>7 DEF CatalogKept, Keeps
<1>9. Stages'
  BY <1>1, <1>6 DEF CatalogKept, Stages
<1>10. Undisturbed'
  <2>1. Followed => Followed'
    <3>1. \A i, j \in Indices' : i < j => i + 1 < j + 1
      BY <1>7
    <3> QED
      BY <1>7, <3>1 DEF Followed, Carries
  <2> QED
    BY <1>1, <1>6, <1>7, <2>1 DEF CatalogKept, Undisturbed, Closing
<1>11. Adds'
  BY <1>1, <1>5, <1>6 DEF CatalogKept, Adds
<1> QED
  BY <1>8, <1>9, <1>10, <1>11 DEF CatalogKept

\* The commits of the sole window.
LEMMA CommitsCatalog ==
  ASSUME StoreInv, Sole, CatalogKept, NEW w \in Windows,
         BeginCommit(w) \/ FinishCommit(w) \/ CommitTimesOut(w)
  PROVE  CatalogKept'
<1>1. /\ TypeOK /\ First \in Windows /\ queue \in Seq(Request) /\ commit \in [Windows -> Commit]
      /\ w = First /\ w \in open /\ Free /\ UNCHANGED <<disk, call, open>>
  BY SoleFacts DEF TypeOK, BeginCommit, FinishCommit, CommitTimesOut, UiKeeps, workerVars
<1>2. Adds'
  BY <1>1 DEF Adds, Free, NoCall
<1>3. Followed /\ Keeps /\ Stages
  BY <1>1 DEF CatalogKept, Undisturbed, Closing, Free, NoCall
<1>4. CASE BeginCommit(w)
  <2> DEFINE sent == [answer |-> "waiting", staged |-> Staged(w),
                      generation |-> persist[w].generation,
                      layout |-> LayoutRequired(persist[w])]
  <2>1. /\ UNCHANGED <<mem, acked>> /\ commit[w] = NoCommit
        /\ commit' = [commit EXCEPT ![w] = sent]
        /\ queue' = Append(queue, Asked("full", w, "commit", Staged(w), FALSE))
    BY <1>4 DEF BeginCommit
  <2>2. Staged(w) \in Config /\ mem[w].catalog \subseteq Staged(w).catalog
    BY <1>1, StagedFields
  <2>3. Asked("full", w, "commit", Staged(w), FALSE) \in Request
    BY <2>2, NewRequests
  <2>4. PICK r \in Request : queue' = Append(queue, r) /\ r.config = Staged(w)
    BY <2>1, <2>3 DEF Asked
  <2>5. commit'[w].answer = "waiting" /\ commit'[w].staged = Staged(w)
    BY <1>1, <2>1
  <2>6. Keeps'
    BY <1>1, <1>3, <2>1, <2>2, <2>4, SendKeeps DEF Keeps
  <2>7. Stages'
    BY <1>1, <2>1, <2>2, <2>5 DEF Stages
  <2>8. Followed'
    <3>1. \A i \in Indices : ~Carries(i, First, "commit")
      BY <1>1, <2>1, SoleFacts DEF NoCommit
    <3> QED
      BY <1>1, <1>3, <2>4, <3>1, Behind
  <2>9. Undisturbed'
    BY <1>1, <2>5, <2>8 DEF Undisturbed
  <2> QED
    BY <1>2, <2>6, <2>7, <2>9 DEF CatalogKept
<1>5. CASE FinishCommit(w)
  <2>1. /\ UNCHANGED queue /\ commit'[w] = NoCommit /\ commit[w].answer \in {"ok", "failed"}
        /\ commit[w].answer = "failed" => UNCHANGED <<mem, acked>>
        /\ commit[w].answer = "ok" =>
             /\ acked' = acked \cup (commit[w].staged.catalog \ mem[w].catalog)
             /\ mem'[w].catalog = commit[w].staged.catalog
    BY <1>1, <1>5, Finishes
  <2>2. Stages'
    BY <1>1, <2>1 DEF Stages, NoCommit
  <2>3. Undisturbed'
    <3>1. Followed'
      BY <1>3, <2>1 DEF Followed, Carries, Indices
    <3>2. commit'[First].answer # "ok"
      BY <1>1, <2>1 DEF NoCommit
    <3> QED
      BY <3>1, <3>2 DEF Undisturbed
  <2>4. CASE commit[w].answer = "failed"
    <3>1. Keeps'
      BY <1>1, <1>3, <2>1, <2>4 DEF Keeps, Indices
    <3> QED
      BY <1>2, <2>2, <2>3, <3>1 DEF CatalogKept
  <2>5. CASE commit[w].answer = "ok"
    <3>1. /\ commit[First].staged.catalog \subseteq disk.catalog
          /\ \A i \in Indices : queue[i].kind # "full"
      BY <1>1, <2>5 DEF CatalogKept, Undisturbed, Closing, Free, NoCall
    <3>2. mem[w].catalog \subseteq commit[w].staged.catalog
      BY <1>1, <1>3, <2>5 DEF Stages
    <3>3. Keeps'
      BY <1>1, <1>3, <2>1, <2>5, <3>1, <3>2 DEF Keeps, Indices
    <3> QED
      BY <1>2, <2>2, <2>3, <3>3 DEF CatalogKept
  <2> QED
    BY <2>1, <2>4, <2>5
<1>6. CASE CommitTimesOut(w)
  <2>1. /\ UNCHANGED <<mem, acked>> /\ queue' = Unheard(w, "commit")
        /\ commit' = [commit EXCEPT ![w] = NoCommit]
    BY <1>6 DEF CommitTimesOut
  <2>2. /\ Indices' = Indices
        /\ \A i \in Indices :
             /\ queue'[i].kind = queue[i].kind /\ queue'[i].window = queue[i].window
             /\ queue'[i].config = queue[i].config
             /\ queue'[i].to = IF Carries(i, w, "commit") THEN "nobody" ELSE queue[i].to
    BY <1>1, <2>1, Released
  <2>3. commit'[First].answer = "idle"
    BY <1>1, <2>1 DEF NoCommit
  <2>4. Keeps'
    BY <1>3, <2>1, <2>2, <1>1 DEF Keeps
  <2>5. Followed'
    BY <1>1, <2>2 DEF Followed, Carries
  <2> QED
    BY <1>2, <2>3, <2>4, <2>5 DEF CatalogKept, Stages, Undisturbed
<1> QED
  BY <1>4, <1>5, <1>6

\* The blocking saves of the sole window.
LEMMA AsksCatalog ==
  ASSUME StoreInv, Sole, Sole', CatalogKept, NEW w \in Windows,
         BeginEdit(w) \/ BeginClose(w) \/ ClosePreferences(w) \/ CloseLayout(w) \/ CloseRelease(w)
  PROVE  CatalogKept'
<1>1. /\ TypeOK /\ First \in Windows /\ queue \in Seq(Request) /\ Keeps /\ Stages
  BY SoleFacts DEF CatalogKept
<1>2. UNCHANGED <<mem, commit, acked, disk>>
  BY DEF BeginEdit, BeginClose, ClosePreferences, CloseLayout, CloseRelease, windowVars, UiKeeps,
         workerVars
<1>3. Stages'
  BY <1>1, <1>2 DEF Stages
<1>4. ASSUME NEW what, NEW config, NEW kind, NEW layout, Made(what, w, config, kind, layout),
             kind = "full" => acked \subseteq config.catalog
      PROVE  Keeps' /\ call'.what = what /\ call'.window = w /\ call'.answer = "waiting"
             /\ call'.config = config
  <2>1. PICK r \in Request : queue' = Append(queue, r) /\ r.kind = kind /\ r.config = config
    BY <1>4 DEF Made
  <2>2. Keeps'
    BY <1>1, <1>2, <1>4, <2>1, SendKeeps
  <2> QED
    BY <1>4, <2>2 DEF Made
<1>5. ASSUME Keeps', call'.what \in {"preferences", "layout", "release"}, call'.window = First
      PROVE  CatalogKept'
  <2>1. Undisturbed' /\ Adds'
    BY <1>5 DEF Undisturbed, Closing, Adds
  <2> QED
    BY <1>3, <1>5, <2>1 DEF CatalogKept
<1>6. CASE BeginEdit(w)
  <2>1. /\ w = First /\ Free /\ commit[w] = NoCommit /\ open' = open /\ w \in open
    BY <1>1, <1>6, SoleFacts DEF BeginEdit, Sole, windowVars
  <2>2. PICK config : config = Staged(w)
    OBVIOUS
  <2>3. Made("edit", w, config, "full", FALSE)
    BY <1>1, <1>6, <2>2, EditBegins
  <2>4. mem[First].catalog \subseteq config.catalog /\ acked \subseteq config.catalog
    BY <1>1, <2>1, <2>2, StagedFields DEF Keeps
  <2>5. /\ Keeps' /\ call'.what = "edit" /\ call'.answer = "waiting" /\ call'.config = config
    BY <1>4, <2>3, <2>4
  <2>6. commit'[First].answer = "idle"
    BY <1>2, <2>1 DEF NoCommit
  <2>7. Followed'
    <3>1. \A i \in Indices : ~Carries(i, First, "commit")
      BY <2>1, SoleFacts DEF NoCommit
    <3>2. PICK r \in Request : queue' = Append(queue, r)
      BY <2>3 DEF Made
    <3>3. Followed
      BY <3>1 DEF Followed
    <3> QED
      BY <1>1, <3>1, <3>2, <3>3, Behind
  <2>8. Undisturbed' /\ Adds'
    BY <1>2, <2>4, <2>5, <2>6, <2>7 DEF Undisturbed, Adds
  <2> QED
    BY <1>3, <2>5, <2>8 DEF CatalogKept
<1>7. ASSUME UNCHANGED queue PROVE Keeps'
  BY <1>1, <1>2, <1>7 DEF Keeps, Indices
<1>8. CASE BeginClose(w)
  <2>1. w = First /\ UNCHANGED queue /\ call'.what = "preferences" /\ call'.window = w
    BY <1>8, CloseBegins, SoleFacts
  <2> QED
    BY <1>5, <1>7, <2>1
<1>9. CASE ClosePreferences(w)
  <2>1. /\ w = First
        /\ \/ UNCHANGED queue /\ call'.what = "layout" /\ call'.window = w
           \/ Made("preferences", w, mem[w], "preferences", LayoutRequired(persist[w]))
    BY <1>1, <1>9, PreferencesAsked, SoleFacts
  <2>2. ASSUME Made("preferences", w, mem[w], "preferences", LayoutRequired(persist[w]))
        PROVE  Keeps' /\ call'.what = "preferences" /\ call'.window = w
    <3>1. PICK config, layout : config = mem[w] /\ layout = LayoutRequired(persist[w])
      OBVIOUS
    <3> QED
      BY <1>4, <2>2, <3>1
  <2> QED
    BY <1>5, <1>7, <2>1, <2>2
<1>10. CASE CloseLayout(w)
  <2>1. /\ w = First
        /\ \/ UNCHANGED queue /\ call'.what = "release" /\ call'.window = w
           \/ \E config \in Config :
                config.catalog = disk.catalog /\ Made("layout", w, config, "full", FALSE)
    BY <1>1, <1>10, LayoutAsked, SoleFacts
  <2> QED
    BY <1>1, <1>4, <1>5, <1>7, <2>1 DEF Keeps
<1>11. CASE CloseRelease(w)
  <2>1. w = First /\ \E kind \in Barrier : Made("release", w, Blank, kind, FALSE)
    BY <1>11, ReleaseAsked, SoleFacts
  <2> QED
    BY <1>4, <1>5, <2>1 DEF Barrier
<1> QED
  BY <1>6, <1>8, <1>9, <1>10, <1>11

\* The sole window takes the answer of its call, or gives it up.
LEMMA EndsCatalog ==
  ASSUME StoreInv, Sole, CatalogKept, CallReturns \/ CallFails
  PROVE  CatalogKept'
<1>1. /\ TypeOK /\ Turn /\ First \in Windows /\ queue \in Seq(Request)
      /\ Keeps /\ Stages /\ Undisturbed /\ Adds
  BY SoleFacts DEF CatalogKept
<1>2. /\ call.window = First /\ UNCHANGED <<commit, disk, open>>
      /\ call.what \in {"edit", "preferences", "layout", "release"}
      /\ call.what = "preferences" => call' = Due("layout", First)
      /\ call.what = "layout" => call' = Due("release", First)
      /\ call.what \in {"edit", "release"} => call' = NoCall
  BY <1>1, CallEnds, SoleFacts
<1>3. call'.what # "edit"
  BY <1>2 DEF Due, NoCall
<1>4. First \in open /\ ~Closing(First)' => ~Closing(First)
  <2>1. call.what = "release" => First \notin open \/ call.answer = "due"
    BY <1>1, <1>2 DEF Turn
  <2>2. call.answer # "due"
    BY DEF CallReturns, CallFails
  <2> QED
    BY <1>2, <2>1, <2>2 DEF Closing, Due
<1>5. /\ Followed => Followed'
      /\ \A i \in Indices' : \E j \in Indices :
           queue'[i].kind = queue[j].kind /\ queue'[i].config = queue[j].config
  <2>1. CASE CallReturns
    <3>1. UNCHANGED queue
      BY <1>1, <2>1, Returns
    <3> QED
      BY <3>1 DEF Followed, Carries, Indices
  <2>2. CASE CallFails
    <3>1. queue' = Unheard(First, "call")
      BY <1>2, <2>2 DEF CallFails
    <3>2. /\ Indices' = Indices
          /\ \A i \in Indices :
               /\ queue'[i].kind = queue[i].kind /\ queue'[i].window = queue[i].window
               /\ queue'[i].config = queue[i].config
               /\ queue'[i].to = IF Carries(i, First, "call") THEN "nobody" ELSE queue[i].to
      BY <1>1, <3>1, Released
    <3>3. \A i \in Indices : Carries(i, First, "commit")' => Carries(i, First, "commit")
      BY <3>2 DEF Carries
    <3> QED
      BY <3>2, <3>3 DEF Followed
  <2> QED
    BY <2>1, <2>2
<1>6. Undisturbed'
  BY <1>1, <1>2, <1>4, <1>5 DEF Undisturbed
<1>7. CASE call.what = "edit" /\ CallReturns
  <2>1. /\ mem'[First] = call.config /\ call.answer = "ok" /\ UNCHANGED queue
        /\ acked' = acked \cup (call.config.catalog \ mem[First].catalog)
    BY <1>1, <1>2, <1>7, Returns
  <2>2. /\ commit[First].answer = "idle" /\ mem[First].catalog \subseteq call.config.catalog
        /\ call.config.catalog \subseteq disk.catalog
    BY <1>1, <1>7, <2>1 DEF Adds
  <2>3. Indices' = {}
    <3>1. queue' = <<>>
      BY <1>1, <1>7, <2>1 DEF Turn
    <3>2. Len(queue') = 0
      BY <3>1, EmptySeq
    <3> QED
      BY <3>2 DEF Indices
  <2>4. Keeps'
    BY <1>1, <1>2, <2>1, <2>2, <2>3 DEF Keeps
  <2>5. Stages'
    BY <1>2, <2>2 DEF Stages
  <2> QED
    BY <1>3, <1>6, <2>4, <2>5 DEF CatalogKept, Adds
<1>8. CASE ~(call.what = "edit" /\ CallReturns)
  <2>1. UNCHANGED <<mem, acked>>
    BY <1>1, <1>8, Returns DEF CallFails, windowVars
  <2>2. Keeps'
    BY <1>1, <1>2, <1>5, <2>1 DEF Keeps
  <2>3. Stages'
    BY <1>1, <1>2, <2>1 DEF Stages
  <2> QED
    BY <1>3, <1>6, <2>2, <2>3 DEF CatalogKept, Adds
<1> QED
  BY <1>7, <1>8

\* A sole window was the sole one before.
LEMMA SoleBefore ==
  ASSUME StoreInv, [Next]_vars, Sole'
  PROVE  Sole
<1>1. TypeOK /\ open \subseteq opened
  BY DEF StoreInv, QueueInv, IInv, TypeOK
<1>2. ASSUME NEW w \in Windows, Handler(w) PROVE Sole
  <2>1. CASE OpenWindow(w)
    BY <1>1, <2>1 DEF OpenWindow, Sole
  <2>2. CASE EditPreference(w) \/ EditLayout(w) \/ RecordUsage(w)
    BY <1>1, <2>2, Edited DEF Sole
  <2>3. CASE \E ready \in BOOLEAN : Drive(w, ready)
    BY <1>1, <2>3, Drives DEF Sole
  <2>4. CASE ~(\/ OpenWindow(w) \/ EditPreference(w) \/ EditLayout(w) \/ RecordUsage(w)
               \/ (\E ready \in BOOLEAN : Drive(w, ready)))
    <3>1. UNCHANGED opened
      BY <1>2, <2>4 DEF Handler, BeginCommit, FinishCommit, CommitTimesOut, BeginEdit, BeginClose,
                        ClosePreferences, CloseLayout, CloseRelease, windowVars
    <3>2. CASE BeginEdit(w)
      <4>1. crossed' = (crossed \/ commit[w] # NoCommit)
        BY <3>2 DEF BeginEdit
      <4> QED
        BY <3>1, <4>1 DEF Sole
    <3>3. CASE ~BeginEdit(w)
      <4>1. UNCHANGED crossed
        BY <1>2, <2>4, <3>3 DEF Handler, BeginCommit, FinishCommit, CommitTimesOut, BeginClose,
                                ClosePreferences, CloseLayout, CloseRelease
      <4> QED
        BY <3>1, <4>1 DEF Sole
    <3> QED
      BY <3>2, <3>3
  <2> QED
    BY <2>1, <2>2, <2>3, <2>4
<1>3. CASE WorkerSaves \/ WorkerReports
  BY <1>1, <1>3, HeadAnswered DEF Sole
<1>4. CASE CallReturns \/ CallFails
  BY <1>1, <1>4, CallEnds DEF Sole
<1>5. CASE OutsideWrite \/ UNCHANGED vars
  BY <1>5 DEF OutsideWrite, vars, windowVars, Sole
<1> QED
  BY <1>2, <1>3, <1>4, <1>5 DEF Next

\* What the user of a sole window was told is kept in every reachable state.
LEMMA CatalogInductive ==
  /\ Init => CatalogInv
  /\ CatalogInv /\ [Next]_vars => CatalogInv'
<1>1. ASSUME Init PROVE CatalogInv
  <2>1. StoreInv
    BY <1>1, StoreInductive
  <2>2. Indices = {}
    <3>1. Len(queue) = 0
      BY <1>1, EmptySeq DEF Init
    <3> QED
      BY <3>1 DEF Indices
  <2>3. acked = {} /\ call = NoCall /\ commit[First] = NoCommit
    BY <1>1, RepositoryAssumption DEF Init
  <2> QED
    BY <2>1, <2>2, <2>3 DEF CatalogInv, CatalogKept, Keeps, Stages, Undisturbed, Followed, Adds,
                            NoCall, NoCommit
<1>2. ASSUME CatalogInv, [Next]_vars PROVE CatalogInv'
  <2>1. StoreInv /\ StoreInv'
    BY <1>2, StoreInductive DEF CatalogInv
  <2> SUFFICES ASSUME Sole' PROVE CatalogKept'
    BY <2>1 DEF CatalogInv
  <2>2. Sole /\ CatalogKept /\ TypeOK
    BY <1>2, <2>1, SoleBefore, SoleFacts DEF CatalogInv
  <2>3. CASE WorkerSaves \/ WorkerReports
    BY <2>1, <2>2, <2>3, SavesCatalog, ReportsCatalog
  <2>4. ASSUME NEW w \in Windows, Handler(w) PROVE CatalogKept'
    <3>1. CASE OpenWindow(w)
      <4>1. open \subseteq opened
        BY <2>2 DEF TypeOK
      <4> QED
        BY <2>2, <3>1, <4>1 DEF OpenWindow, Sole
    <3>2. CASE EditPreference(w) \/ EditLayout(w) \/ RecordUsage(w)
      <4>1. /\ UNCHANGED <<queue, call, open, acked, commit, disk>>
            /\ mem'[First].catalog = mem[First].catalog
        BY <2>1, <2>2, <3>2, Edited, SoleFacts DEF UiKeeps, workerVars
      <4> QED
        BY <2>2, <4>1, CatalogStays
    <3>3. ASSUME NEW ready \in BOOLEAN, Drive(w, ready) PROVE CatalogKept'
      <4>1. PICK q \in Persistence :
              /\ Free /\ UNCHANGED <<mem, commit, call, open, acked, disk>>
              /\ \/ queue' = queue
                 \/ queue' = Append(queue, Asked("preferences", w, "save", mem[w], LayoutRequired(q)))
        BY <2>2, <3>3, Drives DEF UiKeeps, workerVars
      <4>2. CASE queue' = queue
        BY <2>2, <4>1, <4>2, CatalogStays
      <4>3. CASE queue' # queue
        <5>1. mem[w] \in Config /\ LayoutRequired(q) \in BOOLEAN
          BY <2>2, Numbers DEF LayoutRequired
        <5>2. Asked("preferences", w, "save", mem[w], LayoutRequired(q)) \in Request
          BY <5>1, NewRequests
        <5>3. PICK r \in Request : queue' = Append(queue, r) /\ r.kind = "preferences"
          BY <4>1, <4>3, <5>2 DEF Asked
        <5>4. queue \in Seq(Request)
          BY <2>2 DEF TypeOK
        <5>5. Keeps'
          BY <2>2, <4>1, <5>3, <5>4, SendKeeps DEF CatalogKept
        <5>6. Followed => Followed'
          BY <5>3, <5>4, Behind
        <5>7. (\A i \in Indices : queue[i].kind # "full") => \A i \in Indices' : queue'[i].kind # "full"
          BY <5>3, <5>4, Grown
        <5>8. Undisturbed'
          BY <2>2, <4>1, <5>6, <5>7 DEF CatalogKept, Undisturbed, Closing
        <5> QED
          BY <2>2, <4>1, <5>5, <5>8 DEF CatalogKept, Stages, Adds
      <4> QED
        BY <4>2, <4>3
    <3> QED
      BY <2>1, <2>2, <2>4, <3>1, <3>2, <3>3, CommitsCatalog, AsksCatalog DEF Handler
  <2>5. CASE CallReturns \/ CallFails
    BY <2>1, <2>2, <2>5, EndsCatalog
  <2>6. CASE OutsideWrite
    <3>1. disk.catalog \subseteq disk'.catalog
      BY <2>2, <2>6 DEF OutsideWrite, TypeOK
    <3> QED
      BY <2>2, <2>6, <3>1, CatalogStays DEF OutsideWrite, windowVars
  <2>7. CASE UNCHANGED vars
    BY <2>2, <2>7, CatalogStays DEF vars, windowVars, workerVars
  <2> QED
    BY <1>2, <2>3, <2>4, <2>5, <2>6, <2>7 DEF Next
<1> QED
  BY <1>1, <1>2

\* While one window has been open and has made no blocking save during a full
\* commit, every entry its user was told is saved is in the file, whatever saves
\* of preferences, commits given up, failures and other writers do
\* (commit_staged_config_async, commit_catalog_change, save_full_with_revision).
THEOREM SoleWindowKeeps == Spec => []SoleWindowKeepsAcked
<1>1. CatalogInv => SoleWindowKeepsAcked
  BY DEF CatalogInv, CatalogKept, Keeps, Sole, SoleWindowKeepsAcked
<1> QED
  BY <1>1, CatalogInductive, PTL DEF Spec
=============================================================================
