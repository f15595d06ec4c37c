---------------------------- MODULE Services_proofs ---------------------------
(***************************************************************************)
(* The components of MCServices, for all values of the constants: accepted *)
(* keys stay in known_hosts whatever processes share it, an update leaves  *)
(* a program, and what each component holds keeps to its types and bounds. *)
(***************************************************************************)
EXTENDS MCServices, TabTransfer_proofs, Sftp_proofs, Connections_proofs, TLAPS

-----------------------------------------------------------------------------
(* The keys of hosts.                                                      *)

States == {"rest", "acquire", "remove stale", "read", "write", "check lock", "unlock"}
Entries == [Hosts -> Keys \cup {NoKey}]
Process ==
  [at : States, host : Hosts \cup {NoKey}, key : Keys \cup {NoKey}, read : Entries]

AtWork(p) == procs[p].at \in {"read", "write", "check lock", "unlock"}

HkTyped ==
  /\ hosts \in Entries
  /\ lock \in [by : Procs \cup {Free, Orphan}, stale : BOOLEAN]
  /\ procs \in [Procs -> Process]
  /\ accepted \subseteq Hosts \X Keys
  /\ overtaken \in BOOLEAN

(* Between the steps of a verification: it knows what it verifies, and     *)
(* while no lock was taken from a process at work, the processes at work   *)
(* hold the lock and the one about to write has read the file as it is,    *)
(* without an entry of its host.                                           *)
Verifying ==
  \A p \in Procs : procs[p].at \in {"acquire", "remove stale", "read", "write"} =>
    procs[p].host \in Hosts /\ procs[p].key \in Keys
Exclusive == \A p \in Procs : AtWork(p) => lock.by = p
ReadIsCurrent ==
  \A p \in Procs : procs[p].at = "write" =>
    procs[p].read = hosts /\ hosts[procs[p].host] = NoKey

HkIInv ==
  /\ HkTyped
  /\ Verifying
  /\ overtaken \/ (Exclusive /\ ReadIsCurrent)
  /\ KeysKept

\* A process without a verification.
LEMMA RestingTyped == Resting \in Process /\ Decided \in Process
  BY DEF Resting, Decided, Process, States, Entries

\* Accepted keys are pairs of a host and a key,
LEMMA AddPair ==
  ASSUME NEW A, A \subseteq Hosts \X Keys, NEW h \in Hosts, NEW k \in Keys
  PROVE  A \cup {<<h, k>>} \subseteq Hosts \X Keys
  OBVIOUS

\* and one more agrees with the file if it is the entry of its host.
LEMMA PairKept ==
  ASSUME NEW A, NEW f, NEW h, NEW k, \A a \in A : f[a[1]] = a[2], f[h] = k
  PROVE  \A a \in A \cup {<<h, k>>} : f[a[1]] = a[2]
<1>1. <<h, k>>[1] = h /\ <<h, k>>[2] = k
  OBVIOUS
<1>2. QED
  BY <1>1

(* What a process at work on an entry of the file knows.                   *)
LEMMA AtEntry ==
  ASSUME HkIInv, NEW p \in Procs, procs[p].at \in {"read", "write"}
  PROVE  /\ hosts \in Entries
         /\ procs \in [Procs -> Process]
         /\ accepted \subseteq Hosts \X Keys
         /\ procs[p].host \in Hosts
         /\ procs[p].key \in Keys
         /\ ~overtaken =>
              /\ \A a \in accepted : hosts[a[1]] = a[2]
              /\ \A q \in Procs : AtWork(q) <=> q = p
              /\ lock.by = p
              /\ procs[p].at = "write" => procs[p].read = hosts /\ hosts[procs[p].host] = NoKey
<1>1. HkTyped /\ Verifying /\ KeysKept /\ (overtaken \/ (Exclusive /\ ReadIsCurrent))
  BY DEF HkIInv
<1>2. /\ hosts \in Entries
      /\ procs \in [Procs -> Process]
      /\ accepted \subseteq Hosts \X Keys
  BY <1>1 DEF HkTyped
<1>3. procs[p].host \in Hosts /\ procs[p].key \in Keys
  BY <1>1 DEF Verifying
<1>4. ASSUME ~overtaken
      PROVE  /\ \A a \in accepted : hosts[a[1]] = a[2]
             /\ \A q \in Procs : AtWork(q) <=> q = p
             /\ lock.by = p
             /\ procs[p].at = "write" => procs[p].read = hosts /\ hosts[procs[p].host] = NoKey
  <2>1. Exclusive /\ ReadIsCurrent
    BY <1>1, <1>4
  <2>2. AtWork(p)
    BY DEF AtWork
  <2>3. \A q \in Procs : AtWork(q) => lock.by = q
    BY <2>1 DEF Exclusive
  <2>4. \A q \in Procs : AtWork(q) <=> q = p
    BY <2>2, <2>3
  <2>5. \A a \in accepted : hosts[a[1]] = a[2]
    BY <1>1, <1>4 DEF KeysKept
  <2>6. QED
    BY <2>1, <2>2, <2>3, <2>4, <2>5 DEF ReadIsCurrent
<1>5. QED
  BY <1>2, <1>3, <1>4

\* The comparison of the key with the entries read.
LEMMA ClassifyStep ==
  ASSUME HkIInv, NEW p \in Procs, Classify(p)
  PROVE  HkIInv'
<1> DEFINE h == procs[p].host
           k == procs[p].key
           first == [procs[p] EXCEPT !.at = "write", !.read = hosts]
<1>1. procs[p].at = "read"
  BY DEF Classify
<1>2. /\ hosts \in Entries /\ procs \in [Procs -> Process] /\ accepted \subseteq Hosts \X Keys
      /\ h \in Hosts /\ k \in Keys
  BY <1>1, AtEntry
<1>3. ~overtaken => /\ \A a \in accepted : hosts[a[1]] = a[2]
                    /\ \A q \in Procs : AtWork(q) <=> q = p
                    /\ lock.by = p
  BY <1>1, AtEntry
<1>4. /\ procs' = [procs EXCEPT ![p] = IF hosts[h] # NoKey THEN Decided ELSE first]
      /\ hosts' = hosts /\ lock' = lock /\ overtaken' = overtaken
      /\ accepted' = IF hosts[h] = k THEN accepted \cup {<<h, k>>} ELSE accepted
  BY DEF Classify
<1>5. /\ first \in Process /\ first.at = "write" /\ first.read = hosts
      /\ first.host = h /\ first.key = k
  BY <1>2 DEF Process, States
<1>6. Decided \in Process /\ Decided.at = "check lock"
  BY RestingTyped DEF Decided, Resting
<1> HIDE DEF h, k, first
<1>7. \A q \in Procs \ {p} : procs'[q] = procs[q]
  BY <1>2, <1>4
<1>8. /\ procs'[p] \in {Decided, first}
      /\ procs'[p] = first => hosts[h] = NoKey
  BY <1>2, <1>4, <1>5, <1>6
<1>9. HkTyped'
  <2>1. procs' \in [Procs -> Process]
    BY <1>2, <1>4, <1>5, <1>6
  <2>2. accepted' \subseteq Hosts \X Keys
    BY <1>2, <1>4, AddPair
  <2>3. lock' = lock /\ overtaken' = overtaken /\ HkTyped
    BY <1>4 DEF HkIInv
  <2>4. QED
    BY <1>2, <1>4, <2>1, <2>2, <2>3 DEF HkTyped
<1>10. Verifying'
  <2>1. Verifying
    BY DEF HkIInv
  <2>2. QED
    BY <1>2, <1>5, <1>6, <1>7, <1>8, <2>1 DEF Verifying
<1>11. ASSUME ~overtaken
       PROVE  Exclusive' /\ ReadIsCurrent'
  <2>1. \A q \in Procs \ {p} : ~AtWork(q)'
    BY <1>3, <1>7, <1>11 DEF AtWork
  <2>2. Exclusive'
    BY <1>3, <1>4, <1>11, <2>1 DEF Exclusive
  <2>3. \A q \in Procs \ {p} : procs'[q].at # "write"
    BY <2>1 DEF AtWork
  <2>4. procs'[p].at = "write" => procs'[p].read = hosts /\ hosts[procs'[p].host] = NoKey
    BY <1>5, <1>6, <1>8
  <2>5. QED
    BY <1>4, <2>2, <2>3, <2>4 DEF ReadIsCurrent
<1>12. ASSUME ~overtaken
       PROVE  \A a \in accepted' : hosts[a[1]] = a[2]
  BY <1>3, <1>4, <1>12, PairKept
<1>13. QED
  BY <1>4, <1>9, <1>10, <1>11, <1>12 DEF HkIInv, KeysKept

\* The entry is written, and the key accepted or not.
LEMMA RecordStep ==
  ASSUME HkIInv, NEW p \in Procs,
         RecordKey(p) \/ (StorageFails(p) /\ procs[p].at = "write" /\ hosts' = WithEntry(p))
  PROVE  HkIInv'
<1> DEFINE h == procs[p].host
           k == procs[p].key
<1>1. procs[p].at = "write"
  BY DEF RecordKey
<1>2. /\ hosts \in Entries /\ procs \in [Procs -> Process] /\ accepted \subseteq Hosts \X Keys
      /\ h \in Hosts /\ k \in Keys
  BY <1>1, AtEntry
<1>3. ~overtaken => /\ \A a \in accepted : hosts[a[1]] = a[2]
                    /\ \A q \in Procs : AtWork(q) <=> q = p
                    /\ lock.by = p
                    /\ procs[p].read = hosts
                    /\ hosts[h] = NoKey
  BY <1>1, AtEntry
<1>4. /\ procs' = [procs EXCEPT ![p] = Decided]
      /\ hosts' = [procs[p].read EXCEPT ![h] = k]
      /\ accepted' \in {accepted, accepted \cup {<<h, k>>}}
      /\ lock' = lock /\ overtaken' = overtaken
  BY DEF RecordKey, StorageFails, WithEntry
<1>5. procs[p].read \in Entries
  BY <1>2 DEF Process
<1>6. Decided \in Process /\ Decided.at = "check lock"
  BY RestingTyped DEF Decided, Resting
<1> HIDE DEF h, k
<1>7. procs'[p] = Decided /\ \A q \in Procs \ {p} : procs'[q] = procs[q]
  BY <1>2, <1>4
<1>8. HkTyped'
  <2>1. procs' \in [Procs -> Process]
    BY <1>2, <1>4, <1>6
  <2>2. accepted' \subseteq Hosts \X Keys
    BY <1>2, <1>4, AddPair
  <2>3. hosts' \in Entries
    BY <1>2, <1>4, <1>5 DEF Entries
  <2>4. lock' = lock /\ overtaken' = overtaken /\ HkTyped
    BY <1>4 DEF HkIInv
  <2>5. QED
    BY <2>1, <2>2, <2>3, <2>4 DEF HkTyped
<1>9. Verifying'
  <2>1. Verifying
    BY DEF HkIInv
  <2>2. QED
    BY <1>6, <1>7, <2>1 DEF Verifying
<1>10. ASSUME ~overtaken
       PROVE  Exclusive' /\ ReadIsCurrent'
  <2>1. \A q \in Procs \ {p} : ~AtWork(q)'
    BY <1>3, <1>7, <1>10 DEF AtWork
  <2>2. Exclusive'
    BY <1>3, <1>4, <1>10, <2>1 DEF Exclusive
  <2>3. \A q \in Procs : procs'[q].at # "write"
    BY <1>6, <1>7, <2>1 DEF AtWork
  <2>4. QED
    BY <2>2, <2>3 DEF ReadIsCurrent
<1>11. ASSUME ~overtaken
       PROVE  \A a \in accepted' : hosts'[a[1]] = a[2]
  <2>1. hosts'[h] = k /\ \A i \in Hosts \ {h} : hosts'[i] = hosts[i]
    BY <1>2, <1>3, <1>4, <1>11 DEF Entries
  <2>2. ASSUME NEW a \in accepted
        PROVE  hosts'[a[1]] = a[2]
    <3>1. a[1] \in Hosts /\ a[2] \in Keys /\ hosts[a[1]] = a[2]
      BY <1>2, <1>3, <1>11
    <3>2. a[1] # h
      BY <1>3, <1>11, <3>1, HostKeysAssumption
    <3>3. QED
      BY <2>1, <3>1, <3>2
  <2>3. \A a \in accepted \cup {<<h, k>>} : hosts'[a[1]] = a[2]
    BY <2>1, <2>2, PairKept
  <2>4. QED
    BY <1>4, <2>3
<1>12. QED
  BY <1>4, <1>8, <1>9, <1>10, <1>11 DEF HkIInv, KeysKept

\* Every step keeps the invariant: one case per action.
LEMMA HkStep == HkIInv /\ [HkNext]_hkVars => HkIInv'
<1> SUFFICES ASSUME HkIInv, [HkNext]_hkVars
             PROVE  HkIInv'
  OBVIOUS
<1> USE HostKeysAssumption, RestingTyped DEF HkIInv
<1> USE DEF HkTyped, Verifying, Exclusive, ReadIsCurrent, AtWork, KeysKept
<1>1. ASSUME NEW p \in Procs, NEW h \in Hosts, NEW k \in Keys, VerifyHostKey(p, h, k)
      PROVE  HkIInv'
  BY <1>1 DEF VerifyHostKey, Resting, Process, States
<1>2. ASSUME NEW p \in Procs, Acquire(p)
      PROVE  HkIInv'
  BY <1>2 DEF Acquire, StepTo, Process, States
<1>3. ASSUME NEW p \in Procs, FindStale(p)
      PROVE  HkIInv'
  BY <1>3 DEF FindStale, StepTo, Process, States
<1>4. ASSUME NEW p \in Procs, RemoveStale(p)
      PROVE  HkIInv'
  BY <1>4 DEF RemoveStale, Removes, NoLock, StepTo, Process, States
<1>5. ASSUME NEW p \in Procs, GiveUp(p)
      PROVE  HkIInv'
  BY <1>5 DEF GiveUp, Resting, Process, States
<1>6. ASSUME NEW p \in Procs, Classify(p)
      PROVE  HkIInv'
  BY <1>6, ClassifyStep
<1>7. ASSUME NEW p \in Procs, RecordKey(p)
      PROVE  HkIInv'
  BY <1>7, RecordStep
<1>8. ASSUME NEW p \in Procs, StorageFails(p)
      PROVE  HkIInv'
  <2>1. CASE hosts' = hosts
    BY <1>8, <2>1 DEF StorageFails, Resting, Decided, Process, States
  <2>2. CASE hosts' # hosts
    <3>1. procs[p].at = "write" /\ hosts' = WithEntry(p)
      BY <1>8, <2>2 DEF StorageFails
    <3> QED
      BY <1>8, <3>1, RecordStep
  <2> QED
    BY <2>1, <2>2
<1>9. ASSUME NEW p \in Procs, CheckToken(p)
      PROVE  HkIInv'
  <2> PICK to \in {"unlock", "rest"} :
        StepTo(p, "check lock", to) /\ (to = "unlock" => lock.by = p)
    BY <1>9 DEF CheckToken
  <2> UNCHANGED <<hosts, lock, accepted, verifies, overtaken>>
    BY <1>9 DEF CheckToken
  <2>1. QED
    BY DEF StepTo, Process, States
<1>10. ASSUME NEW p \in Procs, Unlock(p)
       PROVE  HkIInv'
  BY <1>10 DEF Unlock, Removes, NoLock, StepTo, Process, States
<1>11. ASSUME NEW p \in Procs, ProcessEnds(p)
       PROVE  HkIInv'
  BY <1>11 DEF ProcessEnds, Resting, Process, States
<1>12. CASE LockAges
  BY <1>12 DEF LockAges
<1>13. CASE UNCHANGED hkVars
  BY <1>13 DEF hkVars
<1>14. QED
  BY <1>1, <1>2, <1>3, <1>4, <1>5, <1>6, <1>7, <1>8, <1>9, <1>10, <1>11, <1>12, <1>13
     DEF HkNext

\* It holds at the start.
LEMMA HkInitially == HkInit => HkIInv
<1> SUFFICES ASSUME HkInit
             PROVE  HkIInv
  OBVIOUS
<1>1. HkTyped
  BY RestingTyped DEF HkInit, HkTyped, NoLock, Entries
<1>2. \A p \in Procs : procs[p].at = "rest"
  BY DEF HkInit, Resting
<1>3. QED
  BY <1>1, <1>2 DEF HkIInv, HkInit, Verifying, Exclusive, ReadIsCurrent, AtWork, KeysKept

(* However many processes verify at once, end at any step or find locks    *)
(* stale: a key that was accepted stays in the file, unless the lock of a  *)
(* process at work was removed.                                            *)
THEOREM AcceptedKeysStay == HkSpec => []KeysKept
<1>1. HkIInv => KeysKept
  BY DEF HkIInv
<1>2. QED
  BY <1>1, HkInitially, HkStep, PTL DEF HkSpec
-----------------------------------------------------------------------------
(* The installed program and its copies.                                   *)

ImageStages  == {"back up", "install", "launch", "clean up", "restore"}
BundleStages == {"stage", "clear old", "move aside", "move in", "put back", "drop old"}
Instance ==
  [stage : {"running", "ended"} \cup ImageStages \cup BundleStages,
   new : NewVersions \cup {0}, backup : Versions \cup {0}]

UpTyped ==
  /\ layout \in {"AppImage", "bundle"}
  /\ works \subseteq Versions
  /\ insts \in [Instances -> Instance]
  /\ \A i \in Instances :
       insts[i].stage \in {"running", "ended"} \cup
         (IF layout = "AppImage" THEN ImageStages ELSE BundleStages)

Images == {image, sidecar, staged} \subseteq Versions \cup {0}

(* Who has no backup yet, or no more, and who installs alone.              *)
Backups ==
  \A i \in Instances :
    insts[i].stage \notin {"install", "launch", "clean up", "restore"} => insts[i].backup = 0
Alone == \A i, j \in Installing : i = j

(* An AppImage that starts is at hand at every stage: among the leftovers  *)
(* or in place, but while the new one is on trial, in the backup.          *)
ImageAtHand ==
  /\ (\A i \in Instances : insts[i].stage \notin {"launch", "restore"}) =>
       (leftovers \cup {image}) \cap works # {}
  /\ \A i \in Instances :
       /\ insts[i].stage = "install" => insts[i].backup = image
       /\ insts[i].stage \in {"launch", "restore"} =>
            (leftovers \cup {insts[i].backup}) \cap works # {}
       /\ insts[i].stage = "clean up" => image \in works

BundleAtHand ==
  /\ image # 0 \/ sidecar # 0
  /\ \A i \in Instances :
       insts[i].stage \in {"stage", "clear old", "move aside", "drop old"} => image # 0

UpIInv ==
  /\ UpTyped /\ Images
  /\ Backups
  /\ overlapped \/ (Alone /\ IF layout = "AppImage" THEN ImageAtHand ELSE BundleAtHand)

(* What an instance at a stage of an installation can rely on.             *)
LEMMA AtInstallation ==
  ASSUME UpIInv, ~overlapped, NEW i \in Instances,
         insts[i].stage \notin {"running", "ended"}
  PROVE  \A j \in Instances \ {i} : insts[j].stage \in {"running", "ended"}
  BY DEF UpIInv, Alone, Installing

(* A step of one instance that installs nothing new.                       *)
LEMMA StillAlone ==
  ASSUME UpIInv, NEW i \in Instances, NEW n \in Instance,
         insts' = [insts EXCEPT ![i] = n],
         n.stage \in {"running", "ended"} \/ insts[i].stage \notin {"running", "ended"}
  PROVE  Alone => Alone'
<1>1. \A j \in Instances : insts'[j] = IF j = i THEN n ELSE insts[j]
  BY DEF UpIInv, UpTyped
<1>2. Installing' \subseteq Installing
  BY <1>1 DEF Installing
<1>3. QED
  BY <1>2 DEF Alone

(* It is enough to look at the instance that moved.                        *)
LEMMA OneMoved ==
  ASSUME UpIInv, NEW i \in Instances, NEW n \in Instance,
         insts' = [insts EXCEPT ![i] = n],
         layout' = layout, works' = works,
         n.stage \in {"running", "ended"} \cup
           (IF layout = "AppImage" THEN ImageStages ELSE BundleStages),
         n.stage \notin {"install", "launch", "clean up", "restore"} => n.backup = 0
  PROVE  /\ UpTyped' /\ Backups'
         /\ insts'[i] = n
         /\ \A j \in Instances \ {i} : insts'[j] = insts[j]
<1>1. insts'[i] = n /\ \A j \in Instances \ {i} : insts'[j] = insts[j]
  BY DEF UpIInv, UpTyped
<1>2. UpTyped'
  BY <1>1 DEF UpIInv, UpTyped
<1>3. Backups'
  BY <1>1 DEF UpIInv, Backups
<1>4. QED
  BY <1>1, <1>2, <1>3



(* Every step but the first of an installation.                            *)
LEMMA Moved ==
  ASSUME UpIInv, Images', NEW i \in Instances, NEW n \in Instance,
         insts' = [insts EXCEPT ![i] = n],
         upSame,
         n.stage \in {"running", "ended"} \/
           /\ insts[i].stage \notin {"running", "ended"}
           /\ n.stage \in IF layout = "AppImage" THEN ImageStages ELSE BundleStages,
         n.stage \notin {"install", "launch", "clean up", "restore"} => n.backup = 0,
         insts[i].stage \in {"running", "ended"} =>
           image' = image /\ sidecar' = sidecar /\ leftovers' = leftovers,
         insts[i].stage \notin {"running", "ended"} /\ ~overlapped /\ layout = "AppImage" /\ ImageAtHand =>
           /\ n.stage \in {"launch", "restore"} \/ (leftovers' \cup {image'}) \cap works # {}
           /\ n.stage = "install" => n.backup = image'
           /\ n.stage \in {"launch", "restore"} => (leftovers' \cup {n.backup}) \cap works # {}
           /\ n.stage = "clean up" => image' \in works,
         insts[i].stage \notin {"running", "ended"} /\ ~overlapped /\ layout # "AppImage" /\ BundleAtHand =>
           /\ image' # 0 \/ sidecar' # 0
           /\ n.stage \in {"stage", "clear old", "move aside", "drop old"} => image' # 0
  PROVE  UpIInv'
<1>1. layout' = layout /\ works' = works /\ overlapped' = overlapped
  BY DEF upSame
<1>2. /\ UpTyped' /\ Backups' /\ insts'[i] = n
      /\ \A j \in Instances \ {i} : insts'[j] = insts[j]
  BY <1>1, OneMoved
<1>3. SUFFICES ASSUME ~overlapped
               PROVE  Alone' /\ IF layout = "AppImage" THEN ImageAtHand' ELSE BundleAtHand'
  BY <1>1, <1>2 DEF UpIInv
<1>4. Alone'
  BY <1>3, StillAlone DEF UpIInv
<1>5. CASE insts[i].stage \in {"running", "ended"}
  <2>1. CASE layout = "AppImage"
    BY <1>1, <1>2, <1>3, <1>4, <1>5, <2>1 DEF UpIInv, ImageAtHand
  <2>2. CASE layout # "AppImage"
    BY <1>1, <1>2, <1>3, <1>4, <1>5, <2>2 DEF UpIInv, BundleAtHand
  <2>3. QED
    BY <2>1, <2>2
<1>6. CASE insts[i].stage \notin {"running", "ended"}
  <2>1. \A j \in Instances \ {i} : insts'[j].stage \in {"running", "ended"}
    BY <1>2, <1>3, <1>6, AtInstallation
  <2>2. CASE layout = "AppImage"
    BY <1>1, <1>2, <1>3, <1>4, <2>1, <2>2 DEF UpIInv, ImageAtHand
  <2>3. CASE layout # "AppImage"
    BY <1>1, <1>2, <1>3, <1>4, <2>1, <2>3 DEF UpIInv, BundleAtHand
  <2>4. QED
    BY <2>2, <2>3
<1>7. QED
  BY <1>5, <1>6

(* The layout that goes with a stage, and an instance that moves on.       *)
LEMMA LayoutOf ==
  ASSUME UpIInv, NEW i \in Instances
  PROVE  /\ insts[i].stage \in ImageStages => layout = "AppImage"
         /\ insts[i].stage \in BundleStages => layout = "bundle"
  BY DEF UpIInv, UpTyped, ImageStages, BundleStages

\* An instance that goes to another stage.
LEMMA MovedOn ==
  ASSUME UpIInv, NEW i \in Instances,
         NEW stage \in {"running", "ended"} \cup ImageStages \cup BundleStages
  PROVE  LET n == [insts[i] EXCEPT !.stage = stage]
             m == [Idle EXCEPT !.stage = stage]
         IN  /\ n \in Instance /\ n.stage = stage /\ n.backup = insts[i].backup
             /\ ToStage(i, stage) => insts' = [insts EXCEPT ![i] = n]
             /\ m \in Instance /\ m.stage = stage /\ m.backup = 0
<1>1. insts[i] \in Instance
  BY DEF UpIInv, UpTyped
<1>2. QED
  BY <1>1 DEF Instance, Idle, UpIInv, UpTyped, ToStage

\* The three paths of an AppImage hold known versions, or nothing.
LEMMA ImagesStep ==
  ASSUME UpIInv, UpNext
  PROVE  Images'
<1>1. PICK i \in Instances :
        \/ \E v \in NewVersions : InstallAndRestart(i, v)
        \/ BackUp(i) \/ InstallImage(i) \/ Launch(i) \/ CleanUp(i) \/ RestoreImage(i)
        \/ StageBundle(i) \/ ClearOld(i) \/ MoveBundleAside(i) \/ MoveBundleIn(i)
        \/ PutBack(i) \/ DropOld(i)
        \/ InstanceEnds(i) \/ StartProgram(i)
  BY DEF UpNext
<1>2. /\ {image, sidecar, staged} \subseteq Versions \cup {0}
      /\ {insts[i].new, insts[i].backup} \subseteq Versions \cup {0}
  BY DEF UpIInv, Images, UpTyped, Instance, Versions
<1>3. CASE (\E v \in NewVersions : InstallAndRestart(i, v)) \/ BackUp(i) \/ Launch(i)
           \/ CleanUp(i) \/ InstanceEnds(i) \/ StartProgram(i)
  BY <1>2, <1>3 DEF Images, InstallAndRestart, BackUp, Launch, CleanUp, InstanceEnds, StartProgram
<1>4. CASE InstallImage(i) \/ RestoreImage(i)
  BY <1>2, <1>4 DEF Images, InstallImage, RestoreImage
<1>5. CASE StageBundle(i) \/ ClearOld(i) \/ DropOld(i)
  <2>1. CASE StageBundle(i)
    BY <1>2, <2>1 DEF Images, StageBundle
  <2>2. CASE ClearOld(i)
    BY <1>2, <2>2 DEF Images, ClearOld
  <2>3. CASE DropOld(i)
    BY <1>2, <2>3 DEF Images, DropOld
  <2>4. QED
    BY <1>5, <2>1, <2>2, <2>3
<1>6. CASE MoveBundleAside(i) \/ MoveBundleIn(i) \/ PutBack(i)
  BY <1>2, <1>6 DEF Images, MoveBundleAside, MoveBundleIn, PutBack
<1>7. QED
  BY <1>1, <1>3, <1>4, <1>5, <1>6

(* A backup that starts is not the mark of none.                           *)
LEMMA StillThere ==
  ASSUME UpIInv, NEW b, (leftovers \cup {b}) \cap works # {}
  PROVE  (leftovers \cup ({b} \ {0})) \cap works # {}
<1>1. 0 \notin works
  BY UpdateAssumption DEF UpIInv, UpTyped, Versions
<1>2. PICK v \in works : v \in leftovers \cup {b}
  OBVIOUS
<1>3. v \in leftovers \cup ({b} \ {0})
  BY <1>1, <1>2
<1>4. QED
  BY <1>2, <1>3

\* Every step keeps the invariant: one case per action.
LEMMA UpStep ==
  ASSUME UpIInv, UpNext
  PROVE  UpIInv'
<1> USE UpdateAssumption
<1>0. Images'
  BY ImagesStep
<1>1. ASSUME NEW i \in Instances, NEW v \in NewVersions, InstallAndRestart(i, v)
      PROVE  UpIInv'
  <2> DEFINE n == [insts[i] EXCEPT !.new = v,
                     !.stage = IF layout = "AppImage" THEN "back up" ELSE "stage"]
  <2>1. /\ n \in Instance /\ n.backup = 0
        /\ n.stage = IF layout = "AppImage" THEN "back up" ELSE "stage"
    BY <1>1 DEF InstallAndRestart, AtStage, UpIInv, UpTyped, Backups, Instance, ImageStages,
                BundleStages
  <2>2. /\ insts' = [insts EXCEPT ![i] = n]
        /\ overlapped' = (overlapped \/ Installing # {} \/ image = 0)
        /\ layout' = layout /\ works' = works /\ image' = image /\ sidecar' = sidecar
        /\ leftovers' = leftovers
    BY <1>1 DEF InstallAndRestart, UpIInv, UpTyped
  <2> HIDE DEF n
  <2>3. /\ UpTyped' /\ Backups' /\ insts'[i] = n
        /\ \A j \in Instances \ {i} : insts'[j] = insts[j]
    BY <2>1, <2>2, OneMoved DEF ImageStages, BundleStages
  <2>4. ASSUME ~overlapped'
        PROVE  Alone' /\ IF layout = "AppImage" THEN ImageAtHand' ELSE BundleAtHand'
    <3>1. ~overlapped /\ Installing = {} /\ image # 0
      BY <2>2, <2>4
    <3>2. \A j \in Instances : insts[j].stage \in {"running", "ended"}
      BY <3>1 DEF Installing
    <3>3. Alone'
      BY <2>3, <3>2 DEF Alone, Installing
    <3>4. CASE layout = "AppImage"
      BY <2>1, <2>2, <2>3, <3>1, <3>2, <3>3, <3>4 DEF UpIInv, ImageAtHand
    <3>5. CASE layout # "AppImage"
      BY <2>1, <2>2, <2>3, <3>1, <3>2, <3>3, <3>5 DEF UpIInv, BundleAtHand
    <3>6. QED
      BY <3>4, <3>5
  <2>5. QED
    BY <1>0, <2>2, <2>3, <2>4 DEF UpIInv
<1>2. ASSUME NEW i \in Instances, BackUp(i)
      PROVE  UpIInv'
  <2> DEFINE n == [insts[i] EXCEPT !.backup = image, !.stage = "install"]
  <2>1. layout = "AppImage" /\ insts[i].stage = "back up" /\ insts[i] \in Instance
    BY <1>2, LayoutOf DEF BackUp, AtStage, ImageStages, BundleStages, UpIInv, UpTyped
  <2>2. n \in Instance /\ n.stage = "install" /\ n.backup = image
    BY <2>1 DEF Images, Instance, Idle, ImageStages, BundleStages, UpIInv, UpTyped, Backups, Versions
  <2>3. insts' = [insts EXCEPT ![i] = n] /\ upSame
       /\ image' = image /\ leftovers' = leftovers
    BY <1>2, <2>1 DEF BackUp, ToStage, Leaves, Forgets, UpIInv, UpTyped
  <2> HIDE DEF n
  <2>4. ~overlapped /\ layout = "AppImage" /\ ImageAtHand =>
             /\ n.stage \in {"launch", "restore"} \/ (leftovers' \cup {image'}) \cap works # {}
             /\ n.stage = "install" => n.backup = image'
             /\ n.stage \in {"launch", "restore"} => (leftovers' \cup {n.backup}) \cap works # {}
             /\ n.stage = "clean up" => image' \in works
    BY <1>2, <2>1, <2>2, <2>3, AtInstallation DEF ImageAtHand, UpIInv, UpTyped, upSame, Versions
  <2>5. n.stage \notin {"install", "launch", "clean up", "restore"} => n.backup = 0
    BY <2>1, <2>2 DEF UpIInv, Backups
  <2>6. QED
    BY <2>1, <2>2, <2>3, <2>4, <2>5, <1>0, Moved DEF ImageStages, BundleStages
<1>3. ASSUME NEW i \in Instances, InstallImage(i)
      PROVE  UpIInv'
  <2>1. CASE image' = insts[i].new /\ ToStage(i, "launch") /\ UNCHANGED leftovers
    <3> DEFINE n == [insts[i] EXCEPT !.stage = "launch"]
    <3>1. layout = "AppImage" /\ insts[i].stage = "install" /\ insts[i] \in Instance
      BY <1>3, <2>1, LayoutOf DEF InstallImage, AtStage, ImageStages, BundleStages, UpIInv, UpTyped
    <3>2. n \in Instance /\ n.stage = "launch" /\ n.backup = insts[i].backup
      BY <3>1 DEF Instance, Idle, ImageStages, BundleStages, UpIInv, UpTyped, Backups, Versions
    <3>3. insts' = [insts EXCEPT ![i] = n] /\ upSame
         /\ leftovers' = leftovers
      BY <1>3, <2>1, <3>1 DEF InstallImage, ToStage, Leaves, Forgets, UpIInv, UpTyped
    <3> HIDE DEF n
    <3>4. ~overlapped /\ layout = "AppImage" /\ ImageAtHand =>
               /\ n.stage \in {"launch", "restore"} \/ (leftovers' \cup {image'}) \cap works # {}
               /\ n.stage = "install" => n.backup = image'
               /\ n.stage \in {"launch", "restore"} => (leftovers' \cup {n.backup}) \cap works # {}
               /\ n.stage = "clean up" => image' \in works
      BY <1>3, <2>1, <3>1, <3>2, <3>3, AtInstallation DEF ImageAtHand, UpIInv, UpTyped, upSame, Versions
    <3>5. n.stage \notin {"install", "launch", "clean up", "restore"} => n.backup = 0
      BY <3>1, <3>2 DEF UpIInv, Backups
    <3>6. QED
      BY <3>1, <3>2, <3>3, <3>4, <3>5, <1>0, Moved DEF ImageStages, BundleStages
  <2>2. CASE Forgets(i, "running") /\ UNCHANGED image
    <3> DEFINE n == [Idle EXCEPT !.stage = "running"]
    <3>1. layout = "AppImage" /\ insts[i].stage = "install" /\ insts[i] \in Instance
      BY <1>3, <2>2, LayoutOf DEF InstallImage, AtStage, ImageStages, BundleStages, UpIInv, UpTyped
    <3>2. n \in Instance /\ n.stage = "running" /\ n.backup = 0
      BY <3>1 DEF Instance, Idle, ImageStages, BundleStages, UpIInv, UpTyped, Backups, Versions
    <3>3. insts' = [insts EXCEPT ![i] = n] /\ upSame
         /\ image' = image /\ leftovers' = leftovers
      BY <1>3, <2>2, <3>1 DEF InstallImage, ToStage, Leaves, Forgets, UpIInv, UpTyped
    <3> HIDE DEF n
    <3>4. ~overlapped /\ layout = "AppImage" /\ ImageAtHand =>
               /\ n.stage \in {"launch", "restore"} \/ (leftovers' \cup {image'}) \cap works # {}
               /\ n.stage = "install" => n.backup = image'
               /\ n.stage \in {"launch", "restore"} => (leftovers' \cup {n.backup}) \cap works # {}
               /\ n.stage = "clean up" => image' \in works
      BY <1>3, <2>2, <3>1, <3>2, <3>3, AtInstallation DEF ImageAtHand, UpIInv, UpTyped, upSame, Versions
    <3>5. n.stage \notin {"install", "launch", "clean up", "restore"} => n.backup = 0
      BY <3>1, <3>2 DEF UpIInv, Backups
    <3>6. QED
      BY <3>1, <3>2, <3>3, <3>4, <3>5, <1>0, Moved DEF ImageStages, BundleStages
  <2>3. QED
    BY <1>3, <2>1, <2>2 DEF InstallImage
<1>4. ASSUME NEW i \in Instances, Launch(i)
      PROVE  UpIInv'
  <2>1. CASE image \in works /\ ToStage(i, "clean up")
    <3> DEFINE n == [insts[i] EXCEPT !.stage = "clean up"]
    <3>1. layout = "AppImage" /\ insts[i].stage = "launch" /\ insts[i] \in Instance
      BY <1>4, <2>1, LayoutOf DEF Launch, AtStage, ImageStages, BundleStages, UpIInv, UpTyped
    <3>2. n \in Instance /\ n.stage = "clean up" /\ n.backup = insts[i].backup
      BY <3>1 DEF Instance, Idle, ImageStages, BundleStages, UpIInv, UpTyped, Backups, Versions
    <3>3. insts' = [insts EXCEPT ![i] = n] /\ upSame
         /\ image' = image /\ leftovers' = leftovers
      BY <1>4, <2>1, <3>1 DEF Launch, ToStage, Leaves, Forgets, UpIInv, UpTyped
    <3> HIDE DEF n
    <3>4. ~overlapped /\ layout = "AppImage" /\ ImageAtHand =>
               /\ n.stage \in {"launch", "restore"} \/ (leftovers' \cup {image'}) \cap works # {}
               /\ n.stage = "install" => n.backup = image'
               /\ n.stage \in {"launch", "restore"} => (leftovers' \cup {n.backup}) \cap works # {}
               /\ n.stage = "clean up" => image' \in works
      BY <1>4, <2>1, <3>1, <3>2, <3>3, AtInstallation DEF ImageAtHand, UpIInv, UpTyped, upSame, Versions
    <3>5. n.stage \notin {"install", "launch", "clean up", "restore"} => n.backup = 0
      BY <3>1, <3>2 DEF UpIInv, Backups
    <3>6. QED
      BY <3>1, <3>2, <3>3, <3>4, <3>5, <1>0, Moved DEF ImageStages, BundleStages
  <2>2. CASE ToStage(i, "restore")
    <3> DEFINE n == [insts[i] EXCEPT !.stage = "restore"]
    <3>1. layout = "AppImage" /\ insts[i].stage = "launch" /\ insts[i] \in Instance
      BY <1>4, <2>2, LayoutOf DEF Launch, AtStage, ImageStages, BundleStages, UpIInv, UpTyped
    <3>2. n \in Instance /\ n.stage = "restore" /\ n.backup = insts[i].backup
      BY <3>1 DEF Instance, Idle, ImageStages, BundleStages, UpIInv, UpTyped, Backups, Versions
    <3>3. insts' = [insts EXCEPT ![i] = n] /\ upSame
         /\ image' = image /\ leftovers' = leftovers
      BY <1>4, <2>2, <3>1 DEF Launch, ToStage, Leaves, Forgets, UpIInv, UpTyped
    <3> HIDE DEF n
    <3>4. ~overlapped /\ layout = "AppImage" /\ ImageAtHand =>
               /\ n.stage \in {"launch", "restore"} \/ (leftovers' \cup {image'}) \cap works # {}
               /\ n.stage = "install" => n.backup = image'
               /\ n.stage \in {"launch", "restore"} => (leftovers' \cup {n.backup}) \cap works # {}
               /\ n.stage = "clean up" => image' \in works
      BY <1>4, <2>2, <3>1, <3>2, <3>3, AtInstallation DEF ImageAtHand, UpIInv, UpTyped, upSame, Versions
    <3>5. n.stage \notin {"install", "launch", "clean up", "restore"} => n.backup = 0
      BY <3>1, <3>2 DEF UpIInv, Backups
    <3>6. QED
      BY <3>1, <3>2, <3>3, <3>4, <3>5, <1>0, Moved DEF ImageStages, BundleStages
  <2>3. QED
    BY <1>4, <2>1, <2>2 DEF Launch
<1>5. ASSUME NEW i \in Instances, CleanUp(i)
      PROVE  UpIInv'
  <2>1. CASE Forgets(i, "ended")
    <3> DEFINE n == [Idle EXCEPT !.stage = "ended"]
    <3>1. layout = "AppImage" /\ insts[i].stage = "clean up" /\ insts[i] \in Instance
      BY <1>5, <2>1, LayoutOf DEF CleanUp, AtStage, ImageStages, BundleStages, UpIInv, UpTyped
    <3>2. n \in Instance /\ n.stage = "ended" /\ n.backup = 0
      BY <3>1 DEF Instance, Idle, ImageStages, BundleStages, UpIInv, UpTyped, Backups, Versions
    <3>3. insts' = [insts EXCEPT ![i] = n] /\ upSame
         /\ image' = image /\ leftovers' = leftovers
      BY <1>5, <2>1, <3>1 DEF CleanUp, ToStage, Leaves, Forgets, UpIInv, UpTyped
    <3> HIDE DEF n
    <3>4. ~overlapped /\ layout = "AppImage" /\ ImageAtHand =>
               /\ n.stage \in {"launch", "restore"} \/ (leftovers' \cup {image'}) \cap works # {}
               /\ n.stage = "install" => n.backup = image'
               /\ n.stage \in {"launch", "restore"} => (leftovers' \cup {n.backup}) \cap works # {}
               /\ n.stage = "clean up" => image' \in works
      BY <1>5, <2>1, <3>1, <3>2, <3>3, AtInstallation DEF ImageAtHand, UpIInv, UpTyped, upSame, Versions
    <3>5. n.stage \notin {"install", "launch", "clean up", "restore"} => n.backup = 0
      BY <3>1, <3>2 DEF UpIInv, Backups
    <3>6. QED
      BY <3>1, <3>2, <3>3, <3>4, <3>5, <1>0, Moved DEF ImageStages, BundleStages
  <2>2. CASE Leaves(i, "ended")
    <3> DEFINE n == [Idle EXCEPT !.stage = "ended"]
    <3>1. layout = "AppImage" /\ insts[i].stage = "clean up" /\ insts[i] \in Instance
      BY <1>5, <2>2, LayoutOf DEF CleanUp, AtStage, ImageStages, BundleStages, UpIInv, UpTyped
    <3>2. n \in Instance /\ n.stage = "ended" /\ n.backup = 0
      BY <3>1 DEF Instance, Idle, ImageStages, BundleStages, UpIInv, UpTyped, Backups, Versions
    <3>3. insts' = [insts EXCEPT ![i] = n] /\ upSame
         /\ image' = image /\ leftovers' = leftovers \cup ({insts[i].backup} \ {0})
      BY <1>5, <2>2, <3>1 DEF CleanUp, ToStage, Leaves, Forgets, UpIInv, UpTyped
    <3> HIDE DEF n
    <3>4. ~overlapped /\ layout = "AppImage" /\ ImageAtHand =>
               /\ n.stage \in {"launch", "restore"} \/ (leftovers' \cup {image'}) \cap works # {}
               /\ n.stage = "install" => n.backup = image'
               /\ n.stage \in {"launch", "restore"} => (leftovers' \cup {n.backup}) \cap works # {}
               /\ n.stage = "clean up" => image' \in works
      BY <1>5, <2>2, <3>1, <3>2, <3>3, AtInstallation DEF ImageAtHand, UpIInv, UpTyped, upSame, Versions
    <3>5. n.stage \notin {"install", "launch", "clean up", "restore"} => n.backup = 0
      BY <3>1, <3>2 DEF UpIInv, Backups
    <3>6. QED
      BY <3>1, <3>2, <3>3, <3>4, <3>5, <1>0, Moved DEF ImageStages, BundleStages
  <2>3. QED
    BY <1>5, <2>1, <2>2 DEF CleanUp
<1>6. ASSUME NEW i \in Instances, RestoreImage(i)
      PROVE  UpIInv'
  <2>1. CASE image' = insts[i].backup /\ Forgets(i, "running")
    <3> DEFINE n == [Idle EXCEPT !.stage = "running"]
    <3>1. layout = "AppImage" /\ insts[i].stage = "restore" /\ insts[i] \in Instance
      BY <1>6, <2>1, LayoutOf DEF RestoreImage, AtStage, ImageStages, BundleStages, UpIInv, UpTyped
    <3>2. n \in Instance /\ n.stage = "running" /\ n.backup = 0
      BY <3>1 DEF Instance, Idle, ImageStages, BundleStages, UpIInv, UpTyped, Backups, Versions
    <3>3. insts' = [insts EXCEPT ![i] = n] /\ upSame
         /\ leftovers' = leftovers /\ image' = insts[i].backup
      BY <1>6, <2>1, <3>1 DEF RestoreImage, ToStage, Leaves, Forgets, UpIInv, UpTyped
    <3> HIDE DEF n
    <3>4. ~overlapped /\ layout = "AppImage" /\ ImageAtHand =>
               /\ n.stage \in {"launch", "restore"} \/ (leftovers' \cup {image'}) \cap works # {}
               /\ n.stage = "install" => n.backup = image'
               /\ n.stage \in {"launch", "restore"} => (leftovers' \cup {n.backup}) \cap works # {}
               /\ n.stage = "clean up" => image' \in works
      BY <1>6, <2>1, <3>1, <3>2, <3>3, AtInstallation DEF ImageAtHand, UpIInv, UpTyped, upSame, Versions
    <3>5. n.stage \notin {"install", "launch", "clean up", "restore"} => n.backup = 0
      BY <3>1, <3>2 DEF UpIInv, Backups
    <3>6. QED
      BY <3>1, <3>2, <3>3, <3>4, <3>5, <1>0, Moved DEF ImageStages, BundleStages
  <2>2. CASE Leaves(i, "running") /\ UNCHANGED image
    <3> DEFINE n == [Idle EXCEPT !.stage = "running"]
    <3>1. layout = "AppImage" /\ insts[i].stage = "restore" /\ insts[i] \in Instance
      BY <1>6, <2>2, LayoutOf DEF RestoreImage, AtStage, ImageStages, BundleStages, UpIInv, UpTyped
    <3>2. n \in Instance /\ n.stage = "running" /\ n.backup = 0
      BY <3>1 DEF Instance, Idle, ImageStages, BundleStages, UpIInv, UpTyped, Backups, Versions
    <3>3. insts' = [insts EXCEPT ![i] = n] /\ upSame
         /\ image' = image /\ leftovers' = leftovers \cup ({insts[i].backup} \ {0})
      BY <1>6, <2>2, <3>1 DEF RestoreImage, ToStage, Leaves, Forgets, UpIInv, UpTyped
    <3> HIDE DEF n
    <3>4. ASSUME ~overlapped, layout = "AppImage", ImageAtHand
          PROVE  /\ n.stage \in {"launch", "restore"} \/ (leftovers' \cup {image'}) \cap works # {}
                 /\ n.stage = "install" => n.backup = image'
                 /\ n.stage \in {"launch", "restore"} => (leftovers' \cup {n.backup}) \cap works # {}
                 /\ n.stage = "clean up" => image' \in works
      <4>1. (leftovers \cup {insts[i].backup}) \cap works # {}
        BY <3>1, <3>4 DEF ImageAtHand
      <4>2. leftovers' \cap works # {}
        BY <3>3, <4>1, StillThere
      <4>3. QED
        BY <3>2, <4>2
    <3>5. n.stage \notin {"install", "launch", "clean up", "restore"} => n.backup = 0
      BY <3>1, <3>2 DEF UpIInv, Backups
    <3>6. QED
      BY <3>1, <3>2, <3>3, <3>4, <3>5, <1>0, Moved DEF ImageStages, BundleStages
  <2>3. QED
    BY <1>6, <2>1, <2>2 DEF RestoreImage
<1>7. ASSUME NEW i \in Instances, StageBundle(i)
      PROVE  UpIInv'
  <2>1. CASE ToStage(i, "clear old")
    <3> DEFINE n == [insts[i] EXCEPT !.stage = "clear old"]
    <3>1. layout = "bundle" /\ insts[i].stage = "stage" /\ insts[i] \in Instance
      BY <1>7, <2>1, LayoutOf DEF StageBundle, AtStage, ImageStages, BundleStages, UpIInv, UpTyped
    <3>2. n \in Instance /\ n.stage = "clear old" /\ n.backup = insts[i].backup
      BY <3>1 DEF Instance, Idle, ImageStages, BundleStages, UpIInv, UpTyped, Backups, Versions
    <3>3. insts' = [insts EXCEPT ![i] = n] /\ upSame
         /\ image' = image /\ sidecar' = sidecar
      BY <1>7, <2>1, <3>1 DEF StageBundle, ToStage, Leaves, Forgets, UpIInv, UpTyped
    <3> HIDE DEF n
    <3>4. ~overlapped /\ layout # "AppImage" /\ BundleAtHand =>
               /\ image' # 0 \/ sidecar' # 0
               /\ n.stage \in {"stage", "clear old", "move aside", "drop old"} => image' # 0
      BY <1>7, <2>1, <3>1, <3>2, <3>3, AtInstallation DEF BundleAtHand, UpIInv, UpTyped, upSame, Versions
    <3>5. n.stage \notin {"install", "launch", "clean up", "restore"} => n.backup = 0
      BY <3>1, <3>2 DEF UpIInv, Backups
    <3>6. QED
      BY <3>1, <3>2, <3>3, <3>4, <3>5, <1>0, Moved DEF ImageStages, BundleStages
  <2>2. CASE ToStage(i, "running")
    <3> DEFINE n == [insts[i] EXCEPT !.stage = "running"]
    <3>1. layout = "bundle" /\ insts[i].stage = "stage" /\ insts[i] \in Instance
      BY <1>7, <2>2, LayoutOf DEF StageBundle, AtStage, ImageStages, BundleStages, UpIInv, UpTyped
    <3>2. n \in Instance /\ n.stage = "running" /\ n.backup = insts[i].backup
      BY <3>1 DEF Instance, Idle, ImageStages, BundleStages, UpIInv, UpTyped, Backups, Versions
    <3>3. insts' = [insts EXCEPT ![i] = n] /\ upSame
         /\ image' = image /\ sidecar' = sidecar
      BY <1>7, <2>2, <3>1 DEF StageBundle, ToStage, Leaves, Forgets, UpIInv, UpTyped
    <3> HIDE DEF n
    <3>4. ~overlapped /\ layout # "AppImage" /\ BundleAtHand =>
               /\ image' # 0 \/ sidecar' # 0
               /\ n.stage \in {"stage", "clear old", "move aside", "drop old"} => image' # 0
      BY <1>7, <2>2, <3>1, <3>2, <3>3, AtInstallation DEF BundleAtHand, UpIInv, UpTyped, upSame, Versions
    <3>5. n.stage \notin {"install", "launch", "clean up", "restore"} => n.backup = 0
      BY <3>1, <3>2 DEF UpIInv, Backups
    <3>6. QED
      BY <3>1, <3>2, <3>3, <3>4, <3>5, <1>0, Moved DEF ImageStages, BundleStages
  <2>3. QED
    BY <1>7, <2>1, <2>2 DEF StageBundle
<1>8. ASSUME NEW i \in Instances, ClearOld(i)
      PROVE  UpIInv'
  <2> DEFINE n == [insts[i] EXCEPT !.stage = "move aside"]
  <2>1. layout = "bundle" /\ insts[i].stage = "clear old" /\ insts[i] \in Instance
    BY <1>8, LayoutOf DEF ClearOld, AtStage, ImageStages, BundleStages, UpIInv, UpTyped
  <2>2. n \in Instance /\ n.stage = "move aside" /\ n.backup = insts[i].backup
    BY <2>1 DEF Instance, Idle, ImageStages, BundleStages, UpIInv, UpTyped, Backups, Versions
  <2>3. insts' = [insts EXCEPT ![i] = n] /\ upSame
       /\ image' = image
    BY <1>8, <2>1 DEF ClearOld, ToStage, Leaves, Forgets, UpIInv, UpTyped
  <2> HIDE DEF n
  <2>4. ~overlapped /\ layout # "AppImage" /\ BundleAtHand =>
             /\ image' # 0 \/ sidecar' # 0
             /\ n.stage \in {"stage", "clear old", "move aside", "drop old"} => image' # 0
    BY <1>8, <2>1, <2>2, <2>3, AtInstallation DEF BundleAtHand, UpIInv, UpTyped, upSame, Versions
  <2>5. n.stage \notin {"install", "launch", "clean up", "restore"} => n.backup = 0
    BY <2>1, <2>2 DEF UpIInv, Backups
  <2>6. QED
    BY <2>1, <2>2, <2>3, <2>4, <2>5, <1>0, Moved DEF ImageStages, BundleStages
<1>9. ASSUME NEW i \in Instances, MoveBundleAside(i)
      PROVE  UpIInv'
  <2>1. CASE image # 0 /\ sidecar' = image /\ ToStage(i, "move in")
    <3> DEFINE n == [insts[i] EXCEPT !.stage = "move in"]
    <3>1. layout = "bundle" /\ insts[i].stage = "move aside" /\ insts[i] \in Instance
      BY <1>9, <2>1, LayoutOf DEF MoveBundleAside, AtStage, ImageStages, BundleStages, UpIInv, UpTyped
    <3>2. n \in Instance /\ n.stage = "move in" /\ n.backup = insts[i].backup
      BY <3>1 DEF Instance, Idle, ImageStages, BundleStages, UpIInv, UpTyped, Backups, Versions
    <3>3. insts' = [insts EXCEPT ![i] = n] /\ upSame
         /\ sidecar' = image
      BY <1>9, <2>1, <3>1 DEF MoveBundleAside, ToStage, Leaves, Forgets, UpIInv, UpTyped
    <3> HIDE DEF n
    <3>4. ~overlapped /\ layout # "AppImage" /\ BundleAtHand =>
               /\ image' # 0 \/ sidecar' # 0
               /\ n.stage \in {"stage", "clear old", "move aside", "drop old"} => image' # 0
      BY <1>9, <2>1, <3>1, <3>2, <3>3, AtInstallation DEF BundleAtHand, UpIInv, UpTyped, upSame, Versions
    <3>5. n.stage \notin {"install", "launch", "clean up", "restore"} => n.backup = 0
      BY <3>1, <3>2 DEF UpIInv, Backups
    <3>6. QED
      BY <3>1, <3>2, <3>3, <3>4, <3>5, <1>0, Moved DEF ImageStages, BundleStages
  <2>2. CASE ToStage(i, "running") /\ UNCHANGED <<image, sidecar>>
    <3> DEFINE n == [insts[i] EXCEPT !.stage = "running"]
    <3>1. layout = "bundle" /\ insts[i].stage = "move aside" /\ insts[i] \in Instance
      BY <1>9, <2>2, LayoutOf DEF MoveBundleAside, AtStage, ImageStages, BundleStages, UpIInv, UpTyped
    <3>2. n \in Instance /\ n.stage = "running" /\ n.backup = insts[i].backup
      BY <3>1 DEF Instance, Idle, ImageStages, BundleStages, UpIInv, UpTyped, Backups, Versions
    <3>3. insts' = [insts EXCEPT ![i] = n] /\ upSame
         /\ image' = image /\ sidecar' = sidecar
      BY <1>9, <2>2, <3>1 DEF MoveBundleAside, ToStage, Leaves, Forgets, UpIInv, UpTyped
    <3> HIDE DEF n
    <3>4. ~overlapped /\ layout # "AppImage" /\ BundleAtHand =>
               /\ image' # 0 \/ sidecar' # 0
               /\ n.stage \in {"stage", "clear old", "move aside", "drop old"} => image' # 0
      BY <1>9, <2>2, <3>1, <3>2, <3>3, AtInstallation DEF BundleAtHand, UpIInv, UpTyped, upSame, Versions
    <3>5. n.stage \notin {"install", "launch", "clean up", "restore"} => n.backup = 0
      BY <3>1, <3>2 DEF UpIInv, Backups
    <3>6. QED
      BY <3>1, <3>2, <3>3, <3>4, <3>5, <1>0, Moved DEF ImageStages, BundleStages
  <2>3. QED
    BY <1>9, <2>1, <2>2 DEF MoveBundleAside
<1>10. ASSUME NEW i \in Instances, MoveBundleIn(i)
      PROVE  UpIInv'
  <2>1. CASE staged # 0 /\ image' = staged /\ ToStage(i, "drop old")
    <3> DEFINE n == [insts[i] EXCEPT !.stage = "drop old"]
    <3>1. layout = "bundle" /\ insts[i].stage = "move in" /\ insts[i] \in Instance
      BY <1>10, <2>1, LayoutOf DEF MoveBundleIn, AtStage, ImageStages, BundleStages, UpIInv, UpTyped
    <3>2. n \in Instance /\ n.stage = "drop old" /\ n.backup = insts[i].backup
      BY <3>1 DEF Instance, Idle, ImageStages, BundleStages, UpIInv, UpTyped, Backups, Versions
    <3>3. insts' = [insts EXCEPT ![i] = n] /\ upSame
         /\ image' = staged
      BY <1>10, <2>1, <3>1 DEF MoveBundleIn, ToStage, Leaves, Forgets, UpIInv, UpTyped
    <3> HIDE DEF n
    <3>4. ~overlapped /\ layout # "AppImage" /\ BundleAtHand =>
               /\ image' # 0 \/ sidecar' # 0
               /\ n.stage \in {"stage", "clear old", "move aside", "drop old"} => image' # 0
      BY <1>10, <2>1, <3>1, <3>2, <3>3, AtInstallation DEF BundleAtHand, UpIInv, UpTyped, upSame, Versions
    <3>5. n.stage \notin {"install", "launch", "clean up", "restore"} => n.backup = 0
      BY <3>1, <3>2 DEF UpIInv, Backups
    <3>6. QED
      BY <3>1, <3>2, <3>3, <3>4, <3>5, <1>0, Moved DEF ImageStages, BundleStages
  <2>2. CASE ToStage(i, "put back") /\ UNCHANGED <<image, staged>>
    <3> DEFINE n == [insts[i] EXCEPT !.stage = "put back"]
    <3>1. layout = "bundle" /\ insts[i].stage = "move in" /\ insts[i] \in Instance
      BY <1>10, <2>2, LayoutOf DEF MoveBundleIn, AtStage, ImageStages, BundleStages, UpIInv, UpTyped
    <3>2. n \in Instance /\ n.stage = "put back" /\ n.backup = insts[i].backup
      BY <3>1 DEF Instance, Idle, ImageStages, BundleStages, UpIInv, UpTyped, Backups, Versions
    <3>3. insts' = [insts EXCEPT ![i] = n] /\ upSame
         /\ image' = image /\ sidecar' = sidecar
      BY <1>10, <2>2, <3>1 DEF MoveBundleIn, ToStage, Leaves, Forgets, UpIInv, UpTyped
    <3> HIDE DEF n
    <3>4. ~overlapped /\ layout # "AppImage" /\ BundleAtHand =>
               /\ image' # 0 \/ sidecar' # 0
               /\ n.stage \in {"stage", "clear old", "move aside", "drop old"} => image' # 0
      BY <1>10, <2>2, <3>1, <3>2, <3>3, AtInstallation DEF BundleAtHand, UpIInv, UpTyped, upSame, Versions
    <3>5. n.stage \notin {"install", "launch", "clean up", "restore"} => n.backup = 0
      BY <3>1, <3>2 DEF UpIInv, Backups
    <3>6. QED
      BY <3>1, <3>2, <3>3, <3>4, <3>5, <1>0, Moved DEF ImageStages, BundleStages
  <2>3. QED
    BY <1>10, <2>1, <2>2 DEF MoveBundleIn
<1>11. ASSUME NEW i \in Instances, PutBack(i)
      PROVE  UpIInv'
  <2>1. CASE image = 0 /\ sidecar # 0 /\ image' = sidecar /\ ToStage(i, "running")
    <3> DEFINE n == [insts[i] EXCEPT !.stage = "running"]
    <3>1. layout = "bundle" /\ insts[i].stage = "put back" /\ insts[i] \in Instance
      BY <1>11, <2>1, LayoutOf DEF PutBack, AtStage, ImageStages, BundleStages, UpIInv, UpTyped
    <3>2. n \in Instance /\ n.stage = "running" /\ n.backup = insts[i].backup
      BY <3>1 DEF Instance, Idle, ImageStages, BundleStages, UpIInv, UpTyped, Backups, Versions
    <3>3. insts' = [insts EXCEPT ![i] = n] /\ upSame
         /\ sidecar # 0 /\ image' = sidecar
      BY <1>11, <2>1, <3>1 DEF PutBack, ToStage, Leaves, Forgets, UpIInv, UpTyped
    <3> HIDE DEF n
    <3>4. ~overlapped /\ layout # "AppImage" /\ BundleAtHand =>
               /\ image' # 0 \/ sidecar' # 0
               /\ n.stage \in {"stage", "clear old", "move aside", "drop old"} => image' # 0
      BY <1>11, <2>1, <3>1, <3>2, <3>3, AtInstallation DEF BundleAtHand, UpIInv, UpTyped, upSame, Versions
    <3>5. n.stage \notin {"install", "launch", "clean up", "restore"} => n.backup = 0
      BY <3>1, <3>2 DEF UpIInv, Backups
    <3>6. QED
      BY <3>1, <3>2, <3>3, <3>4, <3>5, <1>0, Moved DEF ImageStages, BundleStages
  <2>2. CASE UNCHANGED <<image, sidecar>> /\ ToStage(i, "running")
    <3> DEFINE n == [insts[i] EXCEPT !.stage = "running"]
    <3>1. layout = "bundle" /\ insts[i].stage = "put back" /\ insts[i] \in Instance
      BY <1>11, <2>2, LayoutOf DEF PutBack, AtStage, ImageStages, BundleStages, UpIInv, UpTyped
    <3>2. n \in Instance /\ n.stage = "running" /\ n.backup = insts[i].backup
      BY <3>1 DEF Instance, Idle, ImageStages, BundleStages, UpIInv, UpTyped, Backups, Versions
    <3>3. insts' = [insts EXCEPT ![i] = n] /\ upSame
         /\ image' = image /\ sidecar' = sidecar
      BY <1>11, <2>2, <3>1 DEF PutBack, ToStage, Leaves, Forgets, UpIInv, UpTyped
    <3> HIDE DEF n
    <3>4. ~overlapped /\ layout # "AppImage" /\ BundleAtHand =>
               /\ image' # 0 \/ sidecar' # 0
               /\ n.stage \in {"stage", "clear old", "move aside", "drop old"} => image' # 0
      BY <1>11, <2>2, <3>1, <3>2, <3>3, AtInstallation DEF BundleAtHand, UpIInv, UpTyped, upSame, Versions
    <3>5. n.stage \notin {"install", "launch", "clean up", "restore"} => n.backup = 0
      BY <3>1, <3>2 DEF UpIInv, Backups
    <3>6. QED
      BY <3>1, <3>2, <3>3, <3>4, <3>5, <1>0, Moved DEF ImageStages, BundleStages
  <2>3. QED
    BY <1>11, <2>1, <2>2 DEF PutBack
<1>12. ASSUME NEW i \in Instances, DropOld(i)
      PROVE  UpIInv'
  <2> DEFINE n == [Idle EXCEPT !.stage = "ended"]
  <2>1. layout = "bundle" /\ insts[i].stage = "drop old" /\ insts[i] \in Instance
    BY <1>12, LayoutOf DEF DropOld, AtStage, ImageStages, BundleStages, UpIInv, UpTyped
  <2>2. n \in Instance /\ n.stage = "ended" /\ n.backup = 0
    BY <2>1 DEF Instance, Idle, ImageStages, BundleStages, UpIInv, UpTyped, Backups, Versions
  <2>3. insts' = [insts EXCEPT ![i] = n] /\ upSame
       /\ image' = image
    BY <1>12, <2>1 DEF DropOld, ToStage, Leaves, Forgets, UpIInv, UpTyped
  <2> HIDE DEF n
  <2>4. ~overlapped /\ layout # "AppImage" /\ BundleAtHand =>
             /\ image' # 0 \/ sidecar' # 0
             /\ n.stage \in {"stage", "clear old", "move aside", "drop old"} => image' # 0
    BY <1>12, <2>1, <2>2, <2>3, AtInstallation DEF BundleAtHand, UpIInv, UpTyped, upSame, Versions
  <2>5. n.stage \notin {"install", "launch", "clean up", "restore"} => n.backup = 0
    BY <2>1, <2>2 DEF UpIInv, Backups
  <2>6. QED
    BY <2>1, <2>2, <2>3, <2>4, <2>5, <1>0, Moved DEF ImageStages, BundleStages
<1>13. ASSUME NEW i \in Instances, InstanceEnds(i)
      PROVE  UpIInv'
  <2> DEFINE n == [Idle EXCEPT !.stage = "ended"]
  <2>1. n \in Instance /\ n.stage = "ended" /\ n.backup = 0
    BY DEF Instance, Idle
  <2>2. /\ insts' = [insts EXCEPT ![i] = n] /\ upSame /\ image' = image /\ sidecar' = sidecar
        /\ leftovers' = leftovers \cup ({insts[i].backup} \ {0})
    BY <1>13 DEF InstanceEnds, Leaves
  <2> HIDE DEF n
  <2>3. insts[i].stage \in {"running", "ended"} => leftovers' = leftovers
    BY <2>2 DEF UpIInv, Backups
  <2>4. insts[i].stage \in {"running", "ended"} \/ insts[i].stage \notin {"running", "ended"}
    OBVIOUS
  <2>5. ASSUME ~overlapped, layout = "AppImage", ImageAtHand,
               insts[i].stage \notin {"running", "ended"}
        PROVE  (leftovers' \cup {image'}) \cap works # {}
    <3>1. CASE insts[i].stage \in {"launch", "restore"}
      <4>1. (leftovers \cup {insts[i].backup}) \cap works # {}
        BY <2>5, <3>1 DEF ImageAtHand
      <4>2. QED
        BY <2>2, <4>1, StillThere
    <3>2. CASE insts[i].stage \notin {"launch", "restore"}
      BY <2>2, <2>5, <3>2, AtInstallation DEF ImageAtHand
    <3>3. QED
      BY <3>1, <3>2
  <2>6. QED
    BY <1>0, <2>1, <2>2, <2>3, <2>5, Moved DEF BundleAtHand
<1>14. ASSUME NEW i \in Instances, StartProgram(i)
      PROVE  UpIInv'
  <2> DEFINE n == [insts[i] EXCEPT !.stage = "running"]
  <2>1. insts[i].stage = "ended" /\ insts[i] \in Instance /\ insts[i].backup = 0
    BY <1>14 DEF StartProgram, AtStage, UpIInv, UpTyped, Backups
  <2>2. n \in Instance /\ n.stage = "running" /\ n.backup = 0
    BY <2>1 DEF Instance
  <2>3. /\ insts' = [insts EXCEPT ![i] = n] /\ upSame /\ image' = image /\ sidecar' = sidecar
        /\ leftovers' = leftovers
    BY <1>14, <2>1 DEF StartProgram, ToStage, UpIInv, UpTyped
  <2> HIDE DEF n
  <2>4. QED
    BY <1>0, <2>1, <2>2, <2>3, Moved
<1>15. QED
  BY <1>1, <1>2, <1>3, <1>4, <1>5, <1>6, <1>7, <1>8, <1>9, <1>10, <1>11, <1>12, <1>13, <1>14 DEF UpNext

\* It holds at the start.
LEMMA UpInitially ==
  ASSUME UpInit
  PROVE  UpIInv
<1>1. \A i \in Instances : insts[i] = Idle
  BY DEF UpInit
<1>2. Installing = {}
  BY <1>1 DEF Installing, Idle
<1>3. UpTyped
  <2>1. works \subseteq Versions
    BY DEF UpInit, Versions
  <2>2. insts \in [Instances -> Instance]
    BY DEF UpInit, Idle, Instance, Versions
  <2>3. QED
    BY <1>1, <2>1, <2>2 DEF UpInit, UpTyped, Idle
<1>4. Images /\ Backups
  BY <1>1 DEF UpInit, Images, Backups, Versions, Idle
<1>5. Alone
  BY <1>2 DEF Alone
<1>6. ImageAtHand /\ BundleAtHand
  BY <1>1 DEF UpInit, ImageAtHand, BundleAtHand, Idle
<1>7. QED
  BY <1>3, <1>4, <1>5, <1>6 DEF UpIInv

\* A step without a change keeps it.
LEMMA UpStutter ==
  ASSUME UpIInv, UNCHANGED upVars
  PROVE  UpIInv'
BY DEF UpIInv, upVars, UpTyped, Images, Backups, Alone, Installing, ImageAtHand, BundleAtHand

\* A program at hand is one that is left.
LEMMA AtHandLeft ==
  ASSUME UpIInv
  PROVE  NeverStranded
<1>1. CASE overlapped
  BY <1>1 DEF NeverStranded
<1>2. CASE ~overlapped /\ layout = "AppImage"
  <2>1. CASE \E i \in Instances : insts[i].stage \in {"launch", "restore"}
    BY <1>2, <2>1 DEF UpIInv, ImageAtHand, NeverStranded
  <2>2. CASE \A i \in Instances : insts[i].stage \notin {"launch", "restore"}
    BY <1>2, <2>2 DEF UpIInv, ImageAtHand, NeverStranded
  <2>3. QED
    BY <2>1, <2>2
<1>3. CASE ~overlapped /\ layout # "AppImage"
  BY <1>3 DEF UpIInv, BundleAtHand, NeverStranded
<1>4. QED
  BY <1>1, <1>2, <1>3

(* However an installation ends or is cut short, whatever the number of    *)
(* instances and of downloaded versions, a program is left as long as no   *)
(* two installations overlapped and none began with no program in place    *)
(* (install_linux_appimage, install_macos).                                *)
THEOREM ProgramLeft == UpSpec => []NeverStranded
<1>1. UpIInv /\ [UpNext]_upVars => UpIInv'
  BY UpStep, UpStutter
<1>2. QED
  BY UpInitially, AtHandLeft, <1>1, PTL DEF UpSpec
-----------------------------------------------------------------------------
(* The bounds of a transfer: how far tasks come, the queue of controls,    *)
(* and the permits.                                                        *)

Controls == {"pause", "resume", "cancel", "close", "finished"}
Holding(n) == n.stage \notin {"none", "waiting", "ended"}
Permits == others \in Nat /\ HeldPermits + others <= Slots
TrBounded ==
  /\ \A r \in Runs : runs[r].at <= Size
  /\ \A i \in 1..Len(versions) : versions[i].size <= Size
  /\ controls \in Seq(Controls) /\ Len(controls) <= MaxControls
  /\ Permits

\* A queue without one of its controls.
LEMMA ControlRemoved ==
  ASSUME NEW q \in Seq(Controls), NEW k \in 1..Len(q)
  PROVE  RemoveAt(q, k) \in Seq(Controls) /\ Len(RemoveAt(q, k)) = Len(q) - 1
<1>1. Queued(q, Controls, Controls \X Controls) /\ k \in DOMAIN q
  BY AnyOrder
<1>2. /\ Queued(RemoveAt(q, k), Controls, Controls \X Controls)
      /\ Len(RemoveAt(q, k)) = Len(q) - 1
  BY <1>1, RemoveLined
<1> QED
  BY <1>2 DEF Queued

\* The control found is one of the queue.
LEMMA ControlFound ==
  ASSUME NEW q \in Seq(Controls)
  PROVE  SelectInSeq(q, Gentle) \in 0..Len(q) /\ SelectLastInSeq(q, Gentle) \in 0..Len(q)
<1> DEFINE I == {i \in 1..Len(q) : Gentle(q[i])}
<1>1. PICK a : a = SelectInSeq(q, Gentle)
  OBVIOUS
<1>2. PICK b : b = SelectLastInSeq(q, Gentle)
  OBVIOUS
<1>3. a = IF I # {} THEN Min(I) ELSE 0
  BY <1>1 DEF SelectInSeq
<1>4. b = IF I # {} THEN Max(I) ELSE 0
  BY <1>2 DEF SelectLastInSeq
<1>5. I \in SUBSET (1..Len(q)) /\ I \in SUBSET Nat /\ Len(q) \in Nat
  OBVIOUS
<1> HIDE DEF I
<1>6. I # {} => Min(I) \in I
  BY <1>5, Least DEF Min
<1>7. I # {} => Max(I) \in I
  BY <1>5, MaxChosen
<1>8. a \in {0} \cup I /\ b \in {0} \cup I
  BY ONLY <1>3, <1>4, <1>6, <1>7
<1>9. a \in 0..Len(q) /\ b \in 0..Len(q)
  BY ONLY <1>5, <1>8
<1> QED
  BY <1>1, <1>2, <1>9, Zenon

\* The queue keeps to its capacity.
LEMMA SentBounded ==
  ASSUME NEW q \in Seq(Controls), Len(q) <= MaxControls, NEW c \in Controls
  PROVE  Sent(q, c) \in Seq(Controls) /\ Len(Sent(q, c)) <= MaxControls
<1>1. PICK twin \in 0..Len(q) : twin = SelectLastInSeq(q, Gentle)
  BY ControlFound
<1>2. PICK p : p = IF Gentle(c) /\ twin # 0 THEN RemoveAt(q, twin) ELSE q
  OBVIOUS
<1>3. p \in Seq(Controls) /\ Len(p) <= MaxControls
  BY <1>2, ControlRemoved, TransferSizes
<1>4. PICK spare \in 0..Len(p) : spare = SelectInSeq(p, Gentle)
  BY <1>3, ControlFound
<1>5. Sent(q, c) = IF Len(p) < MaxControls THEN Append(p, c)
                   ELSE IF spare # 0 THEN Append(RemoveAt(p, spare), c)
                   ELSE p
  BY <1>1, <1>2, <1>4, Zenon DEF Sent
<1>6. spare # 0 => RemoveAt(p, spare) \in Seq(Controls) /\ Len(RemoveAt(p, spare)) = Len(p) - 1
  BY <1>3, ControlRemoved
<1> QED
  BY <1>3, <1>5, <1>6, TransferSizes

\* The tasks that hold a permit are finitely many.
LEMMA HoldersCounted ==
  ASSUME NEW S \in SUBSET Runs
  PROVE  /\ IsFiniteSet(S) /\ Cardinality(S) \in Nat
         /\ \A T \in SUBSET S : Cardinality(T) \in Nat /\ Cardinality(T) <= Cardinality(S)
         /\ \A r \in Runs : Cardinality(S \cup {r}) <= Cardinality(S) + 1
<1>1. IsFiniteSet(Runs)
  BY TransferSizes, FS_Interval DEF Runs
<1>2. IsFiniteSet(S) /\ Cardinality(S) \in Nat
  BY <1>1, FS_Subset, FS_CardinalityType
<1>3. \A T \in SUBSET S : Cardinality(T) \in Nat /\ Cardinality(T) <= Cardinality(S)
  BY <1>2, FS_Subset, FS_CardinalityType
<1>4. \A r \in Runs : Cardinality(S \cup {r}) <= Cardinality(S) + 1
  BY <1>2, FS_AddElement
<1> QED
  BY <1>2, <1>3, <1>4

\* Nobody takes a permit.
LEMMA PermitsKept ==
  ASSUME Permits, \A r \in Runs : Holding(runs'[r]) => Holding(runs[r]), others' \in {0, others}
  PROVE  Permits'
<1>1. PICK S \in SUBSET Runs : S = {r \in Runs : Holding(runs[r])}
  OBVIOUS
<1>2. PICK T \in SUBSET Runs : T = {r \in Runs : Holding(runs'[r])}
  OBVIOUS
<1>3. HeldPermits = Cardinality(S) /\ HeldPermits' = Cardinality(T)
  BY <1>1, <1>2 DEF HeldPermits, Holding
<1>4. T \subseteq S
  BY <1>1, <1>2
<1>5. Cardinality(T) \in Nat /\ Cardinality(S) \in Nat /\ Cardinality(T) <= Cardinality(S)
  BY <1>4, HoldersCounted
<1> QED
  BY <1>3, <1>5, TransferSizes DEF Permits

\* Where one task moves on, and the queue and the permits are as before.
LEMMA RunBounded ==
  ASSUME TrIInv, TrBounded, NEW r \in Runs, NEW n, runs' = [runs EXCEPT ![r] = n],
         n.at \in 0..Size, UNCHANGED <<controls, versions, others>>,
         Holding(n) => Holding(runs[r])
  PROVE  TrBounded'
<1>1. \A s \in Runs : runs'[s] = IF s = r THEN n ELSE runs[s]
  BY DEF TrIInv, TrTyped
<1>2. Permits'
  BY <1>1, PermitsKept DEF TrBounded
<1>3. \A s \in Runs : runs'[s].at <= Size
  BY <1>1, TransferSizes DEF TrBounded
<1> QED
  BY <1>2, <1>3 DEF TrBounded

\* A task.
LEMMA TaskBounded ==
  ASSUME TrIInv, TrBounded, NEW r \in Runs, Task(r) \/ Breaks(r)
  PROVE  TrBounded'
<1>1. /\ runs \in [Runs -> Run] /\ runs[r] \in Run /\ runs[r].at \in 0..Size
      /\ Size \in Nat \ {0} /\ Sound(runs[r])
  <2>1. runs \in [Runs -> Run] /\ runs[r] \in Run
    BY DEF TrIInv, TrTyped
  <2>2. runs[r].at \in 0..Size /\ Size \in Nat \ {0}
    BY <2>1, TransferSizes DEF TrBounded, Run
  <2>3. Sound(runs[r])
    BY DEF TrIInv, Bytes
  <2> QED
    BY <2>1, <2>2, <2>3
<1>2. Now.size \in 0..Size
  <2>1. source \in 1..Len(versions) /\ Now.size \in Nat
    BY NowIsVersion DEF TrIInv
  <2>2. Now = versions[source]
    BY DEF Now
  <2>3. Now.size <= Size
    BY <2>1, <2>2 DEF TrBounded
  <2> QED
    BY <1>1, <2>1, <2>3
<1>3. ASSUME NEW n, runs' = [runs EXCEPT ![r] = n], n.at \in {runs[r].at, 0},
             UNCHANGED <<controls, versions, others>>, Holding(runs[r])
      PROVE  TrBounded'
  <2>1. n.at \in 0..Size
    BY <1>1, <1>3
  <2> QED
    BY <1>3, <2>1, RunBounded
<1>4. ASSUME NEW stage, NEW result, Becomes(r, stage, result), UNCHANGED trRest,
             Holding(runs[r])
      PROVE  TrBounded'
  <2>1. runs' = [runs EXCEPT ![r] = [runs[r] EXCEPT !.stage = stage, !.result = result]]
    BY <1>1, <1>4 DEF Becomes
  <2>2. [runs[r] EXCEPT !.stage = stage, !.result = result].at = runs[r].at
    BY <1>1 DEF Run
  <2> QED
    BY <1>3, <1>4, <2>1, <2>2 DEF trRest, trStays, trQueues, trSource
<1>5. ASSUME NEW total, Found(r, total), UNCHANGED trRest, Holding(runs[r]) PROVE TrBounded'
  <2>1. runs' = [runs EXCEPT ![r] = [runs[r] EXCEPT !.stage = "verified", !.file = partial,
                                                    !.total = total]]
    BY <1>1, <1>5 DEF Found
  <2>2. [runs[r] EXCEPT !.stage = "verified", !.file = partial, !.total = total].at = runs[r].at
    BY <1>1 DEF Run
  <2> QED
    BY <1>3, <1>5, <2>1, <2>2 DEF trRest, trStays, trQueues, trSource
<1>6. CASE TakePermit(r)
  <2> DEFINE n == [runs[r] EXCEPT !.stage = "opening", !.result = "none"]
  <2>1. /\ runs' = [runs EXCEPT ![r] = n] /\ HeldPermits + others < Slots
        /\ UNCHANGED <<controls, versions, others>>
    BY <1>1, <1>6 DEF TakePermit, Becomes, trRest, trStays, trQueues, trSource
  <2>2. n.at = runs[r].at
    BY <1>1 DEF Run
  <2> HIDE DEF n
  <2>3. \A s \in Runs : runs'[s] = IF s = r THEN n ELSE runs[s]
    BY <1>1, <2>1
  <2>4. PICK S \in SUBSET Runs : S = {s \in Runs : Holding(runs[s])}
    OBVIOUS
  <2>5. PICK T \in SUBSET Runs : T = {s \in Runs : Holding(runs'[s])}
    OBVIOUS
  <2>6. HeldPermits = Cardinality(S) /\ HeldPermits' = Cardinality(T)
    BY <2>4, <2>5 DEF HeldPermits, Holding
  <2>7. T \subseteq S \cup {r} /\ S \cup {r} \in SUBSET Runs
    BY <2>3, <2>4, <2>5
  <2>8. /\ Cardinality(T) <= Cardinality(S \cup {r}) /\ Cardinality(T) \in Nat
        /\ Cardinality(S \cup {r}) \in Nat /\ Cardinality(S) \in Nat
        /\ Cardinality(S \cup {r}) <= Cardinality(S) + 1
    BY <2>7, HoldersCounted
  <2>9. Permits'
    BY <2>1, <2>6, <2>8, TransferSizes DEF TrBounded, Permits
  <2>10. \A s \in Runs : runs'[s].at <= Size
    BY <2>2, <2>3 DEF TrBounded
  <2> QED
    BY <2>1, <2>9, <2>10 DEF TrBounded
<1>7. CASE Check(r)
  <2> PICK had : had = IF partial = 0 THEN 0 ELSE Len(contents[partial])
    OBVIOUS
  <2>1. had \in Nat
    BY DEF TrIInv, TrTyped
  <2>2. UNCHANGED trRest /\ Holding(runs[r])
    BY <1>7 DEF Check, Step, Holding
  <2>3. \/ Becomes(r, "failing", "Failed")
        \/ Found(r, had)
        \/ /\ had < Now.size
           /\ runs' = [runs EXCEPT ![r].stage = "copying", ![r].at = had, ![r].total = Now.size,
                         ![r].file = IF partial = 0 THEN r ELSE partial]
    BY <1>1, <1>7, <2>1 DEF Check
  <2>4. CASE /\ had < Now.size
             /\ runs' = [runs EXCEPT ![r].stage = "copying", ![r].at = had, ![r].total = Now.size,
                           ![r].file = IF partial = 0 THEN r ELSE partial]
    <3> DEFINE n == [runs[r] EXCEPT !.stage = "copying", !.at = had, !.total = Now.size,
                       !.file = IF partial = 0 THEN r ELSE partial]
    <3>1. runs' = [runs EXCEPT ![r] = n]
      BY <1>1, <2>4
    <3>2. n.at = had
      BY <1>1 DEF Run
    <3> HIDE DEF n
    <3>3. n.at \in 0..Size
      BY <1>1, <1>2, <2>1, <2>4, <3>2
    <3> QED
      BY <2>2, <3>1, <3>3, RunBounded DEF trRest, trStays, trQueues, trSource
  <2> QED
    BY <1>4, <1>5, <2>2, <2>3, <2>4
<1>8. CASE Pause(r) \/ Proceed(r)
  <2>1. PICK told, stage :
          runs' = [runs EXCEPT ![r].stage = stage, ![r].told = told]
    <3>1. CASE Pause(r)
      <4>1. PICK n : n = runs[r]
        OBVIOUS
      <4>2. runs' = [runs EXCEPT ![r] = [n EXCEPT !.told = TRUE]] /\ n.stage = "copying" /\ n \in Run
        BY <1>1, <3>1, <4>1 DEF Pause, Step
      <4>3. [n EXCEPT !.told = TRUE] = [n EXCEPT !.stage = "copying", !.told = TRUE]
        BY <4>2 DEF Run
      <4>4. [runs EXCEPT ![r].stage = "copying", ![r].told = TRUE]
            = [runs EXCEPT ![r] = [n EXCEPT !.stage = "copying", !.told = TRUE]]
        BY <1>1, <4>1
      <4> QED
        BY <4>2, <4>3, <4>4
    <3>2. CASE Proceed(r)
      BY <3>2 DEF Proceed
    <3> QED
      BY <1>8, <3>1, <3>2
  <2>2. UNCHANGED trRest /\ Holding(runs[r])
    BY <1>8 DEF Pause, Proceed, Step, Holding
  <2>3. runs' = [runs EXCEPT ![r] = [runs[r] EXCEPT !.stage = stage, !.told = told]]
    BY <1>1, <2>1
  <2>4. [runs[r] EXCEPT !.stage = stage, !.told = told].at = runs[r].at
    BY <1>1 DEF Run
  <2> QED
    BY <1>3, <2>2, <2>3, <2>4 DEF trRest, trStays, trQueues, trSource
<1>9. CASE Read(r)
  <2>1. UNCHANGED trRest /\ Holding(runs[r])
    BY <1>9 DEF Read, Step, Holding
  <2>2. \/ Becomes(r, "flushed", "none")
        \/ runs' = [runs EXCEPT ![r] = [runs[r] EXCEPT !.stage = "writing", !.got = source]]
    BY <1>1, <1>9 DEF Read
  <2>3. [runs[r] EXCEPT !.stage = "writing", !.got = source].at = runs[r].at
    BY <1>1 DEF Run
  <2> QED
    BY <1>3, <1>4, <2>1, <2>2, <2>3 DEF trRest, trStays, trQueues, trSource
<1>10. CASE Write(r)
  <2> DEFINE n == [runs[r] EXCEPT !.stage = "copying", !.at = runs[r].at + 1, !.got = 0]
  <2>1. /\ runs' = [runs EXCEPT ![r] = n] /\ UNCHANGED <<controls, versions, others>>
        /\ Holding(runs[r]) /\ runs[r].stage = "writing"
    BY <1>1, <1>10 DEF Write, Step, Holding, trStays, trQueues, trSource
  <2>2. n.at = runs[r].at + 1
    BY <1>1 DEF Run
  <2> HIDE DEF n
  <2>3. /\ runs[r].at < versions[runs[r].got].size /\ versions[runs[r].got].size <= Size
        /\ versions[runs[r].got].size \in Nat
    <3>1. /\ runs[r].got \in 1..Len(versions)
          /\ runs[r].at < versions[runs[r].got].size
      BY <1>1, <2>1 DEF Sound, source
    <3>2. versions \in Seq(Version) /\ \A i \in 1..Len(versions) : versions[i].size <= Size
      BY DEF TrBounded, TrIInv, TrTyped
    <3>3. versions[runs[r].got] \in Version
      BY <3>1, <3>2
    <3> QED
      BY <3>1, <3>2, <3>3 DEF Version
  <2>4. n.at \in 0..Size
    BY <1>1, <2>2, <2>3
  <2> QED
    BY <2>1, <2>4, RunBounded
<1>11. CASE Open(r) \/ Cancelled(r) \/ VerifyCopy(r) \/ Breaks(r)
  <2>1. UNCHANGED trRest /\ Holding(runs[r])
    BY <1>11 DEF Open, Cancelled, VerifyCopy, Breaks, Step, Holding
  <2>2. (\E total : Found(r, total)) \/ \E stage, result : Becomes(r, stage, result)
    BY <1>11 DEF Open, Cancelled, VerifyCopy, Breaks
  <2> QED
    BY <1>4, <1>5, <2>1, <2>2
<1>12. CASE Finalize(r)
  <2>1. UNCHANGED <<controls, versions, others>> /\ Holding(runs[r])
    BY <1>12 DEF Finalize, Step, Holding, trStays, trQueues, trSource
  <2>2. PICK stage, result : Becomes(r, stage, result)
    BY <1>12 DEF Finalize
  <2>3. runs' = [runs EXCEPT ![r] = [runs[r] EXCEPT !.stage = stage, !.result = result]]
    BY <1>1, <2>2 DEF Becomes
  <2>4. [runs[r] EXCEPT !.stage = stage, !.result = result].at = runs[r].at
    BY <1>1 DEF Run
  <2> QED
    BY <1>3, <2>1, <2>3, <2>4
<1>13. CASE Report(r)
  <2> DEFINE n == [NoRun EXCEPT !.stage = "ended"]
  <2>1. /\ runs' = [runs EXCEPT ![r] = n]
        /\ controls' = Sent(controls, "finished") /\ UNCHANGED <<versions, others>>
    BY <1>13 DEF Report, trSource
  <2>2. n.at = 0 /\ ~Holding(n)
    BY DEF NoRun, Holding
  <2> HIDE DEF n
  <2>3. controls' \in Seq(Controls) /\ Len(controls') <= MaxControls
    BY <2>1, SentBounded DEF TrBounded, Controls
  <2>4. \A s \in Runs : runs'[s] = IF s = r THEN n ELSE runs[s]
    BY <1>1, <2>1
  <2>5. \A s \in Runs : runs'[s].at <= Size
    BY <1>1, <2>2, <2>4 DEF TrBounded
  <2>6. Permits'
    BY <2>1, <2>2, <2>4, PermitsKept DEF TrBounded
  <2> QED
    BY <2>1, <2>3, <2>5, <2>6 DEF TrBounded
<1> QED
  BY <1>6, <1>7, <1>8, <1>9, <1>10, <1>11, <1>12, <1>13 DEF Task

\* Every step keeps the bounds.
LEMMA TrBoundedStep ==
  ASSUME TrIInv, TrBounded, [TrNext]_trVars
  PROVE  TrBounded'
<1>0. Permits /\ Size \in Nat
  BY TransferSizes DEF TrBounded
<1>1. ASSUME NEW c \in {"pause", "resume", "cancel", "close"}, Ask(c) PROVE TrBounded'
  <2>1. /\ controls' = Sent(controls, c) /\ runs' = runs /\ versions' = versions
        /\ others' = others
    BY <1>1 DEF Ask, trSource
  <2>2. Permits'
    BY <1>0, <2>1, PermitsKept
  <2> QED
    BY <2>1, <2>2, SentBounded DEF TrBounded, Controls
<1>2. CASE AskRecover \/ RemoveTransfer \/ Show \/ UNCHANGED trVars
  <2>1. UNCHANGED <<controls, runs, versions, others>>
    BY <1>2 DEF AskRecover, RemoveTransfer, Show, trVars, trQueues, trSource
  <2>2. Permits'
    BY <1>0, <2>1, PermitsKept
  <2> QED
    BY <2>1, <2>2 DEF TrBounded
<1>3. CASE HandleControl
  <2>1. /\ runs' = runs /\ controls # <<>> /\ controls' = Tail(controls)
        /\ versions' = versions /\ others' = others
    BY <1>3 DEF HandleControl, HandleFlag, HandleCancel, HandleFinished, HandleClose, Control,
                trSource
  <2>2. controls \in Seq(Controls) /\ Len(controls) <= MaxControls
    BY DEF TrBounded
  <2>3. Tail(controls) \in Seq(Controls) /\ Len(Tail(controls)) <= MaxControls
    BY <2>1, <2>2, TransferSizes
  <2>4. Permits'
    BY <1>0, <2>1, PermitsKept
  <2> QED
    BY <2>1, <2>3, <2>4 DEF TrBounded
<1>4. CASE AbortTasks
  <2>1. /\ controls' = controls /\ versions' = versions /\ others' = 0
        /\ runs' \in {runs, [runs EXCEPT ![joined] = [NoRun EXCEPT !.stage = "ended"]]}
    BY <1>4 DEF AbortTasks, trQueues, trSource
  <2>2. [NoRun EXCEPT !.stage = "ended"].at = 0 /\ ~Holding([NoRun EXCEPT !.stage = "ended"])
    BY DEF NoRun, Holding
  <2>3. ASSUME NEW r \in Runs PROVE runs'[r] \in {runs[r], [NoRun EXCEPT !.stage = "ended"]}
    <3>1. runs \in [Runs -> Run]
      BY DEF TrIInv, TrTyped
    <3> QED
      BY <2>1, <3>1
  <2>4. Permits'
    <3>1. \A r \in Runs : Holding(runs'[r]) => Holding(runs[r])
      BY <2>2, <2>3
    <3> QED
      BY <1>0, <2>1, <3>1, PermitsKept
  <2>5. \A r \in Runs : runs'[r].at <= Size
    <3>1. PICK e : e = [NoRun EXCEPT !.stage = "ended"]
      OBVIOUS
    <3>2. e.at = 0 /\ \A r \in Runs : runs'[r] = runs[r] \/ runs'[r] = e
      BY <2>2, <2>3, <3>1
    <3>3. \A r \in Runs : runs[r].at <= Size
      BY DEF TrBounded
    <3> QED
      BY <1>0, <3>2, <3>3
  <2> QED
    BY <2>1, <2>4, <2>5 DEF TrBounded
<1>5. CASE StartDownload
  <2>1. PICK r \in Runs : /\ runs' = [runs EXCEPT ![r].stage = "waiting"] /\ controls' = controls
                          /\ versions' = versions /\ others' = others
    BY <1>5 DEF StartDownload
  <2>2. runs \in [Runs -> Run]
    BY DEF TrIInv, TrTyped
  <2>3. ASSUME NEW s \in Runs
        PROVE  runs'[s].at = runs[s].at /\ (Holding(runs'[s]) => Holding(runs[s]))
    BY <2>1, <2>2 DEF Run, Holding
  <2>4. Permits'
    BY <1>0, <2>1, <2>3, PermitsKept
  <2> QED
    BY <2>1, <2>3, <2>4 DEF TrBounded
<1>6. CASE Restart
  <2>1. NoRun.at = 0 /\ [NoRun EXCEPT !.stage = "ended"].at = 0
        /\ ~Holding([NoRun EXCEPT !.stage = "ended"])
    BY DEF NoRun, Holding
  <2>2. ASSUME NEW r \in Runs PROVE runs'[r] \in {runs[r], [NoRun EXCEPT !.stage = "ended"]}
    BY <1>6 DEF Restart
  <2>3. controls' = <<>> /\ versions' = versions /\ others' = 0
    BY <1>6 DEF Restart, trSource
  <2>4. controls' \in Seq(Controls) /\ Len(controls') <= MaxControls
    BY <2>3, TransferSizes
  <2>5. Permits'
    <3>1. \A r \in Runs : Holding(runs'[r]) => Holding(runs[r])
      BY <2>1, <2>2
    <3> QED
      BY <1>0, <2>3, <3>1, PermitsKept
  <2>6. \A r \in Runs : runs'[r].at <= Size
    <3>1. PICK e : e = [NoRun EXCEPT !.stage = "ended"]
      OBVIOUS
    <3>2. e.at = 0 /\ \A r \in Runs : runs'[r] = runs[r] \/ runs'[r] = e
      BY <2>1, <2>2, <3>1
    <3>3. \A r \in Runs : runs[r].at <= Size
      BY DEF TrBounded
    <3> QED
      BY <1>0, <3>2, <3>3
  <2> QED
    BY <2>3, <2>4, <2>5, <2>6 DEF TrBounded
<1>7. CASE SourceChanges
  <2>1. PICK new \in [size : 1..Size, time : {Now.time, Now.time + 1}] :
          versions' = Append(versions, new)
    BY <1>7 DEF SourceChanges
  <2>2. versions \in Seq(Version) /\ new \in Version /\ new.size <= Size
    <3>1. Now \in Version
      BY NowIsVersion DEF TrIInv
    <3>2. new.size \in Nat \ {0} /\ new.time \in Nat /\ new.size <= Size
      BY <1>0, <2>1, <3>1 DEF Version
    <3> QED
      BY <2>1, <3>2 DEF TrIInv, TrTyped, Version
  <2>3. \A i \in 1..Len(versions') :
          versions'[i] = new \/ (i \in 1..Len(versions) /\ versions'[i] = versions[i])
    BY <2>1, <2>2, AppendProperties
  <2>4. UNCHANGED <<runs, controls, others>>
    BY <1>7 DEF SourceChanges, trQueues
  <2>5. Permits'
    BY <1>0, <2>4, PermitsKept
  <2> QED
    BY <2>2, <2>3, <2>4, <2>5 DEF TrBounded
<1>8. CASE OtherStarts \/ OtherEnds
  <2>1. UNCHANGED <<runs, controls, versions>> /\ HeldPermits' = HeldPermits
    BY <1>8 DEF OtherStarts, OtherEnds, trQueues, trSource, HeldPermits
  <2>2. PICK S \in SUBSET Runs : S = {r \in Runs : runs[r].stage \notin {"none", "waiting", "ended"}}
    OBVIOUS
  <2>3. HeldPermits \in Nat
    BY <2>2, HoldersCounted DEF HeldPermits
  <2>4. Permits'
    BY <1>0, <1>8, <2>1, <2>3, TransferSizes DEF OtherStarts, OtherEnds, Permits
  <2> QED
    BY <2>1, <2>4 DEF TrBounded
<1> QED
  BY <1>1, <1>2, <1>3, <1>4, <1>5, <1>6, <1>7, <1>8, TaskBounded DEF TrNext

\* It holds at the start, and gives the types.
LEMMA TrBoundedTypes ==
  /\ TrInit => TrBounded
  /\ TrIInv /\ TrBounded => TrTypeOK
<1>1. ASSUME TrInit PROVE TrBounded
  <2>1. /\ versions = <<[size |-> Size, time |-> 1]>> /\ controls = <<>> /\ others = 0
        /\ \A r \in Runs : runs[r].at = 0 /\ ~Holding(runs[r])
    BY <1>1 DEF TrInit, Begins, WasLeft, NoRun, Holding
  <2>2. {r \in Runs : runs[r].stage \notin {"none", "waiting", "ended"}} = {}
    BY <2>1 DEF Holding
  <2>3. HeldPermits = 0
    BY <2>2, FS_EmptySet DEF HeldPermits
  <2> QED
    BY <2>1, <2>3, TransferSizes DEF TrBounded, Permits
<1>2. ASSUME TrIInv, TrBounded PROVE TrTypeOK
  <2>1. \A r \in Runs : runs[r].at \in Nat /\ flags[r] \in 0..2
    BY <1>2 DEF TrIInv, TrTyped, Run
  <2>2. {entry, joined, partial, final} \subseteq 0..MaxRuns
    BY <1>2, TransferSizes DEF TrIInv, TrTyped, Runs
  <2> QED
    BY <1>2, <2>1, <2>2, TransferSizes DEF TrBounded, TrTypeOK, Permits
<1> QED
  BY <1>1, <1>2
-----------------------------------------------------------------------------
(* The bounds of the editor: contents are the ones that were written.      *)

Texts == 0..MaxContents
TabBounded(tab) ==
  /\ {tab.text, tab.savedText, tab.revision, tab.source, tab.conflict, tab.atStart} \subseteq Texts
  /\ tab.dirty \/ tab.saving => tab.open
FileBounded == onServer \in Texts /\ stored \subseteq Contents /\ typed \in Contents
SavesBounded == \A j \in Saves : saves[j].content \in Texts /\ saves[j].backup \in Texts
MailBounded == \A i \in 1..Len(answers) : answers[i].content \in Texts
EdBounded == FileBounded /\ TabBounded(doc) /\ SavesBounded /\ MailBounded

\* The tab, before it was opened too.
LEMMA NoTabBounded == TabBounded(NoTab) /\ 0 \in Texts
BY EditorAssumption DEF TabBounded, NoTab, Texts

\* A tab that takes an answer.
LEMMA AnsweredBounded ==
  ASSUME doc \in Doc, TabBounded(doc), NEW a \in Answer, a.content \in Texts, a.kind # "content"
  PROVE  TabBounded(Answered(a))
<1>0. Texts \subseteq Nat /\ 0 \in Texts
  BY EditorAssumption DEF Texts
<1>1. CASE ~doc.open
  BY <1>1 DEF Answered
<1>2. CASE doc.open
  <2> PICK marked : marked = [doc EXCEPT !.crossed = @ \/ ~(a.job = doc.awaits),
                                         !.awaits = IF a.job = doc.awaits THEN 0 ELSE @]
    OBVIOUS
  <2> PICK based : based = [marked EXCEPT !.base = IF a.job = doc.awaits THEN a.content ELSE @]
    OBVIOUS
  <2>1. /\ marked \in Doc /\ TabBounded(marked) /\ marked.open
    BY <1>2 DEF Doc, TabBounded, Answer
  <2>2. based \in Doc /\ TabBounded(based) /\ based.open
    <3>1. PICK b : b = IF a.job = doc.awaits THEN a.content ELSE marked.base
      OBVIOUS
    <3>2. b \in Nat
      BY <2>1, <3>1 DEF Answer, Doc
    <3>3. based = [marked EXCEPT !.base = b]
      BY <3>1
    <3>4. based \in Doc
      BY <2>1, <3>2, <3>3 DEF Doc
    <3>5. /\ based.text = marked.text /\ based.savedText = marked.savedText
          /\ based.revision = marked.revision /\ based.source = marked.source
          /\ based.conflict = marked.conflict /\ based.atStart = marked.atStart
          /\ based.dirty = marked.dirty /\ based.saving = marked.saving
          /\ based.open = marked.open
      BY <2>1, <3>3 DEF Doc
    <3> QED
      BY <2>1, <3>4, <3>5 DEF TabBounded
  <2>3. Answered(a) \in {MarkUploaded(based, a.content), MarkConflict(marked, a.content),
                         MarkUploadFailed(marked)}
    BY <1>2 DEF Answered, Answer
  <2>4. TabBounded(MarkUploaded(based, a.content))
    BY <1>0, <2>2 DEF MarkUploaded, Doc, TabBounded
  <2>5. TabBounded(MarkConflict(marked, a.content))
    BY <1>0, <2>1 DEF MarkConflict, Doc, TabBounded
  <2>6. TabBounded(MarkUploadFailed(marked))
    BY <1>0, <2>1 DEF MarkUploadFailed, Doc, TabBounded
  <2> QED
    BY <2>3, <2>4, <2>5, <2>6
<1> QED
  BY <1>1, <1>2

\* The tab and the user.
LEMMA TabStepBounded ==
  ASSUME EdIInv, EdBounded,
         \/ ReadFile \/ Edit \/ Reload \/ ApplyEncoding \/ CloseTabOfFile \/ NotifyConnectionLost
         \/ \E force \in BOOLEAN : Save(force)
         \/ HandleAnswer
  PROVE  EdBounded'
<1> USE DEF EdBounded
<1>1. /\ doc \in Doc /\ saves \in [Saves -> SaveTask] /\ answers \in Seq(Answer)
      /\ MaxContents \in Nat \ {0}
  BY EditorAssumption DEF EdIInv, EdTyped
<1>2. CASE ReadFile
  <2>1. UNCHANGED <<onServer, stored, typed, doc, saves>>
        /\ answers' = Append(answers, [kind |-> "content", content |-> onServer, job |-> 0])
    BY <1>2 DEF ReadFile
  <2>2. MailBounded'
    BY <1>1, <2>1 DEF MailBounded, FileBounded
  <2> QED
    BY <2>1, <2>2 DEF FileBounded, SavesBounded
<1>3. CASE Edit
  <2>1. UNCHANGED <<onServer, stored, saves, answers>> /\ typed' \in Contents /\ doc.open
        /\ \E text \in Texts, dirty \in BOOLEAN :
             doc' = [doc EXCEPT !.text = text, !.dirty = dirty]
    <3>1. UNCHANGED <<onServer, stored, saves, answers>> /\ doc.open
      BY <1>3 DEF Edit
    <3>2. CASE NewText /\ doc' = [doc EXCEPT !.text = typed + 1, !.dirty = TRUE]
      <4>1. typed + 1 \in Contents /\ typed + 1 \in Texts /\ typed' = typed + 1
        BY <1>1, <3>2 DEF NewText, FileBounded, Texts, Contents
      <4> QED
        BY <3>1, <3>2, <4>1
    <3>3. CASE doc' = [doc EXCEPT !.text = doc.savedText, !.dirty = FALSE] /\ UNCHANGED typed
      BY <3>1, <3>3 DEF TabBounded, FileBounded
    <3> QED
      BY <1>3, <3>2, <3>3 DEF Edit
  <2>2. TabBounded(doc')
    BY <1>1, <2>1 DEF TabBounded, Doc
  <2> QED
    BY <2>1, <2>2 DEF FileBounded, SavesBounded, MailBounded
<1>4. CASE Reload \/ ApplyEncoding \/ CloseTabOfFile \/ NotifyConnectionLost
  <2>1. UNCHANGED <<onServer, stored, typed, saves, answers>>
    BY <1>4 DEF Reload, ApplyEncoding, CloseTabOfFile, NotifyConnectionLost
  <2>2. TabBounded(doc')
    <3>1. CASE Reload
      BY <1>1, <3>1 DEF Reload, TabBounded, Doc, Texts
    <3>2. CASE ApplyEncoding
      BY <1>1, <3>2 DEF ApplyEncoding, TabBounded, Doc, Texts
    <3>3. CASE CloseTabOfFile
      BY <3>3, NoTabBounded DEF CloseTabOfFile
    <3>4. CASE NotifyConnectionLost
      <4>1. TabBounded([doc EXCEPT !.connected = FALSE, !.saving = FALSE])
        BY <1>1 DEF TabBounded, Doc
      <4> QED
        BY <3>4, <4>1, NoTabBounded DEF NotifyConnectionLost
    <3> QED
      BY <1>4, <3>1, <3>2, <3>3, <3>4
  <2> QED
    BY <2>1, <2>2 DEF FileBounded, SavesBounded, MailBounded
<1>5. ASSUME NEW force \in BOOLEAN, Save(force) PROVE EdBounded'
  <2>1. PICK j \in Saves :
          /\ doc' = [doc EXCEPT !.saving = TRUE, !.atStart = doc.text, !.awaits = j]
          /\ saves' = [saves EXCEPT ![j] =
               IF ~online THEN [NoSave EXCEPT !.stage = "over"]
               ELSE [NoSave EXCEPT !.stage = "look", !.content = doc.text,
                                   !.expected = doc.revision, !.force = force,
                                   !.base = doc.base, !.crossed = doc.crossed]]
    BY <1>5 DEF Save
  <2>2. UNCHANGED <<onServer, stored, typed, answers>> /\ doc.open
    BY <1>5 DEF Save
  <2>3. TabBounded(doc')
    BY <1>1, <2>1, <2>2 DEF TabBounded, Doc, Texts
  <2>4. \A k \in Saves : saves'[k].content \in {saves[k].content, 0, doc.text}
                         /\ saves'[k].backup \in {saves[k].backup, 0}
    BY <1>1, <2>1 DEF NoSave
  <2>5. SavesBounded'
    BY <2>4, NoTabBounded DEF SavesBounded, TabBounded
  <2> QED
    BY <2>2, <2>3, <2>5 DEF FileBounded, MailBounded
<1>6. CASE HandleAnswer
  <2>1. /\ UNCHANGED <<onServer, stored, typed, saves>> /\ answers # <<>>
        /\ answers' = Tail(answers)
        /\ doc' = IF Head(answers).kind = "content" THEN Opened(Head(answers).content)
                  ELSE Answered(Head(answers))
    BY <1>6 DEF HandleAnswer
  <2>2. Head(answers) \in Answer /\ Head(answers).content \in Texts
    BY <1>1, <2>1 DEF MailBounded
  <2>3. TabBounded(Opened(Head(answers).content))
    BY <2>2, NoTabBounded DEF Opened, NoTab, TabBounded
  <2>4. TabBounded(doc')
    BY <1>1, <2>1, <2>2, <2>3, AnsweredBounded
  <2>5. MailBounded'
    BY <1>1, <2>1 DEF MailBounded
  <2> QED
    BY <2>1, <2>4, <2>5 DEF FileBounded, SavesBounded
<1> QED
  BY <1>2, <1>3, <1>4, <1>5, <1>6

\* One save, and the others it races.
LEMMA RacedBounded ==
  ASSUME EdIInv, SavesBounded, NEW e, NEW k \in Saves
  PROVE  /\ Raced(e) \in [Saves -> SaveTask]
         /\ Raced(e)[k].content = saves[k].content /\ Raced(e)[k].backup = saves[k].backup
BY DEF EdIInv, EdTyped, Raced, SaveTask, SaveStages

\* The tasks of the session.
LEMMA SaveStepBounded ==
  ASSUME EdIInv, EdBounded, NEW j \in Saves,
         \/ FirstLook(j) \/ SecondLook(j) \/ RenameOver(j) \/ RefuseRename(j)
         \/ MoveAside(j) \/ Place(j) \/ Rollback(j) \/ RemoveBackup(j) \/ VerifySaved(j)
         \/ SaveFails(j) \/ SaveStops(j)
  PROVE  EdBounded'
<1> USE DEF EdBounded
<1>1. /\ saves \in [Saves -> SaveTask] /\ answers \in Seq(Answer) /\ 0 \in Texts
      /\ onServer \in Texts
  BY NoTabBounded DEF EdIInv, EdTyped, FileBounded
<1>2. ASSUME NEW c \in Texts, NEW kind, answers' = Append(answers, [kind |-> kind, content |-> c, job |-> j])
      PROVE  MailBounded'
  BY <1>1, <1>2 DEF MailBounded
<1>3. Over(j) => SavesBounded'
  BY <1>1 DEF Over, NoSave, SavesBounded
<1>4. ASSUME NEW kind, NEW c \in Texts, Ends(j, kind, c) PROVE SavesBounded' /\ MailBounded'
  BY <1>2, <1>3, <1>4 DEF Ends
<1>5. ASSUME NEW stage, Goes(j, stage) PROVE SavesBounded'
  BY <1>1, <1>5 DEF Goes, SavesBounded, SaveTask
<1>6. UNCHANGED <<onServer, stored, typed, doc>> => FileBounded' /\ TabBounded(doc')
  BY DEF FileBounded
<1>7. UNCHANGED answers => MailBounded'
  BY DEF MailBounded
<1>8. CASE FirstLook(j) \/ SecondLook(j)
  BY <1>1, <1>4, <1>5, <1>6, <1>7, <1>8 DEF FirstLook, SecondLook, Look
<1>9. ASSUME NEW n \in SaveTask, n.content \in Texts, n.backup \in Texts,
             saves' = [Raced(j) EXCEPT ![j] = n]
      PROVE  SavesBounded'
  BY <1>9, RacedBounded DEF SavesBounded
<1>10. ASSUME Replaced(j), saves[j].stage \in {"replace", "place"}
       PROVE  onServer' \in Texts /\ stored' \subseteq Contents
  <2>1. saves[j].content # 0 /\ saves[j].content \in Texts
    BY <1>10 DEF EdIInv, SaveTasks, Active, SavesBounded
  <2>2. saves[j].content \in Contents
    BY <2>1, EditorAssumption DEF Texts, Contents
  <2> QED
    BY <1>10, <2>1, <2>2 DEF Replaced, FileBounded
<1>11. /\ saves[j].content \in Texts /\ saves[j].backup \in Texts
       /\ Raced(j)[j] \in SaveTask
       /\ Raced(j)[j].content = saves[j].content /\ Raced(j)[j].backup = saves[j].backup
  BY RacedBounded DEF SavesBounded
<1>12. \A stage \in SaveStages, b \in Texts :
         /\ [Raced(j)[j] EXCEPT !.stage = stage] \in SaveTask
         /\ [Raced(j)[j] EXCEPT !.stage = stage].content \in Texts
         /\ [Raced(j)[j] EXCEPT !.stage = stage].backup \in Texts
         /\ [Raced(j)[j] EXCEPT !.stage = stage, !.backup = b] \in SaveTask
         /\ [Raced(j)[j] EXCEPT !.stage = stage, !.backup = b].content \in Texts
         /\ [Raced(j)[j] EXCEPT !.stage = stage, !.backup = b].backup \in Texts
  <2>1. Texts \subseteq Nat
    BY EditorAssumption DEF Texts
  <2> QED
    BY <1>11, <2>1 DEF SaveTask
<1>13. Raced(j) \in [Saves -> SaveTask]
  BY RacedBounded
<1>14. CASE RenameOver(j) \/ Place(j)
  <2>1. PICK stage \in SaveStages : saves' = [Raced(j) EXCEPT ![j].stage = stage]
    BY <1>14 DEF RenameOver, Place, SaveStages
  <2>2. Replaced(j) /\ saves[j].stage \in {"replace", "place"} /\ UNCHANGED <<typed, doc, answers>>
    BY <1>14 DEF RenameOver, Place, At
  <2>3. saves' = [Raced(j) EXCEPT ![j] = [Raced(j)[j] EXCEPT !.stage = stage]]
    BY <1>13, <2>1
  <2>4. SavesBounded'
    BY <1>1, <1>9, <1>12, <2>3
  <2> QED
    BY <1>7, <1>10, <2>2, <2>4 DEF FileBounded
<1>15. CASE MoveAside(j)
  <2>1. /\ saves' = [Raced(j) EXCEPT ![j].stage = "place", ![j].backup = onServer]
        /\ onServer' = 0 /\ UNCHANGED <<stored, typed, doc, answers>>
    BY <1>15 DEF MoveAside
  <2>2. saves' = [Raced(j) EXCEPT ![j] = [Raced(j)[j] EXCEPT !.stage = "place", !.backup = onServer]]
    BY <1>13, <2>1
  <2>3. SavesBounded'
    BY <1>1, <1>9, <1>12, <2>2 DEF SaveStages
  <2> QED
    BY <1>1, <1>7, <2>1, <2>3 DEF FileBounded
<1>16. CASE Rollback(j)
  <2>1. /\ saves' = [Raced(j) EXCEPT ![j] = [NoSave EXCEPT !.stage = "over"]]
        /\ onServer' = saves[j].backup /\ UNCHANGED <<stored, typed, doc>>
        /\ answers' = Append(answers, [kind |-> "failed", content |-> 0, job |-> j])
    BY <1>16 DEF Rollback
  <2>2. /\ [NoSave EXCEPT !.stage = "over"] \in SaveTask
        /\ [NoSave EXCEPT !.stage = "over"].content = 0 /\ [NoSave EXCEPT !.stage = "over"].backup = 0
    BY DEF NoSave, SaveTask, SaveStages
  <2>3. SavesBounded'
    BY <1>1, <1>9, <2>1, <2>2
  <2> QED
    BY <1>1, <1>2, <1>11, <2>1, <2>3 DEF FileBounded
<1>17. CASE RefuseRename(j)
  BY <1>5, <1>6, <1>7, <1>17 DEF RefuseRename
<1>18. CASE RemoveBackup(j)
  <2>1. saves' = [saves EXCEPT ![j].stage = "verify", ![j].backup = 0]
    BY <1>18 DEF RemoveBackup
  <2>2. \A k \in Saves : saves'[k].content = saves[k].content /\ saves'[k].backup \in {saves[k].backup, 0}
    BY <1>1, <2>1 DEF SaveTask
  <2>3. SavesBounded'
    BY <1>1, <2>2 DEF SavesBounded
  <2> QED
    BY <1>6, <1>7, <1>18, <2>3 DEF RemoveBackup
<1>19. CASE VerifySaved(j) \/ SaveFails(j)
  BY <1>1, <1>4, <1>6, <1>19 DEF VerifySaved, SaveFails
<1>20. CASE SaveStops(j)
  BY <1>3, <1>6, <1>7, <1>20 DEF SaveStops
<1> QED
  BY <1>8, <1>14, <1>15, <1>16, <1>17, <1>18, <1>19, <1>20

\* Every step keeps the bounds.
LEMMA EdBoundedStep ==
  ASSUME EdIInv, EdBounded, [EdNext]_edVars
  PROVE  EdBounded'
<1>1. CASE SessionLost \/ UNCHANGED edVars
  BY <1>1 DEF SessionLost, edVars, EdBounded, FileBounded, SavesBounded, MailBounded
<1>2. CASE OthersWrite
  <2>1. /\ onServer' = typed + 1 /\ stored' = stored \cup {typed + 1} /\ typed' = typed + 1
        /\ saves' = Raced(0) /\ UNCHANGED <<doc, answers>> /\ typed < MaxContents
    BY <1>2 DEF OthersWrite, NewText
  <2>2. FileBounded'
    BY <2>1, EditorAssumption DEF EdBounded, FileBounded, Texts, Contents
  <2>3. SavesBounded'
    BY <2>1, RacedBounded DEF EdBounded, SavesBounded
  <2> QED
    BY <2>1, <2>2, <2>3 DEF EdBounded, MailBounded
<1> QED
  BY <1>1, <1>2, TabStepBounded, SaveStepBounded DEF EdNext

\* It holds at the start, and gives the types.
LEMMA EdBoundedTypes ==
  /\ EdInit => EdBounded
  /\ EdBounded => EdTypeOK
<1>1. ASSUME EdInit PROVE EdBounded
  <2>1. FileBounded /\ MailBounded
    BY <1>1, EditorAssumption DEF EdInit, FileBounded, MailBounded, Texts, Contents
  <2>2. SavesBounded
    BY <1>1, NoTabBounded DEF EdInit, SavesBounded, NoSave
  <2> QED
    BY <1>1, <2>1, <2>2, NoTabBounded DEF EdInit, EdBounded
<1>2. EdBounded => EdTypeOK
  BY DEF EdBounded, FileBounded, TabBounded, SavesBounded, EdTypeOK, Texts
<1> QED
  BY <1>1, <1>2
-----------------------------------------------------------------------------
(* The types of the services, and of all of them in one behaviour.         *)

\* An accepted key is one of a host, and a lock file that is not there is not
\* found stale (KnownHostsLock).
THEOREM HostKeysTyped == HkSpec => []HkTypeOK
<1> DEFINE TakenIfStale == lock.stale => lock.by # Free
<1>1. HkInit => HkIInv
  BY HkInitially
<1>2. HkInit => TakenIfStale
  BY DEF HkInit, NoLock
<1>3. HkIInv /\ TakenIfStale /\ [HkNext]_hkVars => TakenIfStale'
  <2> SUFFICES ASSUME HkIInv, TakenIfStale, [HkNext]_hkVars PROVE TakenIfStale'
    OBVIOUS
  <2>1. ASSUME NEW p \in Procs, Acquire(p) PROVE TakenIfStale'
    BY <2>1 DEF Acquire
  <2>2. ASSUME NEW p \in Procs, RemoveStale(p) \/ Unlock(p) PROVE TakenIfStale'
    <3>1. lock' = NoLock
      BY <2>2 DEF RemoveStale, Unlock, Removes
    <3> QED
      BY <3>1 DEF NoLock
  <2>3. ASSUME NEW p \in Procs, ProcessEnds(p) PROVE TakenIfStale'
    BY <2>3, HostKeysAssumption DEF ProcessEnds, HkIInv, HkTyped
  <2>4. CASE LockAges
    BY <2>4 DEF LockAges, HkIInv, HkTyped
  <2>5. ASSUME UNCHANGED lock PROVE TakenIfStale'
    BY <2>5
  <2>6. CASE UNCHANGED hkVars
    BY <2>5, <2>6 DEF hkVars
  <2>7. ASSUME NEW p \in Procs, NEW h \in Hosts, NEW k \in Keys, VerifyHostKey(p, h, k)
        PROVE  TakenIfStale'
    BY <2>5, <2>7 DEF VerifyHostKey
  <2>8. ASSUME NEW p \in Procs,
               FindStale(p) \/ GiveUp(p) \/ Classify(p) \/ RecordKey(p) \/ StorageFails(p)
                 \/ CheckToken(p)
        PROVE  TakenIfStale'
    BY <2>5, <2>8 DEF FindStale, GiveUp, Classify, RecordKey, StorageFails, CheckToken
  <2> QED
    BY <2>1, <2>2, <2>3, <2>4, <2>6, <2>7, <2>8 DEF HkNext
<1>4. HkIInv /\ TakenIfStale => HkTypeOK
  BY DEF HkIInv, HkTyped, HkTypeOK, Entries
<1> HIDE DEF TakenIfStale
<1> QED
  BY <1>1, <1>2, <1>3, <1>4, HkStep, PTL DEF HkSpec

\* The wake-ups of frames keep to the capacities of the two queues they go
\* through (send_with_generation, push_bounded).
THEOREM WakeUpsTyped == FmSpec => []FmTypeOK
<1> DEFINE Room == Len(queue) <= QueueCapacity /\ Len(waiting) <= WindowCapacity
<1>1. FmInit => FmIInv
  BY FmInitially
<1>2. FmInit => Room
  BY MailboxAssumption DEF FmInit
<1>3. FmIInv /\ Room /\ [FmNext]_fmVars => Room'
  <2> SUFFICES ASSUME FmIInv, Room, [FmNext]_fmVars PROVE Room'
    OBVIOUS
  <2> USE MailboxAssumption
  <2>1. queue \in Seq({"frame", "other"}) /\ waiting \in Seq({"frame", "other"})
    BY DEF FmIInv, FmTyped
  <2>2. CASE Publish \/ WakeupFailed \/ UNCHANGED fmVars
    BY <2>2 DEF Publish, WakeupFailed, fmVars
  <2>3. CASE SendFrameReady \/ OthersSend
    BY <2>1, <2>3 DEF SendFrameReady, OthersSend
  <2>4. CASE RouteToWindow
    <3>1. Head(queue) \in {"frame", "other"} /\ Len(Tail(queue)) = Len(queue) - 1
      BY <2>1, <2>4 DEF RouteToWindow
    <3>2. Len(Append(waiting, Head(queue))) = Len(waiting) + 1
      BY <2>1, <3>1
    <3> QED
      BY <2>1, <2>4, <3>1, <3>2 DEF RouteToWindow
  <2>5. CASE HandleFrameReady
    BY <2>1, <2>5 DEF HandleFrameReady
  <2> QED
    BY <2>2, <2>3, <2>4, <2>5 DEF FmNext
<1>4. FmIInv /\ Room => FmTypeOK
  BY DEF FmIInv, FmTyped, FmTypeOK
<1> HIDE DEF Room
<1> QED
  BY <1>1, <1>2, <1>3, <1>4, FmStep, PTL DEF FmSpec

\* Nothing is installed or left behind but versions that were downloaded or
\* there at first, which starts.
THEOREM InstalledIsAVersion == UpSpec => []UpTypeOK
<1> DEFINE Left == 1 \in works /\ installs \in 0..MaxInstalls /\ leftovers \subseteq Versions
<1>1. UpInit => Left
  BY UpdateAssumption DEF UpInit
<1>2. ASSUME UpIInv, Left, UpNext PROVE Left'
  <2>1. \A i \in Instances : insts[i].backup \in Versions \cup {0}
    BY <1>2 DEF UpIInv, UpTyped, Instance
  <2>2. /\ works' = works
        /\ leftovers' = leftovers \/ \E i \in Instances :
                                       leftovers' = leftovers \cup ({insts[i].backup} \ {0})
    <3>1. ASSUME NEW i \in Instances, NEW v \in NewVersions, InstallAndRestart(i, v)
          PROVE  works' = works /\ leftovers' = leftovers
      BY <3>1 DEF InstallAndRestart
    <3>2. ASSUME NEW i \in Instances, BackUp(i) \/ Launch(i) \/ StageBundle(i) \/ ClearOld(i)
                   \/ MoveBundleAside(i) \/ MoveBundleIn(i) \/ PutBack(i) \/ StartProgram(i)
          PROVE  works' = works /\ leftovers' = leftovers
      BY <3>2 DEF BackUp, Launch, StageBundle, ClearOld, MoveBundleAside, MoveBundleIn, PutBack,
                  StartProgram, upSame
    <3>3. ASSUME NEW i \in Instances, InstallImage(i) \/ CleanUp(i) \/ RestoreImage(i)
                   \/ DropOld(i) \/ InstanceEnds(i)
          PROVE  /\ works' = works
                 /\ \/ leftovers' = leftovers
                    \/ leftovers' = leftovers \cup ({insts[i].backup} \ {0})
      BY <3>3 DEF InstallImage, CleanUp, RestoreImage, DropOld, InstanceEnds, Forgets, Leaves,
                  upSame
    <3> QED
      BY <1>2, <3>1, <3>2, <3>3 DEF UpNext
  <2>3. installs' \in 0..MaxInstalls
    <3>1. ASSUME NEW i \in Instances, NEW v \in NewVersions, InstallAndRestart(i, v)
          PROVE  installs' \in 0..MaxInstalls
      <4>1. installs \in 0..MaxInstalls /\ MaxInstalls \in Nat
        BY <1>2, UpdateAssumption
      <4>2. installs < MaxInstalls /\ installs' = installs + 1
        BY <3>1 DEF InstallAndRestart
      <4> QED
        BY <4>1, <4>2
    <3>2. ASSUME NEW i \in Instances, BackUp(i) \/ Launch(i) \/ StageBundle(i) \/ ClearOld(i)
                   \/ MoveBundleAside(i) \/ MoveBundleIn(i) \/ PutBack(i) \/ StartProgram(i)
                   \/ InstallImage(i) \/ CleanUp(i) \/ RestoreImage(i) \/ DropOld(i)
                   \/ InstanceEnds(i)
          PROVE  installs' = installs
      BY <3>2 DEF BackUp, Launch, StageBundle, ClearOld, MoveBundleAside, MoveBundleIn, PutBack,
                  StartProgram, InstallImage, CleanUp, RestoreImage, DropOld, InstanceEnds, upSame
    <3> QED
      BY <1>2, <3>1, <3>2 DEF UpNext
  <2> QED
    BY <1>2, <2>1, <2>2, <2>3
<1>3. UpIInv /\ Left /\ [UpNext]_upVars => UpIInv' /\ Left'
  <2>1. UpIInv /\ Left /\ UNCHANGED upVars => Left'
    BY DEF upVars, Versions
  <2> QED
    BY <1>2, <2>1, UpStep, UpStutter
<1>4. UpIInv /\ Left => UpTypeOK
  BY DEF UpIInv, UpTyped, Images, Instance, UpTypeOK
<1> HIDE DEF Left
<1> QED
  BY <1>1, <1>3, <1>4, UpInitially, PTL DEF UpSpec

\* No task writes or shows more than the file has, and the queue of controls
\* keeps to its capacity (MAX_PENDING_CONTROLS and the transfer's progress).
THEOREM TransfersTyped == TrInit /\ [][TrNext]_trVars => []TrTypeOK
<1>1. TrIInv /\ TrBounded /\ [TrNext]_trVars => TrIInv' /\ TrBounded'
  BY TrStep, TrStutter, TrBoundedStep
<1> QED
  BY <1>1, TrInitially, TrBoundedTypes, PTL

\* The texts of the editor, of the file and of its saves are texts that were
\* typed, on the tab or on the server.
THEOREM EditorTyped == EdSpec => []EdTypeOK
<1>1. EdIInv /\ EdBounded /\ [EdNext]_edVars => EdIInv' /\ EdBounded'
  BY EdStep, EdBoundedStep
<1> QED
  BY <1>1, EdInitially, EdBoundedTypes, PTL DEF EdSpec

\* A behaviour of the run is one of every service.
LEMMA EachService ==
  /\ Init => EvInit /\ TTInit /\ TrInit /\ EdInit /\ HkInit /\ FmInit /\ UpInit /\ CtInit
  /\ [Next]_vars => /\ [EvNext]_evVars /\ [TTNext]_ttVars /\ [TrNext]_trVars /\ [EdNext]_edVars
                    /\ [HkNext]_hkVars /\ [FmNext]_fmVars /\ [UpNext]_upVars /\ [CtNext]_ctVars
<1>1. Init => EvInit /\ TTInit /\ TrInit /\ EdInit /\ HkInit /\ FmInit /\ UpInit /\ CtInit
  BY ONLY DEF Init
<1>2. [Next]_vars => /\ [EvNext]_evVars /\ [TTNext]_ttVars /\ [TrNext]_trVars /\ [EdNext]_edVars
                     /\ [HkNext]_hkVars /\ [FmNext]_fmVars /\ [UpNext]_upVars /\ [CtNext]_ctVars
  BY ONLY DEF Next, StepOf, vars
<1> QED
  BY <1>1, <1>2

\* The types of all services, in the behaviours that TLC checks and for any
\* sizes: what each of them holds stays within its bounds, at any time.
THEOREM ServicesTyped == Spec => []TypeOK
<1>1. TypeOK <=> /\ EvTypeOK /\ TTTypeOK /\ TrTypeOK /\ EdTypeOK /\ HkTypeOK /\ FmTypeOK
                 /\ UpTypeOK /\ CtTypeOK
  BY DEF TypeOK
<1>2. Spec => /\ EvInit /\ TTInit /\ TrInit /\ EdInit /\ HkInit /\ FmInit /\ UpInit /\ CtInit
              /\ [][EvNext]_evVars /\ [][TTNext]_ttVars /\ [][TrNext]_trVars
              /\ [][EdNext]_edVars /\ [][HkNext]_hkVars /\ [][FmNext]_fmVars
              /\ [][UpNext]_upVars /\ [][CtNext]_ctVars
  BY EachService, PTL DEF Spec
<1>3. EvInit /\ [][EvNext]_evVars => []EvTypeOK
  <2>1. EvInit => ClIInv /\ Bounded
    BY EndsStart, BoundedStart
  <2>2. ClIInv /\ Bounded /\ [EvNext]_evVars => ClIInv' /\ Bounded'
    BY EndsStep, BoundedStep
  <2> QED
    BY <2>1, <2>2, BoundedEnough, PTL
<1> QED
  BY <1>1, <1>2, <1>3, WindowsTyped, TransfersTyped, EditorTyped, HostKeysTyped,
     WakeUpsTyped, InstalledIsAVersion, SavedConnectionsTyped, PTL
     DEF TTSpec, EdSpec, HkSpec, FmSpec, UpSpec, CtSpec

\* The invariants of the services, in the behaviours that TLC checks and for
\* any sizes: each is the theorem of its component, without its fairness.
THEOREM ServicesSafe ==
  Spec => [](/\ RoutesFollowTabs /\ NoCloseLost /\ TabsConserved /\ RoutesTravel
             /\ OneFingerprint /\ CleanIsSafe /\ FileSurvives /\ KeysKept /\ FrameNotStuck
             /\ NeverStranded /\ RestoreUndoesDelete)
<1>1. Spec => /\ EvInit /\ TTInit /\ TrInit /\ EdInit /\ HkInit /\ FmInit /\ UpInit /\ CtInit
              /\ [][EvNext]_evVars /\ [][TTNext]_ttVars /\ [][TrNext]_trVars
              /\ [][EdNext]_edVars /\ [][HkNext]_hkVars /\ [][FmNext]_fmVars
              /\ [][UpNext]_upVars /\ [][CtNext]_ctVars
  BY EachService, PTL DEF Spec
<1>2. EvInit /\ [][EvNext]_evVars => [](RoutesFollowTabs /\ NoCloseLost)
  BY EvStart, EvStep, EvEnough, EndsStart, EndsStep, EndsEnough, PTL
<1>3. TrInit /\ [][TrNext]_trVars => []OneFingerprint
  <2>1. TrIInv /\ [TrNext]_trVars => TrIInv'
    BY TrStep, TrStutter
  <2> QED
    BY TrInitially, <2>1, OneFingerprintKept, PTL
<1> QED
  BY <1>1, <1>2, <1>3, TabsStayWhole, RoutesGoAlong, CleanTabIsSafe, FileKept, AcceptedKeysStay,
     PictureMoves, ProgramLeft, GroupsComeBack, PTL
     DEF TTSpec, EdSpec, HkSpec, FmSpec, UpSpec, CtSpec

\* And what no step of theirs may do.
THEOREM ServicesStep ==
  Spec => RollbackExact /\ CancelSticks /\ NoSilentOverwrite /\ InUseNotLost
<1>1. Spec => /\ TTInit /\ TrInit /\ EdInit /\ CtInit
              /\ [][TTNext]_ttVars /\ [][TrNext]_trVars /\ [][EdNext]_edVars /\ [][CtNext]_ctVars
  BY EachService, PTL DEF Spec
<1>2. TrInit /\ [][TrNext]_trVars => CancelSticks
  <2>1. TrIInv /\ [TrNext]_trVars => TrIInv'
    BY TrStep, TrStutter
  <2>2. TrIInv /\ TrIInv' /\ [TrNext]_trVars =>
          [\A r \in Runs : flags[r] = 2 => flags'[r] = 2 /\ late'[r] <= 1]_trVars
    BY CancelledStays
  <2> QED
    BY TrInitially, <2>1, <2>2, PTL DEF CancelSticks
<1> QED
  BY <1>1, <1>2, FailedMoveUndone, NothingOverwritten, ConnectionsNotLost, PTL
     DEF TTSpec, EdSpec, CtSpec
===============================================================================
