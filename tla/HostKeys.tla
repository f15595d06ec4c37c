------------------------------ MODULE HostKeys ------------------------------
(***************************************************************************)
(* The known_hosts file (session/host_key.rs): processes that verify the   *)
(* key a server shows, each under a lock file that another process may     *)
(* find stale and remove.  Within a process KNOWN_HOSTS_MUTEX leaves one   *)
(* verification at a time, so a process stands for its verification.       *)
(***************************************************************************)
EXTENDS Naturals

CONSTANTS
  Procs, Hosts, Keys,
  NoKey,      \* a host without an entry
  Free,       \* the lock file does not exist
  Orphan,     \* its holder ended without removing it
  MaxVerifies \* bound: verifications

ASSUME HostKeysAssumption ==
  Free # Orphan /\ {Free, Orphan} \cap Procs = {} /\ NoKey \notin Keys

VARIABLES
  hosts,     \* the entries of the file
  lock,      \* whose token is in the lock file, and whether it is stale
  procs,     \* each process, with the file as it read it
  accepted,  \* history: the keys accepted for a host
  verifies,  \* verifications so far, up to MaxVerifies
  overtaken  \* history: the lock of a process at work was removed

hkVars == <<hosts, lock, procs, accepted, verifies, overtaken>>

NoLock == [by |-> Free, stale |-> FALSE]
Resting == [at |-> "rest", host |-> NoKey, key |-> NoKey, read |-> [h \in Hosts |-> NoKey]]
Decided == [Resting EXCEPT !.at = "check lock"]

HkInit ==
  /\ hosts = [h \in Hosts |-> NoKey]
  /\ lock = NoLock
  /\ procs = [p \in Procs |-> Resting]
  /\ accepted = {} /\ verifies = 0 /\ overtaken = FALSE

StepTo(p, from, to) ==
  /\ procs[p].at = from
  /\ procs' = [procs EXCEPT ![p].at = to]

VerifyHostKey(p, h, k) ==
  /\ procs[p].at = "rest"
  /\ verifies < MaxVerifies /\ verifies' = verifies + 1
  /\ procs' = [procs EXCEPT ![p] = [Resting EXCEPT !.at = "acquire", !.host = h, !.key = k]]
  /\ UNCHANGED <<hosts, lock, accepted, overtaken>>

-----------------------------------------------------------------------------
(* KnownHostsLock::acquire                                                 *)

\* A mutant of Acquire: a lock file that exists is written over.
AcquireAlways(p) ==
  /\ StepTo(p, "acquire", "read")
  /\ lock' = [by |-> p, stale |-> FALSE]
  /\ UNCHANGED <<hosts, accepted, verifies, overtaken>>

Acquire(p) ==
  /\ lock.by = Free
  /\ StepTo(p, "acquire", "read")
  /\ lock' = [by |-> p, stale |-> FALSE]
  /\ UNCHANGED <<hosts, accepted, verifies, overtaken>>

(* lock_is_stale: what it finds may be gone when the file is removed.      *)
FindStale(p) ==
  /\ lock.by # Free /\ lock.stale
  /\ StepTo(p, "acquire", "remove stale")
  /\ UNCHANGED <<hosts, lock, accepted, verifies, overtaken>>

Removes(p) ==
  /\ lock' = NoLock
  /\ overtaken' = (overtaken \/ lock.by \in Procs \ {p})

RemoveStale(p) ==
  /\ StepTo(p, "remove stale", "acquire")
  /\ Removes(p)
  /\ UNCHANGED <<hosts, accepted, verifies>>

(* LOCK_WAIT_TIMEOUT, or the lock file cannot be used.                     *)
GiveUp(p) ==
  /\ procs[p].at = "acquire"
  /\ procs' = [procs EXCEPT ![p] = Resting]
  /\ UNCHANGED <<hosts, lock, accepted, verifies, overtaken>>

-----------------------------------------------------------------------------
(* verify_blocking under the lock: an entry of the host with this key is   *)
(* trust, one with another key is not, and no entry is a first use.        *)
Classify(p) ==
  /\ procs[p].at = "read"
  /\ LET known == hosts[procs[p].host]
         key   == procs[p].key
     IN  /\ procs' = [procs EXCEPT ![p] = IF known # NoKey THEN Decided
                                         ELSE [@ EXCEPT !.at = "write", !.read = hosts]]
         /\ accepted' = IF known = key THEN accepted \cup {<<procs[p].host, key>>} ELSE accepted
  /\ UNCHANGED <<hosts, lock, verifies, overtaken>>

(* write_atomically replaces the file by what was read and the new entry.  *)
WithEntry(p) == [procs[p].read EXCEPT ![procs[p].host] = procs[p].key]
RecordKey(p) ==
  /\ procs[p].at = "write"
  /\ procs' = [procs EXCEPT ![p] = Decided]
  /\ hosts' = WithEntry(p)
  /\ accepted' = accepted \cup {<<procs[p].host, procs[p].key>>}
  /\ UNCHANGED <<lock, verifies, overtaken>>

(* Reading or writing fails: the key is not accepted, though the file has  *)
(* it if all that failed was to sync the directory after the rename.       *)
StorageFails(p) ==
  /\ procs[p].at \in {"read", "write"}
  /\ procs' = [procs EXCEPT ![p] = Decided]
  /\ hosts' = hosts \/ (procs[p].at = "write" /\ hosts' = WithEntry(p))
  /\ UNCHANGED <<lock, accepted, verifies, overtaken>>

(* Drop reads the token, then removes the file by its name.                *)
CheckToken(p) ==
  /\ IF lock.by = p THEN StepTo(p, "check lock", "unlock")
     ELSE StepTo(p, "check lock", "rest")
  /\ UNCHANGED <<hosts, lock, accepted, verifies, overtaken>>

Unlock(p) ==
  /\ StepTo(p, "unlock", "rest")
  /\ Removes(p)
  /\ UNCHANGED <<hosts, accepted, verifies>>

-----------------------------------------------------------------------------
ProcessEnds(p) ==
  /\ procs[p].at # "rest"
  /\ procs' = [procs EXCEPT ![p] = Resting]
  /\ lock' = IF lock.by = p THEN [lock EXCEPT !.by = Orphan] ELSE lock
  /\ UNCHANGED <<hosts, accepted, verifies, overtaken>>

(* STALE_LOCK_AGE passes, also while the holder is at work.                *)
LockAges ==
  /\ lock.by # Free
  /\ lock' = [lock EXCEPT !.stale = TRUE]
  /\ UNCHANGED <<hosts, procs, accepted, verifies, overtaken>>

HkNext ==
  \/ \E p \in Procs :
       \/ \E h \in Hosts, k \in Keys : VerifyHostKey(p, h, k)
       \/ Acquire(p) \/ FindStale(p) \/ RemoveStale(p) \/ GiveUp(p)
       \/ Classify(p) \/ RecordKey(p) \/ StorageFails(p)
       \/ CheckToken(p) \/ Unlock(p) \/ ProcessEnds(p)
  \/ LockAges

HkSpec == HkInit /\ [][HkNext]_hkVars

-----------------------------------------------------------------------------
HkTypeOK ==
  /\ hosts \in [Hosts -> Keys \cup {NoKey}]
  /\ lock.by \in Procs \cup {Free, Orphan} /\ (lock.stale => lock.by # Free)
  /\ accepted \subseteq Hosts \X Keys

(* A key that was accepted stays in the file, through processes that read  *)
(* and replace it, end half way and leave their lock behind: a server that *)
(* shows another key later is found out.  Unless a process at work lost    *)
(* its lock, to one that found it stale or that found stale the lock       *)
(* before it.                                                              *)
KeysKept == overtaken \/ \A a \in accepted : hosts[a[1]] = a[2]
=============================================================================
