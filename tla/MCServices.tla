------------------------------ MODULE MCServices ------------------------------
(***************************************************************************)
(* The components that share no state, checked in one run: `subject` says  *)
(* which of them a behaviour is about, and only that one moves.            *)
(***************************************************************************)
EXTENDS BackendEvents, TabTransfer, SftpTransfer, SftpEditor, HostKeys, FrameMailbox,
        UpdateInstall, ConnectionCatalog

VARIABLE subject

vars == <<subject, evVars, ttVars, trVars, edVars, hkVars, fmVars, upVars, ctVars>>

Init ==
  /\ subject \in {"events", "tabs", "transfer", "editor", "host keys", "frames",
                  "update", "catalog"}
  /\ EvInit /\ TTInit /\ TrInit /\ EdInit /\ HkInit /\ FmInit /\ CtInit
  /\ UpInit
  /\ subject # "update" => layout = "AppImage" /\ works = {1}
  /\ subject # "transfer" => starts = 1

(* Bound: the last piece of work only while a single tab was opened.       *)
WorkBound == work < MaxWork \/ Cardinality(OpenedTabs) <= 1

StepOf(name, A) == subject = name /\ A /\ UNCHANGED subject
Next ==
  \/ StepOf("events", EvNext /\ WorkBound')
     /\ UNCHANGED <<ttVars, trVars, edVars, hkVars, fmVars, upVars, ctVars>>
  \/ StepOf("tabs", TTNext)
     /\ UNCHANGED <<evVars, trVars, edVars, hkVars, fmVars, upVars, ctVars>>
  \/ StepOf("transfer", TrNext)
     /\ UNCHANGED <<evVars, ttVars, edVars, hkVars, fmVars, upVars, ctVars>>
  \/ StepOf("editor", EdNext)
     /\ UNCHANGED <<evVars, ttVars, trVars, hkVars, fmVars, upVars, ctVars>>
  \/ StepOf("host keys", HkNext)
     /\ UNCHANGED <<evVars, ttVars, trVars, edVars, fmVars, upVars, ctVars>>
  \/ StepOf("frames", FmNext)
     /\ UNCHANGED <<evVars, ttVars, trVars, edVars, hkVars, upVars, ctVars>>
  \/ StepOf("update", UpNext)
     /\ UNCHANGED <<evVars, ttVars, trVars, edVars, hkVars, fmVars, ctVars>>
  \/ StepOf("catalog", CtNext)
     /\ UNCHANGED <<evVars, ttVars, trVars, edVars, hkVars, fmVars, upVars>>

(* TrFairness, for the behaviours about a transfer.                        *)
Fairness ==
  /\ WF_trVars(subject = "transfer" /\ Loop) /\ WF_trVars(subject = "transfer" /\ Show)
  /\ \A r \in Runs : WF_trVars(subject = "transfer" /\ Task(r))

Spec == Init /\ [][Next]_vars /\ Fairness

TypeOK ==
  /\ EvTypeOK /\ TTTypeOK /\ TrTypeOK /\ EdTypeOK /\ HkTypeOK /\ FmTypeOK /\ UpTypeOK
  /\ CtTypeOK
===============================================================================
