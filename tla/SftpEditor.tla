----------------------------- MODULE SftpEditor -----------------------------
(***************************************************************************)
(* One remote text file in the SFTP editor (app/sftp_editor.rs, sftp/      *)
(* text_file.rs): the tab that shows it, the save tasks of the session,    *)
(* each of which looks at the file twice before it replaces it, the        *)
(* answers on their way to the window, and whoever else writes the file.   *)
(* A content is known by a number, and so is its revision (size and hash). *)
(***************************************************************************)
EXTENDS Naturals, Sequences

CONSTANTS
  MaxContents,  \* bound: contents written or typed by anyone
  MaxSaves      \* bound: save tasks

ASSUME EditorAssumption == {MaxContents, MaxSaves} \subseteq Nat \ {0}

VARIABLES
  onServer,   \* the content at the path, 0 while there is no file
  stored,     \* history: every content the path ever had
  typed,      \* the contents used so far
  doc,        \* EditorTab, and what the user started from
  saves,      \* handle_save_file_content, one task each
  answers,    \* events on their way to the window
  online      \* the SFTP session is up

edVars == <<onServer, stored, typed, doc, saves, answers, online>>

Saves    == 1..MaxSaves
Contents == 1..MaxContents

(* `base` is what the text was made from as far as the user can tell; the  *)
(* tab is `crossed` when it took the answer to a save it did not wait for: *)
(* one of an earlier tab of the file, or one behind a reload.              *)
NoTab == [open |-> FALSE, connected |-> TRUE, text |-> 0, savedText |-> 0, revision |-> 0,
          source |-> 0, dirty |-> FALSE, saving |-> FALSE, conflict |-> 0, atStart |-> 0,
          awaits |-> 0, base |-> 0, crossed |-> FALSE]
NoSave == [stage |-> "none", content |-> 0, expected |-> 0, force |-> FALSE,
           base |-> 0, crossed |-> FALSE, raced |-> FALSE, backup |-> 0]

EdInit ==
  /\ onServer = 1 /\ stored = {1} /\ typed = 1
  /\ doc = NoTab
  /\ saves = [j \in Saves |-> NoSave]
  /\ answers = <<>>
  /\ online = TRUE

-----------------------------------------------------------------------------
(* The tab.                                                                *)

(* handle_download_file_content: what is read now is shown later.          *)
ReadFile ==
  /\ online /\ onServer # 0 /\ ~doc.open
  /\ \A i \in DOMAIN answers : answers[i].kind # "content"
  /\ answers' = Append(answers, [kind |-> "content", content |-> onServer, job |-> 0])
  /\ UNCHANGED <<onServer, stored, typed, doc, saves, online>>

NewText == typed < MaxContents /\ typed' = typed + 1

(* subscribe_input_changes; what is typed may be the saved text again.     *)
Edit ==
  /\ doc.open
  /\ \/ NewText /\ doc' = [doc EXCEPT !.text = typed + 1, !.dirty = TRUE]
     \/ doc' = [doc EXCEPT !.text = doc.savedText, !.dirty = FALSE] /\ UNCHANGED typed
  /\ UNCHANGED <<onServer, stored, saves, answers, online>>

(* save_active_with_force; force is offered beside a conflict.  A session  *)
(* that is gone takes the command and never answers it.                    *)
Save(force) ==
  /\ doc.open /\ doc.connected /\ ~doc.saving
  /\ force => doc.conflict # 0
  /\ \E j \in Saves :
       /\ saves[j].stage = "none"
       /\ \A k \in 1..(j - 1) : saves[k].stage # "none"
       /\ doc' = [doc EXCEPT !.saving = TRUE, !.atStart = doc.text, !.awaits = j]
       /\ saves' = [saves EXCEPT ![j] =
            IF ~online THEN [NoSave EXCEPT !.stage = "over"]
            ELSE [NoSave EXCEPT !.stage = "look", !.content = doc.text,
                                !.expected = doc.revision, !.force = force,
                                !.base = doc.base, !.crossed = doc.crossed]]
  /\ UNCHANGED <<onServer, stored, typed, answers, online>>

(* reload_active_conflict: also offered while a save is under way.         *)
Reload ==
  /\ doc.open /\ doc.conflict # 0
  /\ doc' = [doc EXCEPT !.revision = doc.conflict, !.source = doc.conflict,
                        !.savedText = doc.conflict, !.text = doc.conflict,
                        !.saving = FALSE, !.atStart = 0, !.conflict = 0, !.dirty = FALSE,
                        !.awaits = 0, !.base = doc.conflict, !.crossed = FALSE]
  /\ UNCHANGED <<onServer, stored, typed, saves, answers, online>>

(* apply_encoding reads the bytes once more in another encoding.           *)
ApplyEncoding ==
  /\ doc.open /\ ~doc.saving
  /\ doc' = [doc EXCEPT !.savedText = doc.source, !.text = doc.source, !.conflict = 0,
                        !.atStart = 0, !.dirty = FALSE]
  /\ UNCHANGED <<onServer, stored, typed, saves, answers, online>>

CloseTabOfFile ==
  /\ doc.open
  /\ doc' = NoTab
  /\ UNCHANGED <<onServer, stored, typed, saves, answers, online>>

(* notify_connection_lost: a tab with changes stays, to be copied from.    *)
NotifyConnectionLost ==
  /\ ~online /\ doc.open /\ doc.connected
  /\ doc' = IF doc.dirty THEN [doc EXCEPT !.connected = FALSE, !.saving = FALSE] ELSE NoTab
  /\ UNCHANGED <<onServer, stored, typed, saves, answers, online>>

-----------------------------------------------------------------------------
(* The answers.                                                            *)

Opened(c) ==
  IF doc.open THEN doc
  ELSE [NoTab EXCEPT !.open = TRUE, !.text = c, !.savedText = c, !.revision = c,
                     !.source = c, !.base = c]

\* A mutant of MarkUploaded: the tab is clean whatever was typed since.
MarkUploadedClean(tab, c) ==
  [tab EXCEPT !.savedText = IF tab.atStart = 0 THEN @ ELSE tab.text,
              !.source = IF tab.atStart = 0 THEN @ ELSE tab.atStart,
              !.dirty = FALSE, !.atStart = 0,
              !.revision = c, !.saving = FALSE, !.conflict = 0]
MarkUploaded(tab, c) ==
  LET done == IF tab.atStart = 0 THEN tab
              ELSE [tab EXCEPT !.savedText = tab.atStart, !.dirty = tab.atStart # tab.text,
                               !.source = tab.atStart, !.atStart = 0]
  IN  [done EXCEPT !.revision = c, !.saving = FALSE, !.conflict = 0]

\* A mutant of MarkConflict: the revision found is the one to expect.
MarkConflictKnown(tab, c) ==
  [tab EXCEPT !.saving = FALSE, !.atStart = 0, !.dirty = TRUE, !.conflict = c,
              !.revision = c]
MarkConflict(tab, c) ==
  [tab EXCEPT !.saving = FALSE, !.atStart = 0, !.dirty = TRUE, !.conflict = c]

MarkUploadFailed(tab) ==
  [tab EXCEPT !.saving = FALSE, !.atStart = 0, !.dirty = TRUE]

(* An answer carries the path and the session, not the save it answers.    *)
Answered(a) ==
  LET own    == a.job = doc.awaits
      marked == [doc EXCEPT !.crossed = @ \/ ~own, !.awaits = IF own THEN 0 ELSE @]
      based  == [marked EXCEPT !.base = IF own THEN a.content ELSE @]
  IN  IF ~doc.open THEN doc
      ELSE CASE a.kind = "uploaded" -> MarkUploaded(based, a.content)
             [] a.kind = "conflict" -> MarkConflict(marked, a.content)
             [] a.kind = "failed"   -> MarkUploadFailed(marked)

HandleAnswer ==
  /\ answers # <<>>
  /\ doc' = IF Head(answers).kind = "content" THEN Opened(Head(answers).content)
            ELSE Answered(Head(answers))
  /\ answers' = Tail(answers)
  /\ UNCHANGED <<onServer, stored, typed, saves, online>>

-----------------------------------------------------------------------------
(* A save (save_remote_text_file).                                         *)

At(j, stage) == saves[j].stage = stage
Goes(j, stage) == saves' = [saves EXCEPT ![j].stage = stage]
Over(j) == saves' = [saves EXCEPT ![j] = [NoSave EXCEPT !.stage = "over", !.backup = saves[j].backup]]
Ends(j, kind, c) ==
  /\ Over(j)
  /\ answers' = Append(answers, [kind |-> kind, content |-> c, job |-> j])

Unexpected(j) == ~saves[j].force /\ onServer # saves[j].expected

(* What replaces the file is raced by a change of someone else that comes  *)
(* behind the last look.                                                   *)
Raced(except) ==
  [j \in Saves |-> IF j # except /\ saves[j].stage \in {"replace", "fallback"}
                   THEN [saves[j] EXCEPT !.raced = TRUE] ELSE saves[j]]

Look(j, stage, next) ==
  /\ At(j, stage)
  /\ IF onServer = 0 THEN Ends(j, "failed", 0)
     ELSE IF Unexpected(j) THEN Ends(j, "conflict", onServer)
     ELSE Goes(j, next) /\ UNCHANGED answers
  /\ UNCHANGED <<onServer, stored, typed, doc, online>>

(* The temporary file is written between the two.                          *)
FirstLook(j)  == Look(j, "look", "look again")
SecondLook(j) == Look(j, "look again", "replace")

Replaced(j) ==
  /\ onServer' = saves[j].content /\ stored' = stored \cup {saves[j].content}

(* replace_remote_file: by one rename where the server allows it.          *)
RenameOver(j) ==
  /\ At(j, "replace")
  /\ Replaced(j)
  /\ saves' = [Raced(j) EXCEPT ![j].stage = "verify"]
  /\ UNCHANGED <<typed, doc, answers, online>>

RefuseRename(j) ==
  /\ At(j, "replace")
  /\ Goes(j, "fallback")
  /\ UNCHANGED <<onServer, stored, typed, doc, answers, online>>

\* A mutant of MoveAside: the file is removed.
RemoveAtOnce(j) ==
  /\ At(j, "fallback") /\ onServer # 0
  /\ onServer' = 0
  /\ saves' = [Raced(j) EXCEPT ![j].stage = "place"]
  /\ UNCHANGED <<stored, typed, doc, answers, online>>

(* Or else with the original kept aside until the new file is in place.    *)
MoveAside(j) ==
  /\ At(j, "fallback") /\ onServer # 0
  /\ onServer' = 0
  /\ saves' = [Raced(j) EXCEPT ![j].stage = "place", ![j].backup = onServer]
  /\ UNCHANGED <<stored, typed, doc, answers, online>>

Place(j) ==
  /\ At(j, "place") /\ onServer = 0
  /\ Replaced(j)
  /\ saves' = [Raced(j) EXCEPT ![j].stage = "drop backup"]
  /\ UNCHANGED <<typed, doc, answers, online>>

Rollback(j) ==
  /\ At(j, "place") /\ onServer = 0
  /\ onServer' = saves[j].backup
  /\ saves' = [Raced(j) EXCEPT ![j] = [NoSave EXCEPT !.stage = "over"]]
  /\ answers' = Append(answers, [kind |-> "failed", content |-> 0, job |-> j])
  /\ UNCHANGED <<stored, typed, doc, online>>

(* If it stays nothing reads it again.                                     *)
RemoveBackup(j) ==
  /\ At(j, "drop backup")
  /\ saves' = [saves EXCEPT ![j].stage = "verify", ![j].backup = 0]
  /\ UNCHANGED <<onServer, stored, typed, doc, answers, online>>

VerifySaved(j) ==
  /\ At(j, "verify")
  /\ IF onServer = saves[j].content THEN Ends(j, "uploaded", onServer) ELSE Ends(j, "failed", 0)
  /\ UNCHANGED <<onServer, stored, typed, doc, online>>

(* Any request may fail, which is reported; the tasks of a session that is *)
(* closed, and one that gets no SFTP channel, end without a word.          *)
SaveFails(j) ==
  /\ saves[j].stage \notin {"none", "over"}
  /\ Ends(j, "failed", 0)
  /\ UNCHANGED <<onServer, stored, typed, doc, online>>

SaveStops(j) ==
  /\ At(j, "look") \/ (~online /\ saves[j].stage \notin {"none", "over"})
  /\ Over(j)
  /\ UNCHANGED <<onServer, stored, typed, doc, answers, online>>

-----------------------------------------------------------------------------
OthersWrite ==
  /\ NewText
  /\ onServer' = typed + 1 /\ stored' = stored \cup {typed + 1}
  /\ saves' = Raced(0)
  /\ UNCHANGED <<doc, answers, online>>

(* A new session has windows and tasks of its own.                         *)
SessionLost ==
  /\ online' = FALSE
  /\ UNCHANGED <<onServer, stored, typed, doc, saves, answers>>

EdNext ==
  \/ ReadFile \/ Edit \/ Reload \/ ApplyEncoding \/ CloseTabOfFile \/ NotifyConnectionLost
  \/ \E force \in BOOLEAN : Save(force)
  \/ HandleAnswer
  \/ \E j \in Saves :
       \/ FirstLook(j) \/ SecondLook(j) \/ RenameOver(j) \/ RefuseRename(j)
       \/ MoveAside(j) \/ Place(j) \/ Rollback(j) \/ RemoveBackup(j) \/ VerifySaved(j)
       \/ SaveFails(j) \/ SaveStops(j)
  \/ OthersWrite \/ SessionLost

EdSpec == EdInit /\ [][EdNext]_edVars

-----------------------------------------------------------------------------
EdTypeOK ==
  /\ onServer \in 0..MaxContents /\ stored \subseteq Contents
  /\ doc.text \in 0..MaxContents /\ doc.revision \in 0..MaxContents
  /\ (doc.dirty \/ doc.saving => doc.open)
  /\ \A j \in Saves : saves[j].backup \in 0..MaxContents

(* A save that was not forced replaces the content its text was made from, *)
(* unless someone wrote the file behind the second look, or the tab took   *)
(* the answer to another save (EditorTab: a save is refused when the       *)
(* remote file changed).                                                   *)
Replacing(j) ==
  /\ saves[j].stage \in {"replace", "fallback"}
  /\ saves'[j].stage \in {"verify", "place"}
NoSilentOverwrite ==
  [][\A j \in Saves :
       Replacing(j) /\ ~saves[j].force /\ ~saves[j].raced /\ ~saves[j].crossed
         => onServer = saves[j].base]_edVars

(* A tab without the mark of unsaved changes shows a text the remote file  *)
(* had at some time: closing it without a question loses nothing.          *)
CleanIsSafe == doc.open /\ ~doc.dirty /\ ~doc.crossed => doc.text \in stored

(* The path holds a file, or a save left what it held in a backup.         *)
FileSurvives == onServer # 0 \/ \E j \in Saves : saves[j].backup # 0
=============================================================================
