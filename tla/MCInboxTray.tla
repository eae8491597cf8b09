---------------------------- MODULE MCInboxTray ----------------------------
(* Small instances of InboxTray.  note1 and note2 are saved under one name. *)
EXTENDS InboxTray

CONSTANTS daemon, note1, note2, junk, broken

MCNameOf == [d \in Dump |-> CASE d \in {note1, note2} -> "note.md"
                              [] d = junk -> "log.txt"
                              [] OTHER -> "rows.json"]
============================================================================
