------------------------------ MODULE CRMFile -------------------------------
(***************************************************************************)
(* How CRMClient (cayz_agent/integrations/crm.py) keeps a dictionary in a  *)
(* JSON file: every change of the dictionary is followed by a snapshot of  *)
(* it, which is then written over the whole file.  Customers and orders    *)
(* each have a dictionary and a file and the same code for it; this module *)
(* is about either.  What an entry says is module CRM's.                   *)
(*                                                                         *)
(* There is no lock: an endpoint on the event loop and tools in worker     *)
(* threads change and save at the same time, and the process may die       *)
(* between any two steps.                                                  *)
(***************************************************************************)
CONSTANTS
  Saver,  \* who saves: the event loop and the worker threads
  Entry,  \* what the dictionary may hold under some number
  Empty,  \* the file has been opened for writing, and so truncated
  Torn    \* the file holds no JSON

ASSUME CRMFileAssumption ==
  /\ Empty # Torn
  /\ \A S \in SUBSET Entry : Empty # S /\ Torn # S

VARIABLES
  memory,  \* the entries of self._customers or of self._orders
  file,    \* its file: entries, Empty or Torn
  save     \* save[a]: how far saver a has come with a change

\* History variables: no code reads them, the properties do.
VARIABLES
  spoiled,  \* whether the save that ended last failed, was torn or was stale
  promised  \* entries whose change was answered, and not changed again since

fileVars == <<memory, file, save, spoiled, promised>>
-----------------------------------------------------------------------------
Save ==
  [at : {"idle", "changed", "snapped", "opened"},
   put : SUBSET Entry,   \* what the change has put into the dictionary
   data : SUBSET Entry,  \* the snapshot it is about to write
   fresh : BOOLEAN]      \* history: no change since the snapshot

NoSave == [at |-> "idle", put |-> {}, data |-> {}, fresh |-> FALSE]

\* No change is on its way to the file.
Quiet == \A a \in Saver : save[a].at = "idle"

FileInit ==
  /\ memory = {}
  /\ file = {}
  /\ save = [a \in Saver |-> NoSave]
  /\ spoiled = FALSE
  /\ promised = {}

-----------------------------------------------------------------------------
Mut_AlterUnsaved(a, out, in) ==
  /\ save[a].at = "idle"
  /\ out \subseteq memory /\ in \cap memory = {} /\ out \cup in # {}
  /\ memory' = (memory \ out) \cup in
  /\ promised' = promised \ out
  /\ UNCHANGED <<file, save, spoiled>>

\* An operation adds an entry, deletes one, or changes one into another; the
\* snapshots taken before are old now.
Alter(a, out, in) ==
  /\ save[a].at = "idle"
  /\ out \subseteq memory /\ in \cap memory = {} /\ out \cup in # {}
  /\ memory' = (memory \ out) \cup in
  /\ save' = [b \in Saver |->
               IF b = a THEN [NoSave EXCEPT !.at = "changed", !.put = in]
               ELSE [save[b] EXCEPT !.put = @ \ out, !.fresh = FALSE]]
  /\ promised' = promised \ out
  /\ UNCHANGED <<file, spoiled>>

Mut_SavesItsOwnOnly(a) ==
  /\ save[a].at = "changed"
  /\ save' = [save EXCEPT ![a] = [@ EXCEPT !.at = "snapped", !.data = save[a].put, !.fresh = TRUE]]
  /\ UNCHANGED <<memory, file, spoiled, promised>>

\* data = [... for c in self._customers.values()]
Snapshot(a) ==
  /\ save[a].at = "changed"
  /\ save' = [save EXCEPT ![a] = [@ EXCEPT !.at = "snapped", !.data = memory, !.fresh = TRUE]]
  /\ UNCHANGED <<memory, file, spoiled, promised>>

\* open(_PERSIST_FILE, "w")
Open(a) ==
  /\ save[a].at = "snapped"
  /\ file' = Empty
  /\ save' = [save EXCEPT ![a] = [@ EXCEPT !.at = "opened"]]
  /\ UNCHANGED <<memory, spoiled, promised>>

\* The operation is answered with success, saved or not.
Answer(a) ==
  /\ save' = [save EXCEPT ![a] = NoSave]
  /\ promised' = promised \cup save[a].put
  /\ UNCHANGED memory

\* json.dump and close.  Over what another save has written since the opening the
\* end of a longer text stays.
Write(a) ==
  /\ save[a].at = "opened"
  /\ \/ file' = save[a].data
     \/ file # Empty /\ file' = Torn
  /\ spoiled' = (file' = Torn \/ ~save[a].fresh)
  /\ Answer(a)

\* The exception is logged; a file already open stays without its contents.
SaveFails(a) ==
  /\ save[a].at # "idle"
  /\ file' = IF save[a].at = "opened" THEN Torn ELSE file
  /\ spoiled' = TRUE
  /\ Answer(a)

\* What _load_persisted makes of the file: one that is no JSON is an empty book.
Loaded == IF file \in {Empty, Torn} THEN {} ELSE file

\* Some save has truncated the file and not written it yet.
Exposed == \E a \in Saver : save[a].at = "opened"

\* The process dies and is started again.
Restart ==
  /\ memory' = Loaded
  /\ save' = [a \in Saver |-> NoSave]
  /\ promised' = IF spoiled \/ Exposed THEN promised \cap Loaded ELSE promised
  /\ spoiled' = FALSE
  /\ UNCHANGED file

AtMostOne == {{}} \cup {{e} : e \in Entry}

FileNext ==
  \/ \E a \in Saver :
       \/ \E out, in \in AtMostOne : Alter(a, out, in)
       \/ Snapshot(a) \/ Open(a) \/ Write(a) \/ SaveFails(a)
  \/ Restart

FileSpec == FileInit /\ [][FileNext]_fileVars
-----------------------------------------------------------------------------
(* Properties.                                                             *)

\* The dictionary holds entries whatever the file looks like, and what was
\* promised is in it.
FileTypeOK ==
  /\ memory \in SUBSET Entry
  /\ file \in {Empty, Torn} \cup (SUBSET Entry)
  /\ save \in [Saver -> Save]
  /\ spoiled \in BOOLEAN
  /\ promised \in SUBSET memory

\* Once all saves are through, a restart would load exactly what is in memory,
\* unless the save that ended last failed, was torn or wrote an old snapshot.
FileIsMemory == Quiet /\ ~spoiled => Loaded = memory

\* An answered change is in the file at every instant, also while later changes
\* are being saved, but for the time a save has the file open and unless the
\* save that ended last spoiled it.
AnsweredIsOnDisk == ~spoiled /\ ~Exposed => promised \subseteq Loaded
-----------------------------------------------------------------------------
\* "The persistence file ... solves the problem that added customers are lost
\* when the service restarts" (cayz_agent/integrations/crm.py:19): with no save
\* ever failing, a restart loads every entry whose change was answered.  The file
\* is truncated before it is written, and a crash in between loses it all.
RestartKeepsAnswered == [][Restart /\ ~spoiled => promised \subseteq memory']_fileVars
=============================================================================
