------------------------------ MODULE Documents ------------------------------
(***************************************************************************)
(* Uploaded files: rows of the table documents and files on disk           *)
(* (apps/backend/src/documents/), and the attachments of chat messages     *)
(* (send and remove in messages/messages.module.ts).                       *)
(*                                                                         *)
(* No transaction spans the two stores.  Each handler touches them in an   *)
(* order of its own: upload and send write the file first, remove deletes  *)
(* the row first, replace removes the old file before the row names the    *)
(* new one.                                                                *)
(***************************************************************************)
EXTENDS Naturals, FiniteSets

CONSTANTS
  Requests,  \* requests the server may be handling at the same time
  Users,     \* accounts
  Admins,    \* the administrators among them
  MaxFiles,  \* bound: files that are ever stored
  NoDoc      \* no such row

(***************************************************************************)
(* storage.save makes up a fresh path (a UUID) each time: the n-th file    *)
(* has path n.  A row is named by the file it was created with.            *)
(***************************************************************************)
Paths == 1..MaxFiles

\* attached: messageId names the chat message of this module.
Rows == [path : Paths, by : Users, attached : BOOLEAN]

DocumentsAssumption ==
  /\ IsFiniteSet(Requests)
  /\ Admins \subseteq Users
  /\ MaxFiles \in Nat
  /\ NoDoc \notin Rows

VARIABLES
  doc,      \* doc[d]: the row created with file d
  files,    \* paths of the files on disk
  stored,   \* how many files were ever stored
  chat,     \* the chat message files are attached to: "none", "there", "gone"
  req,      \* req[r]: what request r keeps between two awaits
  aborted   \* history: a request died half-way

\* The names carry the module's own, for MCOffice extends it together with Session.
documentsVars == <<doc, files, stored, chat, req, aborted>>

Idle == [step |-> "idle"]

Inserts == [step : {"insert"}, path : Paths, by : Users, attached : BOOLEAN]

Saves == [step : {"save"}, id : Paths, by : Users, old : Paths]

Updates == [step : {"drop", "update"}, id : Paths, by : Users, old : Paths, path : Paths]

Deletes == [step : {"delete"}, id : Paths, old : Paths]

Unlinks == [step : {"unlink"}, old : Paths]

Sends == [step : {"attach"}, by : Users]

Unsends == [step : {"detach"}, ids : SUBSET Paths] \union [step : {"unsend"}]

RequestStates ==
  {Idle} \union Inserts \union Saves \union Updates \union Deletes \union Unlinks
    \union Sends \union Unsends

Existing == {d \in Paths : doc[d] # NoDoc}

DocumentsInit ==
  /\ doc = [d \in Paths |-> NoDoc]
  /\ files = {}
  /\ stored = 0
  /\ chat = "none"
  /\ req = [r \in Requests |-> Idle]
  /\ aborted = FALSE

Goto(r, state) == req' = [req EXCEPT ![r] = state]

Begin(r, state) == req[r] = Idle /\ Goto(r, state)

End(r) == Goto(r, Idle)

MayChange(u, d) == doc[d].by = u \/ u \in Admins

-----------------------------------------------------------------------------
\* Requests that have a file to store yet.
Reserved == {r \in Requests : req[r].step \in {"save", "attach"}}

\* The bound on files, those about to be stored included.
HasFreePath == stored + Cardinality(Reserved) < MaxFiles

Fresh == stored + 1

\* storage.save; what comes next keeps the path.
SaveFile(r, next) ==
  /\ stored' = Fresh
  /\ files' = files \union {Fresh}
  /\ Goto(r, next)

\* upload: the file first.
ReceiveUpload(r, u) ==
  /\ req[r] = Idle
  /\ HasFreePath
  /\ SaveFile(r, [step |-> "insert", path |-> Fresh, by |-> u, attached |-> FALSE])
  /\ UNCHANGED <<doc, chat, aborted>>

\* The insert of upload and of an attachment; messageId must name a message.
InsertDoc(r) ==
  /\ req[r].step = "insert"
  /\ doc' = IF req[r].attached /\ chat # "there" THEN doc
            ELSE [doc EXCEPT ![req[r].path] =
                    [path |-> req[r].path, by |-> req[r].by, attached |-> req[r].attached]]
  /\ End(r)
  /\ UNCHANGED <<files, stored, chat, aborted>>

-----------------------------------------------------------------------------
(***************************************************************************)
(* replace: read and check, save the new file, remove the old one, update. *)
(***************************************************************************)
CheckReplace(r, u, d) ==
  /\ d \in Existing
  /\ HasFreePath
  /\ MayChange(u, d)
  /\ Begin(r, [step |-> "save", id |-> d, by |-> u, old |-> doc[d].path])
  /\ UNCHANGED <<doc, files, stored, chat, aborted>>

SaveNew(r) ==
  /\ req[r].step = "save"
  /\ SaveFile(r, [step |-> "drop", id |-> req[r].id, by |-> req[r].by,
                  old |-> req[r].old, path |-> Fresh])
  /\ UNCHANGED <<doc, chat, aborted>>

\* storage.remove ignores a file that is already gone.
DropOld(r) ==
  /\ req[r].step = "drop"
  /\ files' = files \ {req[r].old}
  /\ Goto(r, [req[r] EXCEPT !.step = "update"])
  /\ UNCHANGED <<doc, stored, chat, aborted>>

\* Mutant of UpdateDoc: the row goes on naming the file that was removed.
UpdateDocKeepsPath(r) ==
  /\ req[r].step = "update"
  /\ doc' = IF req[r].id \in Existing
            THEN [doc EXCEPT ![req[r].id].by = req[r].by] ELSE doc
  /\ End(r)
  /\ UNCHANGED <<files, stored, chat, aborted>>

\* The update throws if the row was deleted meanwhile.
UpdateDoc(r) ==
  /\ req[r].step = "update"
  /\ doc' = IF req[r].id \in Existing
            THEN [doc EXCEPT ![req[r].id].path = req[r].path, ![req[r].id].by = req[r].by]
            ELSE doc
  /\ End(r)
  /\ UNCHANGED <<files, stored, chat, aborted>>

-----------------------------------------------------------------------------
(***************************************************************************)
(* remove: read and check, delete the row, then its file.                  *)
(***************************************************************************)
CheckRemove(r, u, d) ==
  /\ d \in Existing
  /\ MayChange(u, d)
  /\ Begin(r, [step |-> "delete", id |-> d, old |-> doc[d].path])
  /\ UNCHANGED <<doc, files, stored, chat, aborted>>

\* A second delete throws and leaves the file alone.
DeleteDoc(r) ==
  /\ req[r].step = "delete"
  /\ IF req[r].id \in Existing
     THEN /\ doc' = [doc EXCEPT ![req[r].id] = NoDoc]
          /\ Goto(r, [step |-> "unlink", old |-> req[r].old])
     ELSE doc' = doc /\ End(r)
  /\ UNCHANGED <<files, stored, chat, aborted>>

UnlinkFile(r) ==
  /\ req[r].step = "unlink"
  /\ files' = files \ {req[r].old}
  /\ End(r)
  /\ UNCHANGED <<doc, stored, chat, aborted>>

-----------------------------------------------------------------------------
(***************************************************************************)
(* A chat message with a file: the message row, then file and document.    *)
(* Its removal reads the attachments, deletes their rows, then the message *)
(* (the foreign key of a row that came later becomes null); files stay.    *)
(***************************************************************************)
SendMessage(r, u) ==
  /\ chat = "none"
  /\ HasFreePath
  /\ chat' = "there"
  /\ Begin(r, [step |-> "attach", by |-> u])
  /\ UNCHANGED <<doc, files, stored, aborted>>

AttachFile(r) ==
  /\ req[r].step = "attach"
  /\ SaveFile(r, [step |-> "insert", path |-> Fresh, by |-> req[r].by, attached |-> TRUE])
  /\ UNCHANGED <<doc, chat, aborted>>

Attachments == {d \in Existing : doc[d].attached}

CheckUnsend(r) ==
  /\ chat = "there"
  /\ Begin(r, [step |-> "detach", ids |-> Attachments])
  /\ UNCHANGED <<doc, files, stored, chat, aborted>>

\* deleteMany over the ids that were read.
DetachDocs(r) ==
  /\ req[r].step = "detach"
  /\ doc' = [d \in Paths |-> IF d \in req[r].ids THEN NoDoc ELSE doc[d]]
  /\ Goto(r, [step |-> "unsend"])
  /\ UNCHANGED <<files, stored, chat, aborted>>

DeleteMessage(r) ==
  /\ req[r].step = "unsend"
  /\ chat' = "gone"
  /\ doc' = [d \in Paths |->
               IF d \in Attachments THEN [doc[d] EXCEPT !.attached = FALSE] ELSE doc[d]]
  /\ End(r)
  /\ UNCHANGED <<files, stored, aborted>>

AbortRequest(r) ==
  /\ req[r] # Idle
  /\ End(r)
  /\ aborted' = TRUE
  /\ UNCHANGED <<doc, files, stored, chat>>

-----------------------------------------------------------------------------
Receive(r) ==
  \/ \E u \in Users :
       \/ ReceiveUpload(r, u)
       \/ SendMessage(r, u)
       \/ \E d \in Paths : CheckReplace(r, u, d) \/ CheckRemove(r, u, d)
  \/ CheckUnsend(r)

Advance(r) ==
  \/ InsertDoc(r)
  \/ SaveNew(r) \/ DropOld(r) \/ UpdateDoc(r)
  \/ DeleteDoc(r) \/ UnlinkFile(r)
  \/ AttachFile(r) \/ DetachDocs(r) \/ DeleteMessage(r)

DocumentsNext == \E r \in Requests : Receive(r) \/ Advance(r) \/ AbortRequest(r)

DocumentsSpec == DocumentsInit /\ [][DocumentsNext]_documentsVars

-----------------------------------------------------------------------------
DocumentsTypeOK ==
  /\ doc \in [Paths -> Rows \union {NoDoc}]
  /\ files \subseteq Paths
  /\ stored \in 0..MaxFiles
  /\ chat \in {"none", "there", "gone"}
  /\ req \in [Requests -> RequestStates]
  /\ aborted \in BOOLEAN

\* A row's file can be downloaded, except while the replace that removed the
\* file is about to update the row, and after a request died: however
\* replacements, removals and attachments of the same documents interleave.
MissingOnlyWhileReplaced ==
  aborted \/
  \A d \in Existing :
    \/ doc[d].path \in files
    \/ \E r \in Requests : req[r].step = "update" /\ req[r].id = d
=============================================================================
